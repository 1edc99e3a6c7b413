----------------------------- MODULE RateCaches -----------------------------
(***************************************************************************)
(* The two caches a rate passes through on its way to a caller: the one of *)
(* TokenInfoHandler (api/handler/token-info/service.ts) and, behind it,    *)
(* the one of RateHandler (api/handler/fee-info/service.ts), for one       *)
(* contract ID.  Both are module singletons; their keys name the contract  *)
(* and not the network of the request.                                     *)
(*                                                                         *)
(* A rate is abstracted to its origin: the network that served it and the  *)
(* moment it was read there.  The validator is external; an answer takes   *)
(* up to Latency.  Safeguards and conversions are functions of the rate    *)
(* and left out.                                                           *)
(***************************************************************************)
EXTENDS Integers

CONSTANTS
  Call,      \* concurrent calls
  Net,       \* networks the callers ask
  Default,   \* the network asked without options
  TokenTtl,  \* TokenInfoHandler.cacheTimeout
  RateTtl,   \* RateHandler.cacheTimeout
  Latency,   \* longest time between the validator's read and the answer
  MaxTime    \* bound: the clock

ASSUME CacheConstants ==
  /\ Default \in Net
  /\ TokenTtl \in Nat \ {0} /\ RateTtl \in Nat \ {0}
  /\ Latency \in Nat /\ MaxTime \in Nat

VARIABLES
  now,     \* Date.now()
  tokens,  \* TokenInfoHandler.cache: the entry of the contract
  rates,   \* RateHandler.cache: the entry of the contract
  pc,      \* where each call is
  op,      \* the function called
  net,     \* the network it asks
  datum    \* the rate it holds

callVars == <<pc, op, net, datum>>
vars == <<now, tokens, rates, callVars>>

Ops == {"getTokenFeeInfo", "getExchangeRate"}
Datum == [net : Net, at : Nat]
Empty == [full |-> FALSE]
Entry == [full : {TRUE}, data : Datum, since : Nat]

Goto(c, label) == pc' = [pc EXCEPT ![c] = label]

\* Mutant: an entry is kept for as long again.
FreshTwice(entry, ttl) == entry.full /\ now - entry.since < 2 * ttl

\* The check of both caches.
Fresh(entry, ttl) == entry.full /\ now - entry.since < ttl

Stored(d) == [full |-> TRUE, data |-> d, since |-> now]

-----------------------------------------------------------------------------
(* Calls *)

\* getTokenFeeInfo: the cached answer, or a request.
LookUp(c, f, n) ==
  /\ op' = [op EXCEPT ![c] = f]
  /\ net' = [net EXCEPT ![c] = n]
  /\ \/ /\ Fresh(tokens, TokenTtl)
        /\ datum' = [datum EXCEPT ![c] = tokens.data]
        /\ Goto(c, "got")
     \/ /\ ~Fresh(tokens, TokenTtl)
        /\ Goto(c, "asked")
        /\ UNCHANGED datum
  /\ UNCHANGED <<now, tokens, rates>>

GetTokenFeeInfo(c, n) ==
  /\ pc[c] = "idle"
  /\ LookUp(c, "getTokenFeeInfo", n)

\* getExchangeRate: the cached rate unless useCache is off, else the token
\* information of the default network.
GetExchangeRate(c, useCache) ==
  /\ pc[c] = "idle"
  /\ \/ /\ useCache /\ Fresh(rates, RateTtl)
        /\ op' = [op EXCEPT ![c] = "getExchangeRate"]
        /\ net' = [net EXCEPT ![c] = Default]
        /\ datum' = [datum EXCEPT ![c] = rates.data]
        /\ Goto(c, "done")
        /\ UNCHANGED <<now, tokens, rates>>
     \/ /\ ~(useCache /\ Fresh(rates, RateTtl))
        /\ LookUp(c, "getExchangeRate", Default)

\* The validator reads the rate.
Read(c) ==
  /\ pc[c] = "asked"
  /\ datum' = [datum EXCEPT ![c] = [net |-> net[c], at |-> now]]
  /\ Goto(c, "answered")
  /\ UNCHANGED <<now, tokens, rates, op, net>>

\* The answer arrives, whatever arrived since the request, and is cached.
Receive(c) ==
  /\ pc[c] = "answered"
  /\ tokens' = Stored(datum[c])
  /\ Goto(c, "got")
  /\ UNCHANGED <<now, rates, op, net, datum>>

\* The request fails: getTokenFeeInfo throws, getExchangeRate falls back to
\* its configured rate or throws.
Fail(c) ==
  /\ pc[c] \in {"asked", "answered"}
  /\ Goto(c, "failed")
  /\ UNCHANGED <<now, tokens, rates, op, net, datum>>

\* getExchangeRate returns the rate without caching it.
ReturnRate(c) ==
  /\ pc[c] = "got" /\ op[c] = "getExchangeRate"
  /\ Goto(c, "done")
  /\ UNCHANGED <<now, tokens, rates, op, net, datum>>

\* Mutant: a hit renews the cached rate.
ProcessRateRenews(c, useCache) ==
  /\ pc[c] = "got" /\ op[c] = "getTokenFeeInfo"
  /\ \/ /\ useCache /\ Fresh(rates, RateTtl)
        /\ datum' = [datum EXCEPT ![c] = rates.data]
        /\ rates' = Stored(rates.data)
     \/ /\ ~(useCache /\ Fresh(rates, RateTtl))
        /\ rates' = Stored(datum[c])
        /\ UNCHANGED datum
  /\ Goto(c, "done")
  /\ UNCHANGED <<now, tokens, op, net>>

\* The caller of getTokenFeeInfo hands the rate to processRate, which returns
\* the cached rate instead while that is fresh.
ProcessRate(c, useCache) ==
  /\ pc[c] = "got" /\ op[c] = "getTokenFeeInfo"
  /\ \/ /\ useCache /\ Fresh(rates, RateTtl)
        /\ datum' = [datum EXCEPT ![c] = rates.data]
        /\ UNCHANGED rates
     \/ /\ ~(useCache /\ Fresh(rates, RateTtl))
        /\ rates' = Stored(datum[c])
        /\ UNCHANGED datum
  /\ Goto(c, "done")
  /\ UNCHANGED <<now, tokens, op, net>>

\* The caller uses the rate, and calls again some time.
Return(c) ==
  /\ pc[c] \in {"done", "failed"}
  /\ Goto(c, "idle")
  /\ UNCHANGED <<now, tokens, rates, op, net, datum>>

\* clearCache of either handler.
ClearCache ==
  /\ \/ tokens' = Empty /\ UNCHANGED rates
     \/ rates' = Empty /\ UNCHANGED tokens
  /\ UNCHANGED <<now, callVars>>

\* Time passes between tasks only: a rate at hand is used first.  No answer
\* is later than Latency.
Tick ==
  /\ now < MaxTime
  /\ \A c \in Call :
       /\ pc[c] \notin {"got", "done"}
       /\ pc[c] = "answered" => now - datum[c].at < Latency
  /\ now' = now + 1
  /\ UNCHANGED <<tokens, rates, callVars>>

Init ==
  /\ now = 0
  /\ tokens = Empty
  /\ rates = Empty
  /\ pc = [c \in Call |-> "idle"]
  /\ op = [c \in Call |-> "getTokenFeeInfo"]
  /\ net = [c \in Call |-> Default]
  /\ datum = [c \in Call |-> [net |-> Default, at |-> 0]]

Step(c) ==
  \/ Read(c) \/ Receive(c) \/ Fail(c) \/ ReturnRate(c) \/ Return(c)
  \/ \E n \in Net : GetTokenFeeInfo(c, n)
  \/ \E useCache \in BOOLEAN :
       GetExchangeRate(c, useCache) \/ ProcessRate(c, useCache)

Next == Tick \/ ClearCache \/ \E c \in Call : Step(c)

Spec == Init /\ [][Next]_vars

-----------------------------------------------------------------------------
(* Properties *)

\* Type invariant of the caches and the calls.
TypeOK ==
  /\ now \in Nat
  /\ tokens \in Entry \cup {Empty}
  /\ rates \in Entry \cup {Empty}
  /\ pc \in [Call -> {"idle", "asked", "answered", "got", "done", "failed"}]
  /\ op \in [Call -> Ops]
  /\ net \in [Call -> Net]
  /\ datum \in [Call -> Datum]

\* The token information a caller is handed is younger than one request and
\* one stay in its cache.
TokenAge ==
  \A c \in Call : pc[c] = "got" =>
    datum[c].at <= now /\ now - datum[c].at < Latency + TokenTtl

\* The stays in both caches add up, as each stamps an entry with the time it
\* stores it: a rate that is used may be as old as a request and both times to
\* live, and no older, however calls and answers interleave.
RateAge ==
  \A c \in Call : pc[c] = "done" =>
    datum[c].at <= now /\ now - datum[c].at < Latency + TokenTtl + RateTtl - 1
=============================================================================
