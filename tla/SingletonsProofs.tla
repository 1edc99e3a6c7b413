-------------------------- MODULE SingletonsProofs --------------------------
(***************************************************************************)
(* Proofs about Singletons.  How old a rate or a list of fee tokens may    *)
(* be, for any number of overlapping calls and networks, any times to live *)
(* and any latency.  And what the monitoring services report, for any      *)
(* checks, limits and logged values: a check that was there all the time   *)
(* has its result, is run, or lies ahead of the iteration; a series is the *)
(* end of what was observed; the statistics are true of the times they     *)
(* have seen; and redaction is inside of values that are reached without a *)
(* secret key.                                                             *)
(***************************************************************************)
EXTENDS Singletons, FiniteSetTheorems, SequenceTheorems, WellFoundedInduction, TLAPS

-----------------------------------------------------------------------------
(* RateCaches *)

\* What an entry holds was no older when it was stored than a request, or a
\* request and a stay in the token cache.
EntryAge ==
  /\ tokens.full =>
       tokens.data.at <= now /\ tokens.since - tokens.data.at <= Latency
  /\ rates.full =>
       /\ rates.data.at <= now
       /\ rates.since - rates.data.at < Latency + TokenTtl

AnswerAge ==
  \A c \in Call : pc[c] = "answered" =>
    datum[c].at <= now /\ now - datum[c].at <= Latency

IInv == TypeOK /\ EntryAge /\ AnswerAge /\ TokenAge /\ RateAge

\* The caches are empty at the start, so the invariant holds.
LEMMA InitInv == Init => IInv
  BY CacheConstants, SMT DEF Init, IInv, TypeOK, EntryAge, AnswerAge, TokenAge,
     RateAge, Ops, Datum, Empty, Entry

\* The fields of an entry that is there.
LEMMA EntryFields ==
  ASSUME TypeOK
  PROVE  /\ tokens.full => tokens.data \in Datum /\ tokens.since \in Nat
         /\ rates.full => rates.data \in Datum /\ rates.since \in Nat
         /\ \A c \in Call : datum[c] \in Datum
         /\ \A d \in Datum : d.at \in Nat /\ d.net \in Net
<1>1. \A e \in Entry : e.data \in Datum /\ e.since \in Nat
  BY DEF Entry
<1>2. ~Empty.full
  BY DEF Empty
<1>3. \A d \in Datum : d.at \in Nat /\ d.net \in Net
  BY DEF Datum
<1>4. QED
  BY <1>1, <1>2, <1>3 DEF TypeOK

\* Where a call is.
Labels == {"idle", "asked", "answered", "got", "done", "failed"}

\* A step that changes nothing but c, and hands it at most a rate of the age
\* its place allows.
CallOnly(c) ==
  /\ now' = now /\ tokens' = tokens /\ rates' = rates
  /\ op' \in [Call -> Ops] /\ net' \in [Call -> Net]
  /\ pc' \in [Call -> Labels]
  /\ datum' \in [Call -> Datum]
  /\ \A e \in Call : e # c => pc'[e] = pc[e] /\ datum'[e] = datum[e]
  /\ pc'[c] = "answered" =>
       datum'[c].at <= now /\ now - datum'[c].at <= Latency
  /\ pc'[c] = "got" =>
       datum'[c].at <= now /\ now - datum'[c].at < Latency + TokenTtl
  /\ pc'[c] = "done" =>
       /\ datum'[c].at <= now
       /\ now - datum'[c].at < Latency + TokenTtl + RateTtl - 1

\* A step that changes one call alone keeps the invariant, if that call's part
\* of it is kept.
LEMMA CallStep == ASSUME IInv, NEW c \in Call, CallOnly(c) PROVE IInv'
<1>1. TypeOK'
  BY DEF IInv, TypeOK, CallOnly, Labels
<1>2. EntryAge'
  BY DEF IInv, EntryAge, CallOnly
<1>3. AnswerAge' /\ TokenAge' /\ RateAge'
  BY SMT DEF IInv, AnswerAge, TokenAge, RateAge, CallOnly
<1>4. QED
  BY <1>1, <1>2, <1>3 DEF IInv

\* The types the step lemmas start from.
LEMMA TypeFacts == IInv => pc \in [Call -> Labels]
  BY DEF IInv, TypeOK, Labels

\* A look-up answers from the token cache or sends a request.
LEMMA LookUpInv ==
  ASSUME IInv, NEW c \in Call, NEW f \in Ops, NEW n \in Net, LookUp(c, f, n)
  PROVE  IInv'
<1> USE CacheConstants
<1>1. op' \in [Call -> Ops] /\ net' \in [Call -> Net]
      /\ UNCHANGED <<now, tokens, rates>>
  BY DEF LookUp, IInv, TypeOK
<1>2. CASE Fresh(tokens, TokenTtl) /\ datum' = [datum EXCEPT ![c] = tokens.data]
           /\ Goto(c, "got")
  <2>1. tokens.data \in Datum /\ tokens.data.at <= now
        /\ now - tokens.data.at < Latency + TokenTtl
    BY <1>2, EntryFields, SMT DEF IInv, TypeOK, EntryAge, Fresh
  <2>2. datum' \in [Call -> Datum] /\ datum'[c] = tokens.data
        /\ \A e \in Call : e # c => datum'[e] = datum[e]
    BY <1>2, <2>1 DEF IInv, TypeOK
  <2>3. pc' = [pc EXCEPT ![c] = "got"]
    BY <1>2 DEF Goto
  <2>4. QED
    BY <1>1, <2>1, <2>2, <2>3, TypeFacts, CallStep, SMT DEF CallOnly, Labels
<1>3. CASE Goto(c, "asked") /\ UNCHANGED datum
  <2>1. datum' \in [Call -> Datum] /\ pc' = [pc EXCEPT ![c] = "asked"]
    BY <1>3 DEF IInv, TypeOK, Goto
  <2>2. QED
    BY <1>1, <1>3, <2>1, TypeFacts, CallStep, SMT DEF CallOnly, Labels
<1>4. QED
  BY <1>2, <1>3 DEF LookUp

\* Handing out the cached rate.
LEMMA RateHit ==
  ASSUME IInv, NEW c \in Call, Fresh(rates, RateTtl),
         UNCHANGED <<now, tokens, rates>>,
         datum' = [datum EXCEPT ![c] = rates.data], Goto(c, "done"),
         op' \in [Call -> Ops], net' \in [Call -> Net]
  PROVE  IInv'
<1> USE CacheConstants
<1>1. rates.data \in Datum /\ rates.data.at <= now
      /\ now - rates.data.at < Latency + TokenTtl + RateTtl - 1
  BY EntryFields, SMT DEF IInv, TypeOK, EntryAge, Fresh
<1>2. datum' \in [Call -> Datum] /\ datum'[c] = rates.data
      /\ \A e \in Call : e # c => datum'[e] = datum[e]
  BY <1>1 DEF IInv, TypeOK
<1>3. pc' = [pc EXCEPT ![c] = "done"]
  BY DEF Goto
<1>4. QED
  BY <1>1, <1>2, <1>3, TypeFacts, CallStep, SMT DEF CallOnly, Labels

\* getExchangeRate is a look-up that goes on to process the rate.
LEMMA ExchangeInv ==
  ASSUME IInv, NEW c \in Call, NEW useCache \in BOOLEAN,
         GetExchangeRate(c, useCache)
  PROVE  IInv'
<1> USE CacheConstants
<1>1. op' \in [Call -> Ops] /\ net' \in [Call -> Net]
  BY DEF GetExchangeRate, LookUp, IInv, TypeOK, Ops
<1>2. CASE LookUp(c, "getExchangeRate", Default)
  BY <1>2, LookUpInv DEF Ops
<1>3. CASE /\ Fresh(rates, RateTtl)
           /\ datum' = [datum EXCEPT ![c] = rates.data]
           /\ Goto(c, "done")
           /\ UNCHANGED <<now, tokens, rates>>
  BY <1>1, <1>3, RateHit
<1>4. QED
  BY <1>2, <1>3 DEF GetExchangeRate

\* The steps of a call that store nothing.
LEMMA AnswerInv ==
  ASSUME IInv, NEW c \in Call,
         Read(c) \/ Fail(c) \/ ReturnRate(c) \/ Return(c)
  PROVE  IInv'
<1> USE CacheConstants
<1>1. op' \in [Call -> Ops] /\ net' \in [Call -> Net]
      /\ UNCHANGED <<now, tokens, rates>>
  BY DEF IInv, TypeOK, Read, Fail, ReturnRate, Return
<1>2. CASE Read(c)
  <2>1. [net |-> net[c], at |-> now] \in Datum
    BY DEF IInv, TypeOK, Datum
  <2>2. datum' \in [Call -> Datum] /\ datum'[c].at = now
        /\ \A e \in Call : e # c => datum'[e] = datum[e]
    BY <1>2, <2>1 DEF Read, IInv, TypeOK
  <2>3. pc' = [pc EXCEPT ![c] = "answered"] /\ now \in Nat
    BY <1>2 DEF Read, Goto, IInv, TypeOK
  <2>4. QED
    BY <1>1, <2>2, <2>3, TypeFacts, CallStep, SMT DEF CallOnly, Labels
<1>3. CASE Fail(c) \/ Return(c)
  <2>1. datum' = datum /\ datum \in [Call -> Datum]
    BY <1>3 DEF Fail, Return, IInv, TypeOK
  <2>2. CASE pc' = [pc EXCEPT ![c] = "failed"]
    BY <1>1, <2>1, <2>2, TypeFacts, CallStep, SMT DEF CallOnly, Labels
  <2>3. CASE pc' = [pc EXCEPT ![c] = "idle"]
    BY <1>1, <2>1, <2>3, TypeFacts, CallStep, SMT DEF CallOnly, Labels
  <2>4. QED
    BY <1>3, <2>2, <2>3 DEF Fail, Return, Goto
<1>4. CASE ReturnRate(c)
  <2>1. datum[c].at <= now
        /\ now - datum[c].at < Latency + TokenTtl + RateTtl - 1
    BY <1>4, EntryFields, SMT DEF ReturnRate, IInv, TokenAge, TypeOK
  <2>2. datum' = datum /\ datum \in [Call -> Datum]
        /\ pc' = [pc EXCEPT ![c] = "done"]
    BY <1>4 DEF ReturnRate, Goto, IInv, TypeOK
  <2>3. QED
    BY <1>1, <2>1, <2>2, TypeFacts, CallStep, SMT DEF CallOnly, Labels
<1>5. QED
  BY <1>2, <1>3, <1>4

\* Storing an answer in the token cache.
LEMMA ReceiveInv == ASSUME IInv, NEW c \in Call, Receive(c) PROVE IInv'
<1> USE CacheConstants DEF Receive, Goto
<1>1. datum[c] \in Datum /\ datum[c].at \in Nat /\ datum[c].at <= now
      /\ now - datum[c].at <= Latency /\ now \in Nat
  BY EntryFields DEF IInv, AnswerAge, TypeOK
<1>2. tokens' = [full |-> TRUE, data |-> datum[c], since |-> now]
  BY DEF Stored
<1>3. tokens' \in Entry
  BY <1>1, <1>2 DEF Entry
<1>4. TypeOK'
  BY <1>3, SMT DEF IInv, TypeOK
<1>5. EntryAge'
  BY <1>1, <1>2, SMT DEF IInv, EntryAge
<1>6. AnswerAge' /\ TokenAge' /\ RateAge'
  BY <1>1, SMT DEF IInv, TypeOK, AnswerAge, TokenAge, RateAge
<1>7. QED
  BY <1>4, <1>5, <1>6 DEF IInv

\* Processing a rate: the cached one, or this one stored.
LEMMA ProcessInv ==
  ASSUME IInv, NEW c \in Call, NEW useCache \in BOOLEAN,
         ProcessRate(c, useCache)
  PROVE  IInv'
<1> USE CacheConstants
<1>1. op' \in [Call -> Ops] /\ net' \in [Call -> Net]
  BY DEF IInv, TypeOK, ProcessRate
<1>2. CASE Fresh(rates, RateTtl) /\ UNCHANGED rates
           /\ datum' = [datum EXCEPT ![c] = rates.data]
  BY <1>1, <1>2, RateHit DEF ProcessRate
<1>3. CASE rates' = Stored(datum[c]) /\ UNCHANGED datum
  <2>1. datum[c] \in Datum /\ datum[c].at \in Nat /\ datum[c].at <= now
        /\ now - datum[c].at < Latency + TokenTtl /\ now \in Nat
    BY EntryFields DEF IInv, TokenAge, TypeOK, ProcessRate
  <2>2. rates' = [full |-> TRUE, data |-> datum[c], since |-> now]
    BY <1>3 DEF Stored
  <2>3. rates' \in Entry
    BY <2>1, <2>2 DEF Entry
  <2>4. UNCHANGED <<now, tokens, op, net, datum>>
        /\ pc' = [pc EXCEPT ![c] = "done"]
    BY <1>3 DEF ProcessRate, Goto
  <2>5. TypeOK'
    BY <2>3, <2>4, SMT DEF IInv, TypeOK
  <2>6. EntryAge'
    BY <2>1, <2>2, <2>4, SMT DEF IInv, EntryAge
  <2>7. AnswerAge' /\ TokenAge' /\ RateAge'
    BY <2>1, <2>4, SMT DEF IInv, TypeOK, AnswerAge, TokenAge, RateAge
  <2>8. QED
    BY <2>5, <2>6, <2>7 DEF IInv
<1>4. QED
  BY <1>2, <1>3 DEF ProcessRate

\* Clearing the caches leaves entries of no age to speak of.
LEMMA ClearInv == ASSUME IInv, ClearCache PROVE IInv'
<1>1. TypeOK'
  BY SMT DEF IInv, TypeOK, ClearCache, callVars
<1>2. EntryAge'
  BY DEF IInv, EntryAge, ClearCache, Empty
<1>3. AnswerAge' /\ TokenAge' /\ RateAge'
  BY DEF IInv, AnswerAge, TokenAge, RateAge, ClearCache, callVars
<1>4. QED
  BY <1>1, <1>2, <1>3 DEF IInv

\* Time passes while no rate is at hand, and before an answer is too late.
LEMMA TickInv == ASSUME IInv, Tick PROVE IInv'
<1> USE CacheConstants
<1>1. UNCHANGED <<tokens, rates, pc, op, net, datum>> /\ now' = now + 1
      /\ now \in Nat
  BY DEF Tick, callVars, IInv, TypeOK
<1>2. TypeOK'
  BY <1>1, SMT DEF IInv, TypeOK
<1>3. EntryAge'
  BY <1>1, EntryFields, SMT DEF IInv, EntryAge
<1>4. AnswerAge'
  <2> SUFFICES ASSUME NEW c \in Call, pc'[c] = "answered"
               PROVE datum'[c].at <= now' /\ now' - datum'[c].at <= Latency
    BY DEF AnswerAge
  <2>1. now - datum[c].at < Latency /\ datum[c].at <= now
        /\ datum[c].at \in Nat
    BY <1>1, EntryFields DEF Tick, IInv, AnswerAge
  <2>2. QED
    BY <1>1, <2>1, SMT
<1>5. TokenAge' /\ RateAge'
  BY <1>1 DEF Tick, TokenAge, RateAge
<1>6. QED
  BY <1>2, <1>3, <1>4, <1>5 DEF IInv

\* Every step keeps the invariant.
LEMMA Inductive == IInv /\ [Next]_vars => IInv'
<1> SUFFICES ASSUME IInv, [Next]_vars PROVE IInv'
  OBVIOUS
<1>1. CASE UNCHANGED vars
  BY <1>1 DEF vars, callVars, IInv, TypeOK, EntryAge, AnswerAge, TokenAge,
     RateAge
<1>2. ASSUME NEW c \in Call, Step(c) PROVE IInv'
  <2>1. CASE \E n \in Net : GetTokenFeeInfo(c, n)
    BY <2>1, LookUpInv DEF GetTokenFeeInfo, Ops
  <2>2. CASE \E useCache \in BOOLEAN :
               GetExchangeRate(c, useCache) \/ ProcessRate(c, useCache)
    BY <2>2, ExchangeInv, ProcessInv
  <2>3. QED
    BY <1>2, <2>1, <2>2, AnswerInv, ReceiveInv DEF Step
<1>3. QED
  BY <1>1, <1>2, TickInv, ClearInv DEF Next

\* Every reachable state satisfies the inductive invariant.
THEOREM Invariant == Spec => []IInv
  BY InitInv, Inductive, PTL DEF Spec

\* Every variable keeps its type.
THEOREM TypeCorrect == Spec => []TypeOK
  BY Invariant, PTL DEF IInv

\* Token information is younger than a request and a time to live
\* (token-info/service.ts:67-84).
THEOREM TokenInfoAge == Spec => []TokenAge
  BY Invariant, PTL DEF IInv

\* A rate in use is younger than a request and both times to live
\* (fee-info/service.ts:106-121), however the calls interleave.
THEOREM UsedRateAge == Spec => []RateAge
  BY Invariant, PTL DEF IInv

-----------------------------------------------------------------------------
(* FeeTokenCache *)

FeeLabels == {"idle", "asked", "answered", "done", "failed"}

\* Without a query client nobody uses its cache.
Unused == feeCache = Empty /\ \A c \in Call : feePc[c] = "idle"

Times ==
  /\ now \in Nat
  /\ feePc \in [Call -> FeeLabels]
  /\ began \in [Call -> Nat]
  /\ readAt \in [Call -> Nat]

\* The stamp of an entry is no later than the list it holds.
EntryStamped ==
  feeCache.full => /\ feeCache.since \in Nat /\ feeCache.data \in Nat
                   /\ feeCache.since <= feeCache.data /\ feeCache.data <= now

\* A request began before its answer was read, and no answer is later than Latency.
RequestOrdered ==
  \A c \in Call :
    /\ feePc[c] \in {"asked", "answered"} => began[c] <= now
    /\ feePc[c] = "answered" =>
         began[c] <= readAt[c] /\ readAt[c] <= now /\ now - readAt[c] <= Latency

FeeInv ==
  IF client THEN Times /\ EntryStamped /\ RequestOrdered /\ FeeTokensAge ELSE Unused

\* Nobody has asked at the start.
LEMMA FeeInit == CacheInit => FeeInv
  BY SMT DEF CacheInit, Init, FeeInv, Times, EntryStamped, RequestOrdered, FeeTokensAge, Unused,
         FeeLabels, Empty

\* A fresh entry is handed out, or a request is sent; nothing else changes.
LEMMA AskKeeps ==
  ASSUME FeeInv, client, NEW c \in Call, AskFeeTokens(c), UNCHANGED client
  PROVE  FeeInv'
<1> USE FeeTtlConstant, CacheConstants
<1> Times /\ EntryStamped /\ RequestOrdered /\ FeeTokensAge
  BY DEF FeeInv
<1>1. Times'
  BY SMT DEF AskFeeTokens, vars, Times, EntryStamped, FeeGoto, FeeLabels
<1>2. EntryStamped'
  BY SMT DEF AskFeeTokens, vars, EntryStamped
<1>3. RequestOrdered'
  BY SMT DEF AskFeeTokens, vars, Times, RequestOrdered, FeeGoto
<1>4. FeeTokensAge'
  BY SMT DEF AskFeeTokens, vars, Times, EntryStamped, FeeTokensAge, FeeGoto
<1> QED BY <1>1, <1>2, <1>3, <1>4 DEF FeeInv

\* The node reads the list now.
LEMMA ReadKeeps ==
  ASSUME FeeInv, client, NEW c \in Call, ReadFeeTokens(c), UNCHANGED client
  PROVE  FeeInv'
<1> USE FeeTtlConstant, CacheConstants
<1> Times /\ EntryStamped /\ RequestOrdered /\ FeeTokensAge
  BY DEF FeeInv
<1>1. Times'
  BY SMT DEF ReadFeeTokens, vars, Times, FeeGoto, FeeLabels
<1>2. EntryStamped'
  BY SMT DEF ReadFeeTokens, vars, EntryStamped
<1>3. RequestOrdered'
  BY SMT DEF ReadFeeTokens, vars, Times, RequestOrdered, FeeGoto
<1>4. FeeTokensAge'
  BY SMT DEF ReadFeeTokens, vars, Times, FeeTokensAge, FeeGoto
<1> QED BY <1>1, <1>2, <1>3, <1>4 DEF FeeInv

\* Whichever entry an answer overwrites, its own stamp is the time its request began.
LEMMA ReceiveKeeps ==
  ASSUME FeeInv, client, NEW c \in Call, ReceiveFeeTokens(c), UNCHANGED client
  PROVE  FeeInv'
<1> USE FeeTtlConstant, CacheConstants
<1> Times /\ EntryStamped /\ RequestOrdered /\ FeeTokensAge
  BY DEF FeeInv
<1>1. Times'
  BY SMT DEF ReceiveFeeTokens, vars, Times, FeeGoto, FeeLabels
<1>2. EntryStamped'
  BY SMT DEF ReceiveFeeTokens, vars, Times, RequestOrdered, EntryStamped, Stamp
<1>3. RequestOrdered'
  BY SMT DEF ReceiveFeeTokens, vars, Times, RequestOrdered, FeeGoto
<1>4. FeeTokensAge'
  BY SMT DEF ReceiveFeeTokens, vars, Times, RequestOrdered, FeeTokensAge, FeeGoto
<1> QED BY <1>1, <1>2, <1>3, <1>4 DEF FeeInv

\* A failure stores nothing.
LEMMA FailKeeps ==
  ASSUME FeeInv, client, NEW c \in Call, FailFeeTokens(c), UNCHANGED client
  PROVE  FeeInv'
<1> Times /\ EntryStamped /\ RequestOrdered /\ FeeTokensAge
  BY DEF FeeInv
<1>1. Times'
  BY SMT DEF FailFeeTokens, vars, Times, FeeGoto, FeeLabels
<1>2. EntryStamped'
  BY SMT DEF FailFeeTokens, vars, EntryStamped
<1>3. RequestOrdered'
  BY SMT DEF FailFeeTokens, vars, Times, RequestOrdered, FeeGoto
<1>4. FeeTokensAge'
  BY SMT DEF FailFeeTokens, vars, Times, FeeTokensAge, FeeGoto
<1> QED BY <1>1, <1>2, <1>3, <1>4 DEF FeeInv

\* Time passes when no list is in use and no answer is late.
LEMMA TickKeeps ==
  ASSUME FeeInv, client, FeeTick
  PROVE  FeeInv'
<1> USE FeeTtlConstant, CacheConstants
<1> Times /\ EntryStamped /\ RequestOrdered /\ FeeTokensAge
  BY DEF FeeInv
<1>1. Times'
  BY SMT DEF FeeTick, Times, FeeLabels
<1>2. EntryStamped'
  BY SMT DEF FeeTick, Times, EntryStamped
<1>3. RequestOrdered'
  BY SMT DEF FeeTick, Times, RequestOrdered
<1>4. FeeTokensAge'
  BY SMT DEF FeeTick, Times, FeeTokensAge
<1>5. client'
  BY DEF FeeTick
<1> QED BY <1>1, <1>2, <1>3, <1>4, <1>5 DEF FeeInv

\* Every step keeps it; the handlers never touch this cache.
LEMMA FeeStep == FeeInv /\ [CacheNext]_cacheVars => FeeInv'
<1> SUFFICES ASSUME FeeInv, [CacheNext]_cacheVars PROVE FeeInv'
  OBVIOUS
<1>1. CASE Handlers
  BY <1>1 DEF Handlers, FeeInv, Unused, feeVars
<1>2. CASE QueryClient
  <2>1. CASE FeeTick
    BY <1>2, <2>1, TickKeeps DEF QueryClient
  <2>2. ASSUME NEW c \in Call, AskFeeTokens(c) PROVE FeeInv'
    BY <1>2, <2>2, AskKeeps DEF QueryClient, AskFeeTokens
  <2>3. ASSUME NEW c \in Call, ReadFeeTokens(c) PROVE FeeInv'
    BY <1>2, <2>3, ReadKeeps DEF QueryClient, ReadFeeTokens
  <2>4. ASSUME NEW c \in Call, ReceiveFeeTokens(c) PROVE FeeInv'
    BY <1>2, <2>4, ReceiveKeeps DEF QueryClient, ReceiveFeeTokens
  <2>5. ASSUME NEW c \in Call, FailFeeTokens(c) PROVE FeeInv'
    BY <1>2, <2>5, FailKeeps DEF QueryClient, FailFeeTokens
  <2> QED BY <1>2, <2>1, <2>2, <2>3, <2>4, <2>5 DEF QueryClient
<1>3. CASE UNCHANGED cacheVars
  BY <1>3 DEF cacheVars, vars, feeVars, FeeInv, Unused, Times, EntryStamped, RequestOrdered,
     FeeTokensAge
<1> QED BY <1>1, <1>2, <1>3 DEF CacheNext

\* A list of fee tokens that is handed out is younger than one time to live, or comes with the
\* call's own request, however many calls overlap and whichever answer arrives last
\* (query/api-client.ts:550, 561).
THEOREM FeeTokenListAge == CacheSpec => []FeeTokensAge
<1>1. FeeInv => FeeTokensAge
  BY SMT DEF FeeInv, FeeTokensAge, Unused
<1> QED BY <1>1, FeeInit, FeeStep, PTL DEF CacheSpec

-----------------------------------------------------------------------------
(* Monitoring *)

\* A series is as long as what was observed, up to MaxPoints, and its latest.
Charted ==
  /\ series.points \in Seq(Nat) /\ series.value \in Nat /\ total \in Seq(Nat)
  /\ Len(series.points) <= Len(total) /\ Len(series.points) <= MaxPoints
  /\ Len(series.points) \in {Len(total), MaxPoints}
  /\ \A i \in 1..Len(series.points) :
       series.points[i] = total[Len(total) - Len(series.points) + i]

HealthTyped ==
  /\ checks \in Seq([name : Names, gone : BOOLEAN])
  /\ cursor = None \/ cursor \in DOMAIN checks
  /\ running \in BOOLEAN /\ (running => cursor \in DOMAIN checks)
  /\ overall \in Monitor!Statuses

\* The status so far is as bad as any result.
WorstKnown ==
  \A n \in DOMAIN results :
    results[n] \in Monitor!Statuses /\ Monitor!Badness(overall) >= Monitor!Badness(results[n])

\* A check that was there all the time has its result, is being run, or lies ahead.
NoneMissed ==
  \A w \in watched :
    \/ w \in DOMAIN results
    \/ running /\ checks[cursor].name = w
    \/ \E i \in Monitor!Ahead : checks[i].name = w

Reported ==
  service.kind = "health" =>
    /\ HealthTyped /\ WorstKnown /\ NoneMissed
    /\ servicePc \in {"running", "done"}
    /\ servicePc = "done" => watched \subseteq DOMAIN results

Took == [took : Nat, ok : BOOLEAN, began : Nat]

\* What the statistics say of the times they have seen.
Counted ==
  LET valid == {n \in 1..stats.seen : Monitor!Valid(times[n])} IN
  /\ \A n \in valid : stats.min <= times[n].took /\ times[n].took <= stats.max
  /\ stats.valid = 0 => valid = {} /\ stats.min = 0 /\ stats.max = 0
  /\ stats.valid # 0 => \E m, n \in valid : times[m].took = stats.min /\ times[n].took = stats.max
  /\ stats.valid * stats.min <= stats.duration /\ stats.duration <= stats.valid * stats.max

Timed ==
  /\ times \in Seq(Took)
  /\ \A n \in DOMAIN times : times[n].began <= Timeout
  /\ stats \in [seen : Nat, valid : Nat, duration : Nat, min : Nat, max : Nat]
  /\ stats.seen <= Len(times) /\ Counted
  /\ servicePc = "running" => stats.seen = 0
  /\ service.kind = "benchmark" =>
       /\ servicePc \in {"running", "reducing", "done"}
       /\ servicePc \in {"reducing", "done"} =>
            Len(times) = service.iterations \/ Monitor!Elapsed > Timeout
       /\ servicePc = "done" => stats.seen = Len(times)
  /\ servicePc = "reducing" => service.kind = "benchmark"

Node == [node : DOMAIN service.nodes \cap Monitor!Plain, next : Nat \ {0}]

\* The nodes that are being redacted, and the leaves printed, are reached without a secret key.
Redacted ==
  /\ servicePc = "redacting" => service.kind = "logger"
  /\ service.kind = "logger" =>
       /\ walk \in [inside : Seq(Node), visited : 0..MaxNodes, printed : SUBSET Monitor!Plain]
       /\ Len(walk.inside) <= MaxDepth

MonitorInv ==
  /\ service \in Services /\ servicePc \in {"running", "redacting", "reducing", "done"}
  /\ Charted /\ Reported /\ Timed /\ Redacted

-----------------------------------------------------------------------------
(* Least elements, sequences and sets of checks *)

LessThan == {pair \in Nat \X Nat : pair[1] < pair[2]}

\* A nonempty set of natural numbers has a least one, which Min chooses.
LEMMA Least ==
  ASSUME NEW s \in SUBSET Nat, s # {}
  PROVE  Monitor!Min(s) \in s /\ \A y \in s : Monitor!Min(s) <= y
<1>1. IsWellFoundedOn(LessThan, Nat)
  BY NatLessThanWellFounded, Zenon DEF OpToRel, LessThan
<1>2. PICK x \in s : \A y \in s : ~(<<y, x>> \in LessThan)
  BY <1>1, WFMin
<1>3. \A y \in s : x <= y
  <2>1. ASSUME NEW y \in s PROVE x <= y
    <3>1. ~(<<y, x>> \in LessThan)
      BY <1>2
    <3>2. ~(y < x)
      BY <3>1 DEF LessThan
    <3> QED BY <3>2
  <2> QED BY <2>1
<1> QED BY <1>3 DEF Monitor!Min

LEMMA LessOfTwo ==
  ASSUME NEW a \in Nat, NEW b \in Nat
  PROVE  Monitor!Min({a, b}) = IF a <= b THEN a ELSE b
<1>1. Monitor!Min({a, b}) \in {a, b} /\ \A y \in {a, b} : Monitor!Min({a, b}) <= y
  BY Least
<1> QED BY <1>1

\* The checks a run begins with are all of them.
LEMMA AllNamed ==
  /\ Monitor!Cardinality(Names) \in Nat
  /\ Monitor!SetToSeq(Names) \in [1..Monitor!Cardinality(Names) -> Names]
  /\ \A n \in Names : \E i \in 1..Monitor!Cardinality(Names) : Monitor!SetToSeq(Names)[i] = n
<1> DEFINE k == Cardinality(Names)
           f == Monitor!SetToSeq(Names)
<1>1. IsFiniteSet(Names)
  BY MonitoringAssumption DEF Monitor!MonitoringConstants, Monitor!IsFiniteSet, IsFiniteSet
<1>2. k \in Nat /\ ExistsBijection(1..k, Names)
  BY <1>1, FS_CardinalityType
<1>3. Monitor!Cardinality(Names) = k
  BY DEF Monitor!Cardinality, Cardinality
<1>4. f = CHOOSE g \in [1..k -> Names] : Monitor!IsInjective(g)
  BY <1>3 DEF Monitor!SetToSeq
<1>5. \E g \in [1..k -> Names] : Monitor!IsInjective(g)
  BY <1>2, Zenon DEF ExistsBijection, Bijection, Injection, IsInjective, Monitor!IsInjective
<1>6. f \in [1..k -> Names] /\ Monitor!IsInjective(f)
  <2> HIDE DEF f
  <2> QED BY <1>4, <1>5
<1>7. f \in Injection(1..k, Names)
  BY <1>6, Zenon DEF Injection, IsInjective, Monitor!IsInjective
<1>8. Cardinality(1..k) = k
  BY <1>2, FS_Interval
<1>9. f \in Surjection(1..k, Names)
  <2> HIDE DEF f
  <2> QED BY <1>1, <1>7, <1>8, FS_Injection
<1> HIDE DEF f
<1> QED BY <1>2, <1>3, <1>6, <1>9 DEF Surjection, f

-----------------------------------------------------------------------------
(* Series *)

\* The latest elements of a sequence.
LEMMA Latest ==
  ASSUME NEW q \in Seq(Nat), NEW m \in Nat \ {0}, m <= Len(q)
  PROVE  LET p == SubSeq(q, Len(q) - m + 1, Len(q))
         IN  p \in Seq(Nat) /\ Len(p) = m /\ \A i \in 1..m : p[i] = q[Len(q) - m + i]
<1> DEFINE l == Len(q)
           a == l - m + 1
<1>1. l \in Nat
  OBVIOUS
<1>2. \A i \in 1..l : q[i] \in Nat
  BY ElementOfSeq
<1> HIDE DEF l
<1>3. a \in Int /\ a >= 1 /\ a <= l /\ l - a + 1 = m /\ \A i \in 1..m : a + i - 1 = l - m + i
  BY <1>1 DEF l
<1> HIDE DEF a
<1>4. \A i \in a..l : i \in 1..l
  BY <1>1, <1>3
<1>5. /\ SubSeq(q, a, l) \in Seq(Nat)
      /\ Len(SubSeq(q, a, l)) = IF a <= l THEN l - a + 1 ELSE 0
      /\ \A i \in 1..(l - a + 1) : SubSeq(q, a, l)[i] = q[a + i - 1]
  BY <1>1, <1>2, <1>3, <1>4, SubSeqProperties
<1>6. SubSeq(q, a, l) \in Seq(Nat) /\ Len(SubSeq(q, a, l)) = m
      /\ \A i \in 1..m : SubSeq(q, a, l)[i] = q[l - m + i]
  BY <1>3, <1>5
<1> QED BY <1>6 DEF a, l

\* One more observation: the series is the latest MaxPoints of all.
LEMMA ObserveKeeps ==
  ASSUME Charted, NEW kind, NEW value \in Nat, NEW point \in Nat,
         Monitor!Observe(kind, value, point)
  PROVE  Charted'
<1> DEFINE q == Append(series.points, point)
           n == Len(series.points)
           k == Len(total)
           m == IF n + 1 <= MaxPoints THEN n + 1 ELSE MaxPoints
           p == SubSeq(q, Len(q) - m + 1, Len(q))
           all == Append(total, point)
<1>1. n \in Nat /\ MaxPoints \in Nat \ {0} /\ k \in Nat
  BY MonitoringAssumption DEF Charted, Monitor!MonitoringConstants
<1>2. /\ q \in Seq(Nat) /\ Len(q) = n + 1 /\ q[n + 1] = point
      /\ \A i \in 1..n : q[i] = series.points[i]
  BY AppendProperties DEF Charted
<1>3. /\ all \in Seq(Nat) /\ Len(all) = k + 1 /\ all[k + 1] = point
      /\ \A i \in 1..k : all[i] = total[i]
  BY AppendProperties DEF Charted
<1>4. Monitor!Min({n + 1, MaxPoints}) = m
  BY <1>1, LessOfTwo
<1>5. series'.points = p /\ series'.value = value /\ total' = all
  BY <1>2, <1>4 DEF Monitor!Observe, Monitor!AddPoint
<1>6. m \in Nat \ {0} /\ m <= n + 1 /\ m <= MaxPoints
  BY <1>1
<1>7. m <= k + 1 /\ m \in {k + 1, MaxPoints} /\ n <= k
  BY <1>1 DEF Charted
<1>8. \A i \in 1..n : series.points[i] = total[k - n + i]
  BY DEF Charted
<1> HIDE DEF q, all, m, n, k
<1>9. p \in Seq(Nat) /\ Len(p) = m /\ \A i \in 1..m : p[i] = q[n + 1 - m + i]
  <2>1. m <= Len(q)
    BY <1>2, <1>6
  <2>2. p \in Seq(Nat) /\ Len(p) = m /\ \A i \in 1..m : p[i] = q[Len(q) - m + i]
    BY <1>2, <1>6, <2>1, Latest, Zenon
  <2>3. Len(q) = n + 1
    BY <1>2
  <2> HIDE DEF p
  <2> QED BY <1>1, <1>6, <2>2, <2>3
<1> HIDE DEF p
<1>10. ASSUME NEW i \in 1..m PROVE p[i] = all[k + 1 - m + i]
  <2>1. p[i] = q[n + 1 - m + i]
    BY <1>9
  <2>2. CASE i = m
    <3>1. n + 1 - m + i = n + 1 /\ k + 1 - m + i = k + 1
      BY <1>1, <1>6, <2>2
    <3> QED BY <1>2, <1>3, <2>1, <3>1
  <2>3. CASE i # m
    <3> DEFINE j == n + 1 - m + i
    <3>1. j \in 1..n /\ k - n + j \in 1..k /\ k - n + j = k + 1 - m + i
      BY <1>1, <1>6, <1>7, <2>3
    <3> HIDE DEF j
    <3>2. q[j] = total[k - n + j]
      BY <1>2, <1>8, <3>1
    <3>3. q[j] = all[k - n + j]
      BY <1>3, <3>1, <3>2
    <3> QED BY <2>1, <3>1, <3>3 DEF j
  <2> QED BY <2>2, <2>3
<1>11. Len(series'.points) = m /\ Len(total') = k + 1
  BY <1>3, <1>5, <1>9
<1>12. \A i \in 1..Len(series'.points) :
         series'.points[i] = total'[Len(total') - Len(series'.points) + i]
  BY <1>1, <1>5, <1>6, <1>10, <1>11
<1>13. /\ Len(series'.points) <= Len(total') /\ Len(series'.points) <= MaxPoints
       /\ Len(series'.points) \in {Len(total'), MaxPoints}
  BY <1>6, <1>7, <1>11
<1>14. series'.points \in Seq(Nat) /\ series'.value \in Nat /\ total' \in Seq(Nat)
  BY <1>3, <1>5, <1>9
<1> QED BY <1>12, <1>13, <1>14, Zenon DEF Charted

\* Only an observation, or clear, changes the series.
LEMMA ChartedStep == ASSUME MonitorInv, Monitor!Next PROVE Charted'
<1> USE DEF Monitor!observed
<1> Charted /\ service \in Services
  BY DEF MonitorInv
<1>1. ASSUME UNCHANGED <<series, total>> PROVE Charted'
  BY <1>1 DEF Charted
<1>2. ASSUME NEW n \in {0, 1, 2}, Monitor!Counter(n) \/ Monitor!Gauge(n) \/ Monitor!Histogram(n)
      PROVE  Charted'
  <2>1. series.value \in Nat /\ series.value + n \in Nat
    BY <1>2 DEF Charted
  <2>2. CASE Monitor!Counter(n)
    BY <2>1, <2>2, ObserveKeeps DEF Monitor!Counter
  <2>3. CASE Monitor!Gauge(n)
    BY <2>3, ObserveKeeps DEF Monitor!Gauge
  <2>4. CASE Monitor!Histogram(n)
    BY <2>1, <2>4, ObserveKeeps DEF Monitor!Histogram
  <2> QED BY <1>2, <2>2, <2>3, <2>4
<1>3. CASE Monitor!Clear
  <2>1. series' = [kind |-> None, value |-> 0, points |-> <<>>] /\ total' = <<>>
    BY <1>3 DEF Monitor!Clear
  <2> QED BY <2>1, MonitoringAssumption DEF Charted, Monitor!MonitoringConstants
<1>4. CASE Monitor!Iterate
  <2>1. PICK took \in service.durations, ok \in BOOLEAN :
          IF ok THEN Monitor!Observe("histogram", series.value, took)
                ELSE UNCHANGED <<series, total>>
    BY <1>4 DEF Monitor!Iterate
  <2>2. took \in Nat /\ series.value \in Nat
    BY <1>4, MonitoringAssumption
    DEF Monitor!Iterate, Monitor!Uses, Monitor!MonitoringConstants, Charted
  <2>3. CASE ok
    BY <2>1, <2>2, <2>3, ObserveKeeps
  <2>4. CASE ~ok
    BY <1>1, <2>1, <2>4
  <2> QED BY <2>3, <2>4
<1>5. CASE Monitor!WrapOperation
  <2>1. series.value + 1 \in Nat
    BY DEF Charted
  <2>2. CASE service.throws = None
    BY <1>1, <1>5, <2>2 DEF Monitor!WrapOperation
  <2>3. CASE service.throws # None
    <3>1. Monitor!Observe("counter", series.value + 1, series.value + 1)
      BY <1>5, <2>3 DEF Monitor!WrapOperation
    <3> QED BY <2>1, <3>1, ObserveKeeps
  <2> QED BY <2>2, <2>3
<1>6. ASSUME NEW name \in Names, Monitor!AddCheck(name) \/ Monitor!RemoveCheck(name)
      PROVE  UNCHANGED <<series, total>>
  BY <1>6 DEF Monitor!AddCheck, Monitor!RemoveCheck
<1>7. ASSUME NEW status \in Monitor!Statuses, Monitor!CheckEnds(status)
      PROVE  UNCHANGED <<series, total>>
  BY <1>7 DEF Monitor!CheckEnds
<1>8. ASSUME \/ Monitor!RunCheck \/ Monitor!RunAllChecks \/ Monitor!Benchmark
             \/ Monitor!CalculateStats \/ Monitor!Log \/ Monitor!RedactValue
      PROVE  UNCHANGED <<series, total>>
  BY <1>8, Zenon DEF Monitor!RunCheck, Monitor!RunAllChecks, Monitor!Benchmark,
                     Monitor!CalculateStats, Monitor!Log, Monitor!RedactValue
<1> QED BY <1>1, <1>2, <1>3, <1>4, <1>5, <1>6, <1>7, <1>8 DEF Monitor!Next

-----------------------------------------------------------------------------
(* A run of all checks *)

CheckEntry == [name : Names, gone : BOOLEAN]

LEMMA AddCheckKeeps ==
  ASSUME MonitorInv, service.kind = "health", NEW name \in Names, Monitor!AddCheck(name)
  PROVE  HealthTyped' /\ WorstKnown' /\ NoneMissed'
<1>1. HealthTyped /\ WorstKnown /\ NoneMissed
  BY DEF MonitorInv, Reported
<1>2. /\ checks' = Append(checks, [name |-> name, gone |-> FALSE])
      /\ UNCHANGED <<cursor, running, results, overall, watched>>
  BY DEF Monitor!AddCheck
<1>3. checks \in Seq(CheckEntry)
  BY <1>1 DEF HealthTyped, CheckEntry
<1>4. [name |-> name, gone |-> FALSE] \in CheckEntry
  BY DEF CheckEntry
<1>5. /\ checks' \in Seq(CheckEntry) /\ Len(checks') = Len(checks) + 1
      /\ \A i \in 1..Len(checks) : checks'[i] = checks[i]
  BY <1>2, <1>3, <1>4, AppendProperties
<1>6. DOMAIN checks \subseteq DOMAIN checks' /\ \A i \in DOMAIN checks : checks'[i] = checks[i]
  BY <1>3, <1>5
<1>7. HealthTyped'
  BY <1>1, <1>2, <1>5, <1>6 DEF HealthTyped, CheckEntry
<1>8. WorstKnown'
  BY <1>1, <1>2 DEF WorstKnown
<1>9. Monitor!Ahead \subseteq Monitor!Ahead'
  BY <1>2, <1>6 DEF Monitor!Ahead
<1>10. Monitor!Ahead \subseteq DOMAIN checks /\ (running => cursor \in DOMAIN checks)
  BY <1>1 DEF Monitor!Ahead, HealthTyped
<1>11. NoneMissed'
  BY <1>1, <1>2, <1>6, <1>9, <1>10 DEF NoneMissed
<1> QED BY <1>7, <1>8, <1>11

LEMMA RemoveCheckKeeps ==
  ASSUME MonitorInv, service.kind = "health", NEW name \in Names, Monitor!RemoveCheck(name)
  PROVE  HealthTyped' /\ WorstKnown' /\ NoneMissed'
<1>1. HealthTyped /\ WorstKnown /\ NoneMissed
  BY DEF MonitorInv, Reported
<1>2. /\ checks' = [i \in DOMAIN checks |->
                      IF i \in Monitor!Live(name) THEN [checks[i] EXCEPT !.gone = TRUE]
                                                  ELSE checks[i]]
      /\ watched' = watched \ {name}
      /\ UNCHANGED <<cursor, running, results, overall>>
  BY DEF Monitor!RemoveCheck
<1>3. checks \in Seq(CheckEntry)
  BY <1>1 DEF HealthTyped, CheckEntry
<1>4. \A i \in DOMAIN checks : checks[i] \in CheckEntry
  BY <1>3, ElementOfSeq
<1>5. /\ DOMAIN checks' = DOMAIN checks
      /\ \A i \in DOMAIN checks : checks'[i] \in CheckEntry /\ checks'[i].name = checks[i].name
      /\ \A i \in DOMAIN checks : checks[i].name # name => checks'[i] = checks[i]
  BY <1>2, <1>4 DEF CheckEntry, Monitor!Live
<1>6. checks' \in Seq(CheckEntry)
  <2>1. Len(checks) \in Nat /\ DOMAIN checks = 1..Len(checks)
    BY <1>3
  <2>2. checks' = [i \in 1..Len(checks) |-> checks'[i]]
    BY <1>2, <2>1
  <2>3. [i \in 1..Len(checks) |-> checks'[i]] \in [1..Len(checks) -> CheckEntry]
    BY <1>5, <2>1
  <2> QED BY <2>1, <2>2, <2>3, SeqDef
<1>7. HealthTyped'
  BY <1>1, <1>2, <1>5, <1>6 DEF HealthTyped, CheckEntry
<1>8. WorstKnown'
  BY <1>1, <1>2 DEF WorstKnown
<1>9. \A i \in Monitor!Ahead : checks[i].name # name => i \in Monitor!Ahead'
  BY <1>2, <1>5 DEF Monitor!Ahead
<1>10. Monitor!Ahead \subseteq DOMAIN checks /\ (running => cursor \in DOMAIN checks)
  BY <1>1 DEF Monitor!Ahead, HealthTyped
<1>11. NoneMissed'
  BY <1>1, <1>2, <1>5, <1>9, <1>10 DEF NoneMissed
<1> QED BY <1>7, <1>8, <1>11

LEMMA RunCheckKeeps ==
  ASSUME MonitorInv, service.kind = "health", Monitor!RunCheck
  PROVE  HealthTyped' /\ WorstKnown' /\ NoneMissed'
<1>1. HealthTyped /\ WorstKnown /\ NoneMissed
  BY DEF MonitorInv, Reported
<1>2. /\ ~running /\ Monitor!Ahead # {} /\ cursor' = Monitor!Min(Monitor!Ahead) /\ running'
      /\ UNCHANGED <<checks, results, overall, watched>>
  BY DEF Monitor!RunCheck
<1>3. running' = TRUE
  BY DEF Monitor!RunCheck
<1>4. Monitor!Ahead \subseteq DOMAIN checks /\ DOMAIN checks \subseteq Nat /\ None \notin Nat
  BY <1>1, MonitoringAssumption DEF Monitor!Ahead, HealthTyped, Monitor!MonitoringConstants
<1>5. cursor' \in Monitor!Ahead /\ \A i \in Monitor!Ahead : cursor' <= i
  BY <1>2, <1>4, Least
<1>6. HealthTyped'
  BY <1>1, <1>2, <1>3, <1>4, <1>5 DEF HealthTyped
<1>7. WorstKnown'
  BY <1>1, <1>2 DEF WorstKnown
<1>8. ASSUME NEW i \in Monitor!Ahead PROVE i = cursor' \/ i \in Monitor!Ahead'
  <2>1. i = cursor' \/ i > cursor'
    BY <1>4, <1>5
  <2>2. i \in DOMAIN checks' /\ ~checks'[i].gone
    BY <1>2 DEF Monitor!Ahead
  <2> QED BY <2>1, <2>2 DEF Monitor!Ahead
<1>9. NoneMissed'
  BY <1>1, <1>2, <1>3, <1>8 DEF NoneMissed
<1> QED BY <1>6, <1>7, <1>9

LEMMA CheckEndsKeeps ==
  ASSUME MonitorInv, service.kind = "health", NEW status \in Monitor!Statuses,
         Monitor!CheckEnds(status)
  PROVE  HealthTyped' /\ WorstKnown' /\ NoneMissed'
<1> DEFINE name == checks[cursor].name
<1>1. HealthTyped /\ WorstKnown /\ NoneMissed
  BY DEF MonitorInv, Reported
<1>2. /\ running
      /\ results' = [n \in DOMAIN results \cup {name} |-> IF n = name THEN status ELSE results[n]]
      /\ overall' = Monitor!Overall(status) /\ running' = FALSE
      /\ UNCHANGED <<checks, cursor, watched>>
  BY DEF Monitor!CheckEnds
<1>3. /\ Monitor!Overall(status) \in Monitor!Statuses
      /\ Monitor!Badness(Monitor!Overall(status)) >= Monitor!Badness(status)
      /\ Monitor!Badness(Monitor!Overall(status)) >= Monitor!Badness(overall)
  BY <1>1 DEF HealthTyped, Monitor!Overall, Monitor!Badness, Monitor!Statuses
<1>4. HealthTyped'
  BY <1>1, <1>2, <1>3 DEF HealthTyped
<1>5. \A s \in Monitor!Statuses : Monitor!Badness(s) \in Nat
  BY DEF Monitor!Badness, Monitor!Statuses
<1>6. WorstKnown'
  <2> SUFFICES ASSUME NEW n \in DOMAIN results'
               PROVE  /\ results'[n] \in Monitor!Statuses
                      /\ Monitor!Badness(overall') >= Monitor!Badness(results'[n])
    BY DEF WorstKnown, Monitor!Badness, Monitor!Statuses
  <2>1. CASE n = name
    BY <1>2, <1>3, <2>1
  <2>2. CASE n # name
    <3>1. n \in DOMAIN results /\ results'[n] = results[n]
      BY <1>2, <2>2
    <3>2. results[n] \in Monitor!Statuses /\ Monitor!Badness(overall) >= Monitor!Badness(results[n])
      BY <1>1, <3>1 DEF WorstKnown
    <3> QED BY <1>1, <1>2, <1>3, <1>5, <3>1, <3>2 DEF HealthTyped
  <2> QED BY <2>1, <2>2
<1>7. Monitor!Ahead' = Monitor!Ahead
  BY <1>2 DEF Monitor!Ahead
<1>8. NoneMissed'
  BY <1>1, <1>2, <1>7 DEF NoneMissed
<1> QED BY <1>4, <1>6, <1>8

\* A step of a run of all checks, or of another service, keeps what is known of the report.
LEMMA ReportedStep == ASSUME MonitorInv, Monitor!Next PROVE Reported'
<1>1. UNCHANGED service
  BY DEF Monitor!Next, Monitor!AddCheck, Monitor!RemoveCheck, Monitor!RunCheck, Monitor!RunAllChecks,
         Monitor!CheckEnds, Monitor!Counter, Monitor!Gauge, Monitor!Histogram, Monitor!Clear,
         Monitor!Iterate, Monitor!Benchmark, Monitor!CalculateStats, Monitor!Log,
         Monitor!RedactValue, Monitor!WrapOperation
<1> SUFFICES ASSUME service.kind = "health" PROVE Reported'
  BY <1>1 DEF Reported
<1>2. ASSUME HealthTyped' /\ WorstKnown' /\ NoneMissed', servicePc' = "running"
      PROVE  Reported'
  BY <1>2 DEF Reported
<1>3. ASSUME NEW name \in Names, Monitor!AddCheck(name) PROVE Reported'
  BY <1>2, <1>3, AddCheckKeeps DEF Monitor!AddCheck, Monitor!Uses
<1>4. ASSUME NEW name \in Names, Monitor!RemoveCheck(name) PROVE Reported'
  BY <1>2, <1>4, RemoveCheckKeeps DEF Monitor!RemoveCheck, Monitor!Uses
<1>5. CASE Monitor!RunCheck
  BY <1>2, <1>5, RunCheckKeeps DEF Monitor!RunCheck, Monitor!Uses
<1>6. ASSUME NEW status \in Monitor!Statuses, Monitor!CheckEnds(status) PROVE Reported'
  BY <1>2, <1>6, CheckEndsKeeps DEF Monitor!CheckEnds, Monitor!Uses
<1>7. CASE Monitor!RunAllChecks
  <2>1. ~running /\ Monitor!Ahead = {} /\ servicePc' = "done"
        /\ UNCHANGED <<checks, cursor, running, results, overall, watched>>
    BY <1>7 DEF Monitor!RunAllChecks, Monitor!health
  <2>2. HealthTyped /\ WorstKnown /\ NoneMissed
    BY DEF MonitorInv, Reported
  <2>3. HealthTyped' /\ WorstKnown' /\ NoneMissed'
    BY <2>1, <2>2 DEF HealthTyped, WorstKnown, NoneMissed, Monitor!Ahead
  <2>4. watched \subseteq DOMAIN results
    BY <2>1, <2>2 DEF NoneMissed
  <2> QED BY <2>1, <2>3, <2>4 DEF Reported
<1>8. servicePc # "redacting" /\ servicePc # "reducing"
  BY DEF MonitorInv, Timed, Redacted
<1> QED BY <1>3, <1>4, <1>5, <1>6, <1>7, <1>8
        DEF Monitor!Next, Monitor!Uses, Monitor!Counter, Monitor!Gauge, Monitor!Histogram,
            Monitor!Clear, Monitor!Iterate, Monitor!Benchmark, Monitor!CalculateStats,
            Monitor!Log, Monitor!RedactValue, Monitor!WrapOperation

-----------------------------------------------------------------------------
(* Benchmarks *)

\* The bounds of an average, with one more time.
LEMMA Average ==
  ASSUME NEW v \in Nat, NEW d \in Nat, NEW t \in Nat,
         NEW a \in Nat, NEW b \in Nat, NEW low \in Nat, NEW high \in Nat,
         v * a <= d, d <= v * b, v = 0 \/ low <= a, low <= t, b <= high, t <= high
  PROVE  (v + 1) * low <= d + t /\ d + t <= (v + 1) * high
<1>1. v * low <= v * a
  <2>1. CASE v = 0
    BY <2>1
  <2>2. CASE low <= a
    <3>1. PICK e \in Nat : a = low + e
      <4>1. a - low \in Nat /\ a = low + (a - low)
        BY <2>2
      <4> QED BY <4>1
    <3>2. v * a = v * low + v * e /\ v * e \in Nat
      BY <3>1
    <3> QED BY <3>2
  <2> QED BY <2>1, <2>2
<1>2. v * b <= v * high
  <2>1. PICK e \in Nat : high = b + e
    <3>1. high - b \in Nat /\ high = b + (high - b)
      OBVIOUS
    <3> QED BY <3>1
  <2>2. v * high = v * b + v * e /\ v * e \in Nat
    BY <2>1
  <2> QED BY <2>2
<1>3. (v + 1) * low = v * low + low /\ (v + 1) * high = v * high + high
  OBVIOUS
<1>4. v * a \in Nat /\ v * b \in Nat /\ v * low \in Nat /\ v * high \in Nat
  OBVIOUS
<1> QED BY <1>1, <1>2, <1>3, <1>4

Stats == [seen : Nat, valid : Nat, duration : Nat, min : Nat, max : Nat]

LEMMA IterateKeeps == ASSUME MonitorInv, Monitor!Iterate PROVE Timed'
<1>1. /\ Timed /\ service \in Services
  BY DEF MonitorInv
<1>2. PICK took \in service.durations, ok \in BOOLEAN :
        times' = Append(times, [took |-> took, ok |-> ok, began |-> Monitor!Elapsed])
  BY DEF Monitor!Iterate
<1>3. /\ service.kind = "benchmark" /\ servicePc = "running" /\ Monitor!Elapsed <= Timeout
      /\ UNCHANGED <<service, servicePc, stats>>
  BY DEF Monitor!Iterate, Monitor!Uses
<1> DEFINE t == [took |-> took, ok |-> ok, began |-> Monitor!Elapsed]
<1>4. Monitor!Elapsed \in Nat
  <2>1. CASE times = <<>>
    BY <2>1 DEF Monitor!Elapsed
  <2>2. CASE times # <<>>
    <3>1. times \in Seq(Took) /\ Len(times) \in 1..Len(times)
      BY <1>1, <2>2 DEF Timed
    <3>2. times[Len(times)] \in Took
      BY <3>1, ElementOfSeq
    <3> QED BY <2>2, <3>2 DEF Monitor!Elapsed, Monitor!Last, Took
  <2> QED BY <2>1, <2>2
<1>5. t \in Took
  <2>1. took \in Nat
    BY <1>1, <1>2, <1>3, MonitoringAssumption DEF Monitor!MonitoringConstants
  <2> QED BY <1>2, <1>4, <2>1 DEF Took
<1>6. /\ times' \in Seq(Took) /\ Len(times') = Len(times) + 1 /\ times'[Len(times) + 1] = t
      /\ \A n \in 1..Len(times) : times'[n] = times[n]
  BY <1>1, <1>2, <1>5, AppendProperties DEF Timed
<1>7. \A n \in DOMAIN times' : times'[n].began <= Timeout
  <2> SUFFICES ASSUME NEW n \in DOMAIN times' PROVE times'[n].began <= Timeout
    OBVIOUS
  <2>1. times \in Seq(Took) /\ n \in 1..Len(times) + 1
    BY <1>1, <1>6 DEF Timed
  <2>2. CASE n \in 1..Len(times)
    BY <1>1, <1>6, <2>1, <2>2 DEF Timed
  <2>3. CASE n = Len(times) + 1
    BY <1>3, <1>6, <2>3
  <2> QED BY <2>1, <2>2, <2>3
<1>8. stats \in Stats /\ stats.seen = 0 /\ stats.seen <= Len(times') /\ Counted
  BY <1>1, <1>3, <1>6 DEF Timed, Stats
<1>9. 1..stats.seen = {}
  BY <1>8
<1>10. Counted'
  BY <1>3, <1>8, <1>9 DEF Counted, Stats
<1> QED BY <1>3, <1>6, <1>7, <1>8, <1>10 DEF Timed, Stats

\* One more time that counts.
LEMMA CountKeeps ==
  ASSUME Timed, servicePc = "reducing", stats.seen < Len(times),
         stats' = Monitor!Count(times[stats.seen + 1]), UNCHANGED times
  PROVE  stats' \in Stats /\ stats'.seen = stats.seen + 1 /\ Counted'
<1> DEFINE s == stats.seen
           t == times[s + 1]
           valid == {n \in 1..s : Monitor!Valid(times[n])}
<1>1. s \in Nat /\ s + 1 \in 1..Len(times) /\ times \in Seq(Took) /\ stats \in Stats
  BY DEF Timed, Stats
<1>2. t \in Took
  BY <1>1, ElementOfSeq
<1>3. /\ \A n \in valid : stats.min <= times[n].took /\ times[n].took <= stats.max
      /\ stats.valid = 0 => valid = {} /\ stats.min = 0 /\ stats.max = 0
      /\ stats.valid # 0 => \E m, n \in valid : times[m].took = stats.min
                                                 /\ times[n].took = stats.max
      /\ stats.valid * stats.min <= stats.duration /\ stats.duration <= stats.valid * stats.max
  BY DEF Timed, Counted
<1>4. \A n \in 1..s + 1 : n \in 1..s \/ n = s + 1
  BY <1>1
<1>5. \A n \in 1..s : n \in 1..s + 1
  BY <1>1
<1>6. CASE ~Monitor!Valid(t)
  <2>1. stats' = [stats EXCEPT !.seen = s + 1]
    BY <1>6 DEF Monitor!Count
  <2>2. /\ stats' \in Stats /\ stats'.seen = s + 1 /\ stats'.valid = stats.valid
        /\ stats'.min = stats.min /\ stats'.max = stats.max /\ stats'.duration = stats.duration
    BY <1>1, <2>1 DEF Stats
  <2>3. {n \in 1..stats'.seen : Monitor!Valid(times'[n])} = valid
    BY <1>1, <1>4, <1>5, <1>6, <2>2 DEF Monitor!Valid
  <2> HIDE DEF valid
  <2> QED BY <1>3, <2>2, <2>3 DEF Counted, Monitor!Valid
<1>7. CASE Monitor!Valid(t)
  <2> DEFINE low == IF stats.valid = 0 \/ t.took < stats.min THEN t.took ELSE stats.min
             high == IF t.took > stats.max THEN t.took ELSE stats.max
             after == {n \in 1..stats'.seen : Monitor!Valid(times'[n])}
  <2>1. stats' = [seen |-> s + 1, valid |-> stats.valid + 1, duration |-> stats.duration + t.took,
                  min |-> low, max |-> high]
    BY <1>7 DEF Monitor!Count
  <2>2. t.took \in Nat /\ t.took > 0
    BY <1>2, <1>7 DEF Took, Monitor!Valid
  <2>3. low \in Nat /\ high \in Nat /\ low <= t.took /\ t.took <= high /\ stats.max <= high
        /\ (stats.valid = 0 \/ low <= stats.min)
    BY <1>1, <2>2 DEF Stats
  <2>4. /\ low = t.took \/ (stats.valid # 0 /\ low = stats.min)
        /\ high = t.took \/ (stats.valid # 0 /\ high = stats.max)
    BY <1>1, <1>3, <2>2 DEF Stats
  <2>5. stats.valid \in Nat /\ stats.duration \in Nat /\ stats.min \in Nat /\ stats.max \in Nat
    BY <1>1 DEF Stats
  <2> HIDE DEF low, high, t
  <2>6. /\ (stats.valid + 1) * low <= stats.duration + t.took
        /\ stats.duration + t.took <= (stats.valid + 1) * high
    BY <1>3, <2>2, <2>3, <2>5, Average
  <2>7. /\ stats' \in Stats /\ stats'.seen = s + 1 /\ stats'.valid = stats.valid + 1
        /\ stats'.duration = stats.duration + t.took /\ stats'.min = low /\ stats'.max = high
        /\ stats'.valid # 0
    <3>1. s + 1 \in Nat /\ stats.valid + 1 \in Nat /\ stats.valid + 1 # 0
          /\ stats.duration + t.took \in Nat
      <4>1. s \in Nat
        BY <1>1
      <4> QED BY <2>2, <2>5, <4>1
    <3> QED BY <2>1, <2>3, <3>1 DEF Stats
  <2>8. after = valid \cup {s + 1}
    BY <1>1, <1>4, <1>5, <1>7, <2>7 DEF Monitor!Valid, t
  <2>9. \A n \in valid : n \in 1..s /\ times[n].took \in Nat
    <3> SUFFICES ASSUME NEW n \in valid PROVE n \in 1..s /\ times[n].took \in Nat
      OBVIOUS
    <3>1. n \in 1..Len(times)
      BY <1>1
    <3>2. times[n] \in Took
      BY <1>1, <3>1, ElementOfSeq
    <3> QED BY <3>2 DEF Took
  <2> HIDE DEF after, valid, s
  <2>10. \A n \in after : low <= times'[n].took /\ times'[n].took <= high
    <3> SUFFICES ASSUME NEW n \in after PROVE low <= times[n].took /\ times[n].took <= high
      OBVIOUS
    <3>1. CASE n = s + 1
      BY <2>3, <3>1 DEF t
    <3>2. CASE n \in valid
      <4>1. stats.valid # 0 /\ stats.min <= times[n].took /\ times[n].took <= stats.max
            /\ times[n].took \in Nat
        BY <1>3, <2>9, <3>2
      <4> QED BY <2>3, <2>5, <4>1
    <3> QED BY <2>8, <3>1, <3>2
  <2>11. \E m, n \in after : times'[m].took = low /\ times'[n].took = high
    <3>1. \E m \in after : times[m].took = low
      BY <1>3, <2>4, <2>8 DEF t
    <3>2. \E n \in after : times[n].took = high
      BY <1>3, <2>4, <2>8 DEF t
    <3> QED BY <3>1, <3>2
  <2>12. Counted'
    BY <2>6, <2>7, <2>10, <2>11 DEF Counted, after, Monitor!Valid
  <2> QED BY <2>7, <2>12 DEF s
<1> QED BY <1>6, <1>7

LEMMA StatsKeep == ASSUME MonitorInv, Monitor!CalculateStats PROVE Timed'
<1>1. Timed /\ servicePc = "reducing" /\ service.kind = "benchmark"
      /\ UNCHANGED <<service, times>>
  BY DEF MonitorInv, Timed, Monitor!CalculateStats
<1>2. Monitor!Elapsed' = Monitor!Elapsed
  BY <1>1 DEF Monitor!Elapsed, Monitor!Last
<1>3. CASE stats.seen < Len(times) /\ stats' = Monitor!Count(times[stats.seen + 1])
           /\ UNCHANGED servicePc
  <2>1. stats' \in Stats /\ stats'.seen = stats.seen + 1 /\ Counted'
    BY <1>1, <1>3, CountKeeps
  <2>2. stats'.seen <= Len(times')
    BY <1>1, <1>3, <2>1 DEF Timed
  <2> QED BY <1>1, <1>2, <1>3, <2>1, <2>2 DEF Timed, Stats
<1>4. CASE stats.seen = Len(times) /\ servicePc' = "done" /\ UNCHANGED stats
  <2>1. Counted'
    BY <1>1, <1>4 DEF Timed, Counted, Monitor!Valid
  <2> QED BY <1>1, <1>2, <1>4, <2>1 DEF Timed
<1> QED BY <1>3, <1>4 DEF Monitor!CalculateStats

\* No other service touches the times.
LEMMA TimedKept ==
  ASSUME Timed, service.kind # "benchmark", UNCHANGED <<service, times, stats>>,
         servicePc' # "reducing", servicePc' = "running" => servicePc = "running"
  PROVE  Timed'
<1>1. Counted'
  BY DEF Timed, Counted, Monitor!Valid
<1> QED BY <1>1 DEF Timed

LEMMA TimedStep == ASSUME MonitorInv, Monitor!Next PROVE Timed'
<1> USE DEF Monitor!measured
<1>1. Timed /\ (servicePc = "redacting" => service.kind = "logger")
  BY DEF MonitorInv, Redacted
<1>2. CASE Monitor!Benchmark
  <2>1. /\ service.kind = "benchmark" /\ servicePc = "running" /\ servicePc' = "reducing"
        /\ Len(times) = service.iterations \/ Monitor!Elapsed > Timeout
        /\ UNCHANGED <<service, times, stats>>
    BY <1>2 DEF Monitor!Benchmark, Monitor!Uses
  <2>2. Monitor!Elapsed' = Monitor!Elapsed
    BY <2>1 DEF Monitor!Elapsed, Monitor!Last
  <2>3. Counted'
    BY <1>1, <2>1 DEF Timed, Counted, Monitor!Valid
  <2> QED BY <1>1, <2>1, <2>2, <2>3 DEF Timed
<1>3. ASSUME NEW name \in Names, Monitor!AddCheck(name) \/ Monitor!RemoveCheck(name)
      PROVE  Timed'
  BY <1>1, <1>3, TimedKept DEF Monitor!AddCheck, Monitor!RemoveCheck, Monitor!Uses
<1>4. ASSUME NEW status \in Monitor!Statuses, Monitor!CheckEnds(status)
      PROVE  Timed'
  BY <1>1, <1>4, TimedKept DEF Monitor!CheckEnds, Monitor!Uses
<1>5. ASSUME NEW n \in {0, 1, 2}, Monitor!Counter(n) \/ Monitor!Gauge(n) \/ Monitor!Histogram(n)
      PROVE  Timed'
  BY <1>1, <1>5, TimedKept DEF Monitor!Counter, Monitor!Gauge, Monitor!Histogram, Monitor!Uses
<1>6. CASE Monitor!RunCheck \/ Monitor!RunAllChecks \/ Monitor!Clear
  BY <1>1, <1>6, TimedKept DEF Monitor!RunCheck, Monitor!RunAllChecks, Monitor!Clear, Monitor!Uses
<1>7. CASE Monitor!Log \/ Monitor!WrapOperation
  BY <1>1, <1>7, TimedKept DEF Monitor!Log, Monitor!WrapOperation, Monitor!Uses
<1>8. CASE Monitor!RedactValue
  BY <1>1, <1>8, TimedKept
  DEF Monitor!RedactValue, Monitor!RedactEntry, Monitor!LeaveNode
<1> QED BY <1>2, <1>3, <1>4, <1>5, <1>6, <1>7, <1>8, IterateKeeps, StatsKeep DEF Monitor!Next

-----------------------------------------------------------------------------
(* The logger *)

Walk == [inside : Seq(Node), visited : 0..MaxNodes, printed : SUBSET Monitor!Plain]

\* The root is reached without a secret key, and so is what a node reached so has under others.
LEMMA Reached ==
  ASSUME service \in Services, service.kind = "logger"
  PROVE  /\ service.root \in Monitor!Plain
         /\ \A node \in DOMAIN service.nodes \cap Monitor!Plain :
              \A i \in DOMAIN service.nodes[node] :
                service.nodes[node][i].secret \/ service.nodes[node][i].value \in Monitor!Plain
<1> DEFINE Values == DOMAIN service.nodes \cup service.leaves
           Kept(S) == /\ service.root \in S
                      /\ \A node \in S \cap DOMAIN service.nodes :
                           \A i \in DOMAIN service.nodes[node] :
                             service.nodes[node][i].secret \/ service.nodes[node][i].value \in S
<1>1. \A v : v \in Monitor!Plain <=> v \in Values /\ \A S \in SUBSET Values : Kept(S) => v \in S
  BY Zenon DEF Monitor!Plain
<1>2. service.root \in Values
  BY MonitoringAssumption DEF Monitor!MonitoringConstants
<1>3. ASSUME NEW node \in DOMAIN service.nodes, NEW i \in DOMAIN service.nodes[node]
      PROVE  service.nodes[node][i].value \in Values
  <2>1. service.nodes[node] \in Seq([value : Values, secret : BOOLEAN])
    BY MonitoringAssumption DEF Monitor!MonitoringConstants
  <2>2. i \in 1..Len(service.nodes[node])
    BY <1>3, <2>1
  <2>3. service.nodes[node][i] \in [value : Values, secret : BOOLEAN]
    BY <2>1, <2>2, ElementOfSeq, Zenon
  <2> QED BY <2>3
<1> HIDE DEF Values
<1>4. service.root \in Monitor!Plain
  BY <1>1, <1>2, Zenon
<1>5. ASSUME NEW node \in DOMAIN service.nodes \cap Monitor!Plain,
             NEW i \in DOMAIN service.nodes[node], ~service.nodes[node][i].secret
      PROVE  service.nodes[node][i].value \in Monitor!Plain
  <2>1. ASSUME NEW S \in SUBSET Values, Kept(S) PROVE service.nodes[node][i].value \in S
    <3>1. node \in S
      BY <1>1, <2>1, Zenon
    <3> QED BY <1>5, <2>1, <3>1, Zenon
  <2>2. service.nodes[node][i].value \in Values
    BY <1>3, <1>5, Zenon
  <2> QED BY <1>1, <2>1, <2>2, Zenon
<1> QED BY <1>4, <1>5, Zenon

\* What is redacted has been reached without a secret key, so the walk stays among such nodes.
LEMMA RedactKeeps ==
  ASSUME service \in Services, walk \in Walk, NEW value \in Monitor!Plain,
         NEW inside \in Seq(Node), Len(inside) <= MaxDepth
  PROVE  /\ Monitor!Redact(value, inside) \in Walk
         /\ Len(Monitor!Redact(value, inside).inside) <= MaxDepth
<1>1. MaxDepth \in Nat /\ MaxNodes \in Nat
  BY MonitoringAssumption DEF Monitor!MonitoringConstants
<1>2. CASE value \notin DOMAIN service.nodes
  <2>1. Monitor!Redact(value, inside) =
          [walk EXCEPT !.inside = inside, !.printed = @ \cup {value}]
    BY <1>2 DEF Monitor!Redact
  <2> QED BY <2>1 DEF Walk
<1>3. CASE /\ value \in DOMAIN service.nodes
           /\ Len(inside) >= MaxDepth \/ walk.visited >= MaxNodes \/ Monitor!Entered(value)
  <2>1. Monitor!Redact(value, inside) = [walk EXCEPT !.inside = inside]
    BY <1>3 DEF Monitor!Redact
  <2> QED BY <2>1 DEF Walk
<1>4. CASE /\ value \in DOMAIN service.nodes
           /\ ~(Len(inside) >= MaxDepth \/ walk.visited >= MaxNodes \/ Monitor!Entered(value))
  <2> DEFINE deeper == Append(inside, [node |-> value, next |-> 1])
  <2>1. Monitor!Redact(value, inside) = [walk EXCEPT !.inside = deeper, !.visited = @ + 1]
    BY <1>4 DEF Monitor!Redact
  <2>2. [node |-> value, next |-> 1] \in Node
    BY <1>4 DEF Node
  <2>3. deeper \in Seq(Node) /\ Len(deeper) = Len(inside) + 1
    BY <2>2, AppendProperties
  <2>4. walk.visited + 1 \in 0..MaxNodes /\ Len(inside) + 1 <= MaxDepth
    BY <1>1, <1>4 DEF Walk
  <2> HIDE DEF deeper
  <2> QED BY <2>1, <2>3, <2>4 DEF Walk
<1> QED BY <1>2, <1>3, <1>4

LEMMA RedactEntryKeeps ==
  ASSUME service \in Services, service.kind = "logger", walk \in Walk,
         Len(walk.inside) <= MaxDepth, Monitor!RedactEntry
  PROVE  walk' \in Walk /\ Len(walk'.inside) <= MaxDepth
<1> DEFINE inside == walk.inside
           l == Len(inside)
<1>1. inside \in Seq(Node) /\ l \in 1..l
  BY DEF Walk, Monitor!RedactEntry
<1>2. inside[l] \in Node /\ \A n \in 1..l : inside[n] \in Node
  BY <1>1, ElementOfSeq
<1>3. Monitor!Advanced \in Seq(Node) /\ Len(Monitor!Advanced) = l
  <2>1. Monitor!Advanced = [inside EXCEPT ![l].next = @ + 1]
    BY DEF Monitor!Advanced
  <2>2. [inside[l] EXCEPT !.next = @ + 1] \in Node
    BY <1>2 DEF Node
  <2>3. [inside EXCEPT ![l] = [inside[l] EXCEPT !.next = @ + 1]] \in Seq(Node)
        /\ Len([inside EXCEPT ![l] = [inside[l] EXCEPT !.next = @ + 1]]) = l
    BY <1>1, <2>2, ExceptSeq
  <2> QED BY <2>1, <2>3
<1>4. /\ inside[l].node \in DOMAIN service.nodes \cap Monitor!Plain
      /\ inside[l].next \in Nat \ {0}
  BY <1>2 DEF Node
<1>5. /\ Monitor!Children = service.nodes[inside[l].node] /\ Monitor!Entry = inside[l].next
      /\ Monitor!Entry <= Len(Monitor!Children)
  BY DEF Monitor!Children, Monitor!Entry, Monitor!Last, Monitor!RedactEntry
<1>6. Monitor!Children \in Seq([value : DOMAIN service.nodes \cup service.leaves,
                                secret : BOOLEAN])
  BY <1>4, <1>5, MonitoringAssumption DEF Monitor!MonitoringConstants
<1>7. Monitor!Entry \in DOMAIN Monitor!Children
  BY <1>4, <1>5, <1>6
<1>8. CASE Monitor!Children[Monitor!Entry].secret
  <2>1. walk' = [walk EXCEPT !.inside = Monitor!Advanced]
    BY <1>8 DEF Monitor!RedactEntry
  <2> QED BY <1>3, <2>1 DEF Walk
<1>9. CASE ~Monitor!Children[Monitor!Entry].secret
  <2>1. walk' = Monitor!Redact(Monitor!Children[Monitor!Entry].value, Monitor!Advanced)
    BY <1>9 DEF Monitor!RedactEntry
  <2>2. Monitor!Children[Monitor!Entry].value \in Monitor!Plain
    BY <1>4, <1>5, <1>7, <1>9, Reached, Zenon
  <2>3. Len(Monitor!Advanced) <= MaxDepth
    BY <1>3
  <2> QED BY <1>3, <2>1, <2>2, <2>3, RedactKeeps
<1> QED BY <1>8, <1>9

LEMMA LeaveNodeKeeps ==
  ASSUME walk \in Walk, Len(walk.inside) <= MaxDepth, Monitor!LeaveNode
  PROVE  walk' \in Walk /\ Len(walk'.inside) <= MaxDepth
<1> DEFINE inside == walk.inside
           l == Len(inside)
           front == SubSeq(inside, 1, l - 1)
<1>1. inside \in Seq(Node) /\ l \in Nat \ {0} /\ l <= MaxDepth /\ MaxDepth \in Nat
  BY MonitoringAssumption DEF Walk, Monitor!LeaveNode, Monitor!MonitoringConstants
<1>2. walk' = [walk EXCEPT !.inside = front]
  BY DEF Monitor!LeaveNode, Monitor!Front
<1>3. \A n \in 1..l - 1 : inside[n] \in Node
  BY <1>1, ElementOfSeq
<1> HIDE DEF l
<1>4. front \in Seq(Node) /\ Len(front) = IF 1 <= l - 1 THEN l - 1 - 1 + 1 ELSE 0
  BY <1>1, <1>3, SubSeqProperties
<1>5. Len(front) <= MaxDepth
  BY <1>1, <1>4
<1> HIDE DEF front
<1> QED BY <1>2, <1>4, <1>5 DEF Walk

LEMMA RedactedStep == ASSUME MonitorInv, Monitor!Next PROVE Redacted'
<1>1. Redacted /\ service \in Services /\ (servicePc = "reducing" => service.kind = "benchmark")
  BY DEF MonitorInv, Timed
<1>2. ASSUME service.kind = "logger" PROVE walk \in Walk /\ Len(walk.inside) <= MaxDepth
  BY <1>1, <1>2 DEF Redacted, Walk
<1>3. ASSUME UNCHANGED <<service, walk>>, servicePc' # "redacting" PROVE Redacted'
  <2>1. Monitor!Plain' = Monitor!Plain
    BY <1>3 DEF Monitor!Plain
  <2> QED BY <1>1, <1>3, <2>1 DEF Redacted, Node
<1>4. ASSUME service.kind = "logger", UNCHANGED service,
             walk' \in Walk /\ Len(walk'.inside) <= MaxDepth
      PROVE  Redacted'
  <2>1. Monitor!Plain' = Monitor!Plain
    BY <1>4 DEF Monitor!Plain
  <2>2. Node' = Node
    BY <1>4, <2>1 DEF Node
  <2> QED BY <1>4, <2>1, <2>2 DEF Redacted, Walk
<1>5. CASE Monitor!Log
  <2>1. CASE UNCHANGED walk /\ servicePc' = "done"
    BY <1>3, <1>5, <2>1 DEF Monitor!Log
  <2>2. CASE walk' = Monitor!Redact(service.root, <<>>)
    <3>1. service.kind = "logger" /\ UNCHANGED service
      BY <1>5 DEF Monitor!Log, Monitor!Uses
    <3>2. <<>> \in Seq(Node) /\ Len(<<>>) <= MaxDepth
      BY MonitoringAssumption DEF Monitor!MonitoringConstants
    <3>3. walk' \in Walk /\ Len(walk'.inside) <= MaxDepth
      BY <1>1, <1>2, <2>2, <3>1, <3>2, Reached, RedactKeeps
    <3> QED BY <1>4, <3>1, <3>3
  <2> QED BY <1>5, <2>1, <2>2 DEF Monitor!Log
<1>6. CASE Monitor!RedactValue
  <2>1. service.kind = "logger" /\ UNCHANGED service
    BY <1>1, <1>6 DEF Monitor!RedactValue, Redacted
  <2>2. CASE Monitor!RedactEntry
    BY <1>1, <1>2, <1>4, <2>1, <2>2, RedactEntryKeeps
  <2>3. CASE Monitor!LeaveNode
    BY <1>2, <1>4, <2>1, <2>3, LeaveNodeKeeps
  <2>4. CASE UNCHANGED walk /\ servicePc' = "done"
    BY <1>3, <2>1, <2>4
  <2> QED BY <1>6, <2>2, <2>3, <2>4 DEF Monitor!RedactValue
<1>7. ASSUME NEW name \in Names, Monitor!AddCheck(name) \/ Monitor!RemoveCheck(name)
      PROVE  Redacted'
  BY <1>3, <1>7 DEF Monitor!AddCheck, Monitor!RemoveCheck, Monitor!Uses
<1>8. ASSUME NEW status \in Monitor!Statuses, Monitor!CheckEnds(status)
      PROVE  Redacted'
  BY <1>3, <1>8 DEF Monitor!CheckEnds, Monitor!Uses
<1>9. ASSUME NEW n \in {0, 1, 2}, Monitor!Counter(n) \/ Monitor!Gauge(n) \/ Monitor!Histogram(n)
      PROVE  Redacted'
  BY <1>3, <1>9 DEF Monitor!Counter, Monitor!Gauge, Monitor!Histogram, Monitor!Uses
<1>10. CASE Monitor!RunCheck \/ Monitor!RunAllChecks \/ Monitor!Clear
  BY <1>3, <1>10 DEF Monitor!RunCheck, Monitor!RunAllChecks, Monitor!Clear, Monitor!Uses
<1>11. CASE Monitor!Iterate \/ Monitor!Benchmark \/ Monitor!CalculateStats \/ Monitor!WrapOperation
  BY <1>3, <1>11
  DEF Monitor!Iterate, Monitor!Benchmark, Monitor!CalculateStats, Monitor!WrapOperation,
      Monitor!Uses
<1> QED BY <1>5, <1>6, <1>7, <1>8, <1>9, <1>10, <1>11 DEF Monitor!Next

-----------------------------------------------------------------------------
(* The services together *)

LEMMA MonitorInit == Monitor!Init => MonitorInv
<1> SUFFICES ASSUME Monitor!Init PROVE MonitorInv
  OBVIOUS
<1> USE DEF Monitor!Init
<1>1. service \in Services /\ servicePc = "running"
  OBVIOUS
<1>2. Charted
  BY MonitoringAssumption DEF Charted, Monitor!MonitoringConstants
<1>3. Reported
  <2> DEFINE k == Monitor!Cardinality(Names)
             f == Monitor!SetToSeq(Names)
  <2>1. k \in Nat /\ f \in [1..k -> Names] /\ \A n \in Names : \E i \in 1..k : f[i] = n
    BY AllNamed
  <2>2. checks = [i \in 1..k |-> [name |-> f[i], gone |-> FALSE]]
    OBVIOUS
  <2>3. /\ cursor = None /\ running = FALSE /\ overall = "healthy" /\ watched = Names
        /\ DOMAIN results = {}
    OBVIOUS
  <2> HIDE DEF k, f, Monitor!Init
  <2>4. checks \in Seq([name : Names, gone : BOOLEAN])
    <3>1. checks \in [1..k -> [name : Names, gone : BOOLEAN]]
      BY <2>1, <2>2
    <3> QED BY <2>1, <3>1, SeqDef
  <2>5. HealthTyped
    BY <2>3, <2>4 DEF HealthTyped, Monitor!Statuses
  <2>6. WorstKnown
    BY <2>3 DEF WorstKnown
  <2>7. NoneMissed
    <3> SUFFICES ASSUME NEW w \in Names PROVE \E i \in Monitor!Ahead : checks[i].name = w
      BY <2>3 DEF NoneMissed
    <3>1. PICK i \in 1..k : f[i] = w
      BY <2>1
    <3>2. i \in DOMAIN checks /\ ~checks[i].gone /\ checks[i].name = w
      BY <2>2, <3>1
    <3>3. i \in Monitor!Ahead
      BY <2>3, <3>2 DEF Monitor!Ahead
    <3> QED BY <3>2, <3>3
  <2> QED BY <1>1, <2>5, <2>6, <2>7 DEF Reported
<1>4. Timed
  <2>1. times = <<>> /\ stats = [seen |-> 0, valid |-> 0, duration |-> 0, min |-> 0, max |-> 0]
    OBVIOUS
  <2>2. Counted
    BY <2>1 DEF Counted
  <2> QED BY <1>1, <2>1, <2>2 DEF Timed, Took
<1>5. Redacted
  BY <1>1, MonitoringAssumption DEF Redacted, Monitor!MonitoringConstants
<1> QED BY <1>1, <1>2, <1>3, <1>4, <1>5 DEF MonitorInv

LEMMA MonitorStep == ASSUME MonitorInv, Monitor!Next PROVE MonitorInv'
<1>1. service' = service
  BY DEF Monitor!Next, Monitor!AddCheck, Monitor!RemoveCheck, Monitor!RunCheck, Monitor!RunAllChecks,
         Monitor!CheckEnds, Monitor!Counter, Monitor!Gauge, Monitor!Histogram, Monitor!Clear,
         Monitor!Iterate, Monitor!Benchmark, Monitor!CalculateStats, Monitor!Log,
         Monitor!RedactValue, Monitor!WrapOperation
<1>2. servicePc' = servicePc \/ servicePc' \in {"redacting", "reducing", "done"}
  BY DEF Monitor!Next, Monitor!AddCheck, Monitor!RemoveCheck, Monitor!RunCheck, Monitor!RunAllChecks,
         Monitor!CheckEnds, Monitor!Counter, Monitor!Gauge, Monitor!Histogram, Monitor!Clear,
         Monitor!Iterate, Monitor!Benchmark, Monitor!CalculateStats, Monitor!Log,
         Monitor!RedactValue, Monitor!RedactEntry, Monitor!LeaveNode, Monitor!WrapOperation
<1>3. service' \in Services /\ servicePc' \in {"running", "redacting", "reducing", "done"}
  BY <1>1, <1>2 DEF MonitorInv
<1> QED BY <1>3, ChartedStep, ReportedStep, TimedStep, RedactedStep DEF MonitorInv

\* While the caches are used, the services stay as they are.
LEMMA MonitorStays == ASSUME MonitorInv, UNCHANGED monitoringVars PROVE MonitorInv'
<1> USE DEF monitoringVars
<1>1. Charted'
  BY DEF MonitorInv, Charted
<1>2. Reported'
  BY DEF MonitorInv, Reported, HealthTyped, WorstKnown, NoneMissed, Monitor!Ahead
<1>3. Timed'
  <2>1. Monitor!Elapsed' = Monitor!Elapsed /\ Counted'
    BY DEF MonitorInv, Timed, Counted, Monitor!Elapsed, Monitor!Last, Monitor!Valid
  <2> QED BY <2>1 DEF MonitorInv, Timed
<1>4. Redacted'
  <2>1. Monitor!Plain' = Monitor!Plain
    BY DEF Monitor!Plain
  <2>2. Node' = Node
    BY <2>1 DEF Node
  <2> QED BY <2>1, <2>2 DEF MonitorInv, Redacted
<1> QED BY <1>1, <1>2, <1>3, <1>4 DEF MonitorInv

LEMMA ReportHolds == ASSUME MonitorInv PROVE Monitor!ReportSound
BY DEF MonitorInv, Reported, WorstKnown, Monitor!ReportSound

LEMMA SeriesHolds == ASSUME MonitorInv PROVE Monitor!SeriesTrue
<1> DEFINE kept == Len(series.points)
           valid == {times[n].took : n \in {n \in DOMAIN times : Monitor!Valid(times[n])}}
<1>1. Charted /\ Timed /\ service \in Services
  BY DEF MonitorInv
<1>2. kept = Monitor!Min({Len(total), MaxPoints})
  <2>1. Len(total) \in Nat /\ MaxPoints \in Nat /\ kept <= Len(total) /\ kept <= MaxPoints
        /\ kept \in {Len(total), MaxPoints}
    BY <1>1, MonitoringAssumption DEF Charted, Monitor!MonitoringConstants
  <2> HIDE DEF kept
  <2> QED BY <2>1, LessOfTwo
<1>3. \A i \in 1..kept : series.points[i] = total[Len(total) - kept + i]
  BY <1>1 DEF Charted
<1>4. \A n \in DOMAIN times : times[n].began <= Timeout
  BY <1>1 DEF Timed
<1>5. ASSUME servicePc = "done", service.kind = "benchmark"
      PROVE  /\ Len(times) = service.iterations \/ Monitor!Elapsed > Timeout
             /\ \A took \in valid : stats.min <= took /\ took <= stats.max
             /\ valid # {} => {stats.min, stats.max} \subseteq valid
             /\ stats.valid * stats.min <= stats.duration
             /\ stats.duration <= stats.valid * stats.max
  <2>1. /\ stats.seen = Len(times) /\ Counted /\ times \in Seq(Took)
        /\ Len(times) = service.iterations \/ Monitor!Elapsed > Timeout
    BY <1>1, <1>5 DEF Timed
  <2>2. DOMAIN times = 1..stats.seen
    BY <2>1
  <2> DEFINE seen == {n \in 1..stats.seen : Monitor!Valid(times[n])}
  <2>3. /\ \A n \in seen : stats.min <= times[n].took /\ times[n].took <= stats.max
        /\ stats.valid = 0 => seen = {}
        /\ stats.valid # 0 => \E m, n \in seen : times[m].took = stats.min
                                                  /\ times[n].took = stats.max
        /\ stats.valid * stats.min <= stats.duration
        /\ stats.duration <= stats.valid * stats.max
    BY <2>1 DEF Counted
  <2>4. valid = {times[n].took : n \in seen}
    BY <2>2
  <2> HIDE DEF valid, seen
  <2>5. \A took \in valid : stats.min <= took /\ took <= stats.max
    BY <2>3, <2>4
  <2>6. valid # {} => {stats.min, stats.max} \subseteq valid
    BY <2>3, <2>4
  <2> QED BY <2>1, <2>3, <2>5, <2>6
<1> QED BY <1>2, <1>3, <1>4, <1>5 DEF Monitor!SeriesTrue

LEMMA SecretsHold == ASSUME MonitorInv PROVE Monitor!SecretsKept
BY MonitoringAssumption DEF MonitorInv, Redacted, Monitor!SecretsKept, Monitor!MonitoringConstants

-----------------------------------------------------------------------------
(* Caches and services *)

\* The caches and the services of one process behave as each alone: the caches as FeeTokenCache,
\* the services as Monitoring, whichever of them is used.
THEOREM Refinement == SpecAny => CacheSpec /\ Monitor!Safety
<1>1. InitAny => CacheInit /\ Monitor!Init
  BY DEF InitAny, IdleCaches, IdleMonitoring
<1>2. [NextAny]_any => [CacheNext]_cacheVars
  BY DEF NextAny, any
<1>3. [NextAny]_any => [Monitor!Next]_(Monitor!vars)
  BY DEF NextAny, any, monitoringVars, Monitor!vars, Monitor!health, Monitor!observed,
         Monitor!measured
<1> QED BY <1>1, <1>2, <1>3, PTL DEF SpecAny, CacheSpec, Monitor!Safety

\* Whatever the services of a process report is so: a run of all checks misses none that was there
\* all the time and is as bad as the worst, a series is the latest that was observed, a benchmark's
\* average lies between its extremes, and the logger prints nothing below a secret key
\* (runAllChecks, addPoint, calculateStats, redactValue).
THEOREM EveryReport == SpecAny => []MonitoringSound
<1>1. InitAny => MonitorInv
  BY MonitorInit DEF InitAny, IdleMonitoring
<1>2. MonitorInv /\ [NextAny]_any => MonitorInv'
  <2> SUFFICES ASSUME MonitorInv, [NextAny]_any PROVE MonitorInv'
    OBVIOUS
  <2>1. CASE Monitor!Next
    BY <2>1, MonitorStep
  <2>2. CASE UNCHANGED monitoringVars
    BY <2>2, MonitorStays
  <2> QED BY <2>1, <2>2 DEF NextAny, any
<1>3. MonitorInv => MonitoringSound
  BY ReportHolds, SeriesHolds, SecretsHold DEF MonitoringSound, Monitor!MonitoringSound
<1> QED BY <1>1, <1>2, <1>3, PTL DEF SpecAny

\* A process with a query client leaves the caches of rates alone.
CachesInv ==
  /\ IInv
  /\ client => tokens = Empty /\ rates = Empty /\ \A c \in Call : pc[c] = "idle"

LEMMA CachesStep == CachesInv /\ [CacheNext]_cacheVars => CachesInv'
<1> SUFFICES ASSUME CachesInv, [CacheNext]_cacheVars PROVE CachesInv'
  OBVIOUS
<1>1. CASE UNCHANGED cacheVars
  <2>1. IInv'
    BY <1>1, Inductive DEF CachesInv, cacheVars
  <2> QED BY <1>1, <2>1 DEF CachesInv, cacheVars, vars, callVars
<1>2. CASE Handlers
  BY <1>2, Inductive DEF CachesInv, Handlers
<1>3. CASE QueryClient
  <2>1. /\ client /\ tokens = Empty /\ rates = Empty /\ \A c \in Call : pc[c] = "idle"
        /\ now \in Nat /\ TypeOK
    BY <1>3 DEF QueryClient, CachesInv, IInv, TypeOK
  <2>2. /\ now' = now \/ now' = now + 1
        /\ UNCHANGED <<tokens, rates, pc, op, net, datum, client>>
    BY <1>3 DEF QueryClient, FeeTick, AskFeeTokens, ReadFeeTokens, ReceiveFeeTokens,
                FailFeeTokens, vars, callVars
  <2>3. TypeOK'
    BY <2>1, <2>2 DEF TypeOK
  <2>4. EntryAge' /\ AnswerAge' /\ TokenAge' /\ RateAge'
    BY <2>1, <2>2 DEF EntryAge, AnswerAge, TokenAge, RateAge, Empty
  <2> QED BY <2>1, <2>2, <2>3, <2>4 DEF CachesInv, IInv
<1> QED BY <1>1, <1>2, <1>3 DEF CacheNext

\* The age of a rate and of a list of fee tokens, as used while the services are used too
\* (getTokenFeeInfo, processRate, getAuthorizedFeeTokens).
THEOREM EveryAge == SpecAny => [](TokenAge /\ RateAge /\ FeeTokensAge)
<1>1. CacheInit => CachesInv
  BY InitInv DEF CacheInit, CachesInv, Init
<1>2. CacheSpec => [](TokenAge /\ RateAge)
  <2>1. CachesInv => TokenAge /\ RateAge
    BY DEF CachesInv, IInv
  <2> QED BY <1>1, <2>1, CachesStep, PTL DEF CacheSpec
<1> QED BY <1>2, Refinement, FeeTokenListAge, PTL
=============================================================================
