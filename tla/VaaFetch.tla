------------------------------ MODULE VaaFetch ------------------------------
(***************************************************************************)
(* fetchSolanaVAA and fetchKalvoraVAA of the bridge's guardian client      *)
(* (smart-contracts/use-cases/bridge/guardian/vaa.ts): one request, or     *)
(* requests with exponential backoff, until the guardians have signed.     *)
(*                                                                         *)
(* The guardian service is external: an attempt takes up to MaxFetch       *)
(* milliseconds, none when the client cannot be made, and ends in an error *)
(* or in any payload.  A timer is late by up to Late milliseconds, and     *)
(* never shorter than one.                                                 *)
(***************************************************************************)
EXTENDS Integers, SequencesExt

CONSTANTS
  MaxElapsed,          \* options.maxElapsedMs
  InitialDelay,        \* options.initialDelayMs
  MaxFetch,            \* how long an attempt takes
  Late,                \* how late a timer fires
  Payload,             \* answers: [expected, signatures, publicKeys]
  Horizon              \* bound: no attempt starts after it

ASSUME FetchConstants ==
  /\ MaxElapsed \in Nat /\ InitialDelay \in Nat \ {0}
  /\ MaxFetch \in Nat /\ Late \in Nat /\ Horizon \in Nat

\* An answer holds lists.
ASSUME PayloadAssumption ==
  \A p \in Payload : /\ p.signatures \in Seq(ToSet(p.signatures))
                     /\ p.publicKeys \in Seq(ToSet(p.publicKeys))

VARIABLES
  retry,    \* options.retry
  pc,       \* "fetch", "sleep", "resolved" or "rejected"
  now,      \* milliseconds since the call
  delay,    \* the next delay
  response, \* the answer the call returns
  result,   \* signatures and keys returned, in pairs
  spins     \* history: an attempt that began when the maximum had passed
            \* failed within its first millisecond, and is repeated

vars == <<retry, pc, now, delay, response, result, spins>>

NoResponse == [expected |-> FALSE, signatures |-> <<>>, publicKeys |-> <<>>]

-----------------------------------------------------------------------------
(* deduplicateVAA *)

\* The payload case is the expected one, and it passes the sanity checks.
Accepted(p) ==
  /\ p.expected
  /\ Len(p.signatures) = Len(p.publicKeys)
  /\ p.signatures # <<>>

Pairs(p) ==
  [i \in DOMAIN p.signatures |->
     [sig |-> p.signatures[i], key |-> p.publicKeys[i]]]

\* Mutant: an entry is dropped when its public key was seen.
DeduplicateByKey(p) ==
  FoldLeft(LAMBDA kept, e : IF \E i \in DOMAIN kept : kept[i].key = e.key
                            THEN kept ELSE Append(kept, e),
           <<>>, Pairs(p))

\* The pairs without those whose signature came before.
Deduplicate(p) ==
  FoldLeft(LAMBDA kept, e : IF \E i \in DOMAIN kept : kept[i].sig = e.sig
                            THEN kept ELSE Append(kept, e),
           <<>>, Pairs(p))

-----------------------------------------------------------------------------
(* fetchWithRetry *)

Init ==
  /\ retry \in BOOLEAN
  /\ pc = "fetch"
  /\ now = 0
  /\ delay = InitialDelay
  /\ response = NoResponse
  /\ result = <<>>
  /\ spins = FALSE

Succeed ==
  /\ pc = "fetch" /\ now <= Horizon
  /\ \E took \in 0..MaxFetch : now' = now + took
  /\ \E p \in Payload : Accepted(p) /\ response' = p
  /\ result' = Deduplicate(response')
  /\ pc' = "resolved"
  /\ UNCHANGED <<retry, delay, spins>>

\* Mutant: gives up on the elapsed time alone.
OutOfTimeNow(elapsed) == elapsed > MaxElapsed

\* The next attempt would begin too late.
OutOfTime(elapsed) == elapsed + delay > MaxElapsed

\* A client that cannot be made, an RPC error, an unexpected payload and a
\* failed sanity check alike.
AttemptFails ==
  /\ pc = "fetch" /\ now <= Horizon
  /\ \E took \in 0..MaxFetch : now' = now + took
  /\ pc' = IF ~retry \/ OutOfTime(now') THEN "rejected" ELSE "sleep"
  /\ spins' = (spins \/ (pc' = "sleep" /\ now' = now /\ now >= MaxElapsed))
  /\ UNCHANGED <<retry, delay, response, result>>

\* The timer fires; the delay doubles, cut to the time that is left.  That may
\* be none or less: nothing keeps the delay above zero.
Wake ==
  /\ pc = "sleep"
  /\ \E late \in 0..Late :
       now' = now + late + IF delay < 1 THEN 1 ELSE delay
  /\ delay' = LET rest == MaxElapsed - now'
              IN IF 2 * delay < rest THEN 2 * delay ELSE rest
  /\ pc' = "fetch"
  /\ UNCHANGED <<retry, response, result, spins>>

Next == Succeed \/ AttemptFails \/ Wake

Spec == Init /\ [][Next]_vars

\* Attempts end (the RPC has a deadline or the connection breaks) and timers
\* fire.
FairSpec == Spec /\ WF_vars(Next)

-----------------------------------------------------------------------------
(* Properties *)

\* Type invariant of the call.
TypeOK ==
  /\ retry \in BOOLEAN
  /\ pc \in {"fetch", "sleep", "resolved", "rejected"}
  /\ now \in Nat
  /\ delay \in Int
  /\ pc = "sleep" => retry
  /\ spins \in BOOLEAN
  /\ response \in Payload \cup {NoResponse}

\* Every attempt begins within the maximum, up to the lateness of one timer,
\* however the delays and the attempts add up, unless an attempt fails at once
\* when nothing is left of the maximum (vaa.ts:218, 227).
AttemptsInBudget == pc = "fetch" => now <= MaxElapsed + Late \/ spins

\* The call "stops once the total elapsed time exceeds `maxElapsedMs`"
\* (vaa.ts:188).  The code does not: from then on delay is what is left, zero or
\* less, and an attempt that fails at once is repeated, without end.
StopsInTime == pc = "sleep" => now <= MaxElapsed

\* When it retries, the call uses nearly half of its time before giving up.
UsesHalf == pc = "rejected" /\ retry => 2 * now + InitialDelay > MaxElapsed

\* What the call returns has every signature of the answer once, each with a
\* key the answer paired it with first, in the order of the answer ("keeping the
\* first occurrence", vaa.ts:118).
ResultSound ==
  pc = "resolved" =>
    /\ {result[i].sig : i \in DOMAIN result} = ToSet(response.signatures)
    /\ \A i \in DOMAIN result : \E j \in DOMAIN response.signatures :
         /\ response.signatures[j] = result[i].sig
         /\ response.publicKeys[j] = result[i].key
         /\ \A k \in 1..j-1 : response.signatures[k] # result[i].sig
    /\ \A i, j \in DOMAIN result : i < j =>
         \E m \in DOMAIN response.signatures :
           /\ response.signatures[m] = result[i].sig
           /\ \A k \in 1..m : response.signatures[k] # result[j].sig

=============================================================================
