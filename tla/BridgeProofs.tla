---------------------------- MODULE BridgeProofs ----------------------------
(***************************************************************************)
(* The time a call of VaaFetch takes, for every maximum, initial delay,    *)
(* duration of attempts and lateness of timers; what it returns of every   *)
(* payload; and what a bridge transfer releases, for every set of          *)
(* transfers whose payloads the guardians attest as the bridge program     *)
(* knows them.                                                             *)
(***************************************************************************)
EXTENDS Bridge, SequenceTheorems, WellFoundedInduction, TLAPS

-----------------------------------------------------------------------------
(* The fetch *)

\* The delay in use was earned by waiting: it exceeds the time that has passed
\* by no more than the initial delay.
DelayEarned == pc \in {"fetch", "sleep"} => delay <= now + InitialDelay

Clock ==
  /\ retry \in BOOLEAN
  /\ pc \in {"fetch", "sleep", "resolved", "rejected"}
  /\ now \in Nat
  /\ delay \in Int

HalfInv == Clock /\ DelayEarned /\ UsesHalf

\* What the cut makes of the delay, as long as no attempt fails at once when
\* nothing is left: a delay that is not positive ends at the maximum or later,
\* and a sleep ends within it.
Cut ==
  /\ pc = "fetch" => delay > 0 \/ now + delay >= MaxElapsed
  /\ pc = "sleep" => delay > 0 /\ now + delay <= MaxElapsed

BudgetInv ==
  /\ Clock /\ (Cut \/ spins) /\ AttemptsInBudget
  /\ pc = "sleep" => retry
  /\ spins \in BOOLEAN
  /\ response \in Payload \cup {NoResponse}

\* A wake-up comes after the delay, and at least a millisecond later.
LEMMA WakeClock ==
  ASSUME Clock, Wake
  PROVE  /\ now' \in Nat /\ delay' \in Int
         /\ now' >= now + delay /\ now' >= now + 1
         /\ delay >= 1 => now' <= now + delay + Late
         /\ delay' <= 2 * delay
         /\ delay' = 2 * delay \/ delay' = MaxElapsed - now'
         /\ pc = "sleep" /\ pc' = "fetch" /\ retry' = retry /\ spins' = spins
<1> USE FetchConstants DEF Clock
<1>1. PICK late \in 0..Late :
        now' = now + late + IF delay < 1 THEN 1 ELSE delay
  BY DEF Wake
<1>2. now' \in Nat /\ now' >= now + delay /\ now' >= now + 1
      /\ (delay >= 1 => now' <= now + delay + Late)
  BY <1>1, SMT
<1>3. delay' = IF 2 * delay < MaxElapsed - now' THEN 2 * delay
                                                ELSE MaxElapsed - now'
  BY DEF Wake
<1>4. QED
  BY <1>2, <1>3, SMT DEF Wake

\* An attempt that ends moves the clock on by its duration alone.
LEMMA AttemptClock ==
  ASSUME Clock, Succeed \/ AttemptFails
  PROVE  /\ now' \in Nat /\ now' >= now
         /\ delay' = delay /\ retry' = retry /\ pc = "fetch"
<1>1. PICK took \in 0..MaxFetch : now' = now + took
  BY DEF Succeed, AttemptFails
<1>2. QED
  BY <1>1, FetchConstants, SMT DEF Clock, Succeed, AttemptFails

\* Every step keeps the bound from below: half the maximum is used before the
\* call gives up.
LEMMA HalfStep == HalfInv /\ [Next]_vars => HalfInv'
<1> SUFFICES ASSUME HalfInv, [Next]_vars PROVE HalfInv'
  OBVIOUS
<1> USE FetchConstants DEF HalfInv
<1>1. CASE Succeed
  BY <1>1, AttemptClock, SMT DEF Clock, DelayEarned, UsesHalf, Succeed
<1>2. CASE AttemptFails
  <2>1. pc' = IF ~retry \/ now' + delay > MaxElapsed THEN "rejected"
                                                     ELSE "sleep"
    BY <1>2 DEF AttemptFails, OutOfTime
  <2>2. QED
    BY <1>2, <2>1, AttemptClock, SMT DEF Clock, DelayEarned, UsesHalf
<1>3. CASE Wake
  BY <1>3, WakeClock, SMT DEF Clock, DelayEarned, UsesHalf
<1>4. CASE UNCHANGED vars
  BY <1>4 DEF vars, Clock, DelayEarned, UsesHalf
<1>5. QED
  BY <1>1, <1>2, <1>3, <1>4 DEF Next

\* An attempt that fails is repeated within the maximum, or at once when nothing
\* of it is left.
LEMMA RetryInTime ==
  ASSUME Clock, Cut, AttemptFails, pc' = "sleep"
  PROVE  \/ delay' > 0 /\ now' + delay' <= MaxElapsed
         \/ now' = now /\ now >= MaxElapsed
<1>1. /\ now \in Nat /\ delay \in Int /\ now' \in Nat /\ now' >= now /\ delay' = delay
      /\ delay > 0 \/ now + delay >= MaxElapsed
  BY AttemptClock DEF Clock, Cut
<1>2. ~(now' + delay > MaxElapsed)
  BY DEF AttemptFails, OutOfTime
<1>3. \A then \in Nat :
        /\ then >= now /\ ~(then + delay > MaxElapsed)
        => (delay > 0 /\ then + delay <= MaxElapsed) \/ (then = now /\ now >= MaxElapsed)
  BY <1>1, FetchConstants, SMT
<1>4. QED
  BY <1>1, <1>2, <1>3, Zenon

\* Every step keeps the bound from above.
LEMMA BudgetStep ==
  ASSUME BudgetInv, [Next]_vars PROVE BudgetInv'
<1> USE DEF BudgetInv
<1>1. CASE Succeed
  <2>1. Clock' /\ pc' = "resolved" /\ spins' = spins /\ response' \in Payload
    BY <1>1, AttemptClock DEF Clock, Succeed
  <2>2. QED
    BY <2>1 DEF Cut, AttemptsInBudget
<1>2. CASE AttemptFails
  <2>1. /\ pc' \in {"rejected", "sleep"} /\ (pc' = "sleep" => retry') /\ response' = response
        /\ now' \in Nat /\ delay' \in Int /\ retry' \in BOOLEAN
    BY <1>2, AttemptClock DEF AttemptFails, Clock
  <2>2. spins' \in BOOLEAN
    BY <1>2, Zenon DEF AttemptFails
  <2>3. Cut' \/ spins'
    <3>1. CASE spins
      BY <1>2, <3>1, Zenon DEF AttemptFails
    <3>2. CASE pc' = "rejected"
      BY <3>2 DEF Cut
    <3>3. CASE ~spins /\ pc' = "sleep"
      <4>1. Cut
        BY <3>3
      <4>2. CASE delay' > 0 /\ now' + delay' <= MaxElapsed
        BY <3>3, <4>2, FetchConstants DEF Cut
      <4>3. CASE now' = now /\ now >= MaxElapsed
        BY <1>2, <3>3, <4>3, Zenon DEF AttemptFails
      <4> QED BY <1>2, <3>3, <4>1, <4>2, <4>3, RetryInTime
    <3> QED BY <2>1, <3>1, <3>2, <3>3
  <2>4. QED
    BY <2>1, <2>2, <2>3 DEF Clock, AttemptsInBudget
<1>3. CASE Wake
  <2>1. /\ now \in Nat /\ delay \in Int /\ MaxElapsed \in Nat /\ Late \in Nat
        /\ now' \in Nat /\ delay' \in Int
        /\ delay >= 1 => now' <= now + delay + Late
        /\ delay' = 2 * delay \/ delay' = MaxElapsed - now'
    BY <1>3, WakeClock, FetchConstants DEF Clock
  <2>2. pc = "sleep" /\ pc' = "fetch" /\ retry' = retry /\ spins' = spins
        /\ response' = response
    BY <1>3 DEF Wake
  <2>3. CASE spins
    BY <2>1, <2>2, <2>3 DEF Clock, AttemptsInBudget
  <2>4. CASE Cut
    <3>1. delay > 0 /\ now + delay <= MaxElapsed
      BY <2>2, <2>4 DEF Cut
    <3>2. now' <= MaxElapsed + Late
      BY <2>1, <3>1, SMT
    <3>3. delay' > 0 \/ now' + delay' >= MaxElapsed
      <4>1. delay' = 2 * delay => delay' > 0
        BY <2>1, <3>1, SMT
      <4>2. delay' = MaxElapsed - now' => now' + delay' >= MaxElapsed
        <5>1. \A t \in Nat : t + (MaxElapsed - t) >= MaxElapsed
          BY FetchConstants, SMT
        <5> QED BY <2>1, <5>1, Zenon
      <4>3. delay' = 2 * delay \/ delay' = MaxElapsed - now'
        BY <1>3, WakeClock, Zenon DEF Clock
      <4> QED BY <4>1, <4>2, <4>3, Zenon
    <3>4. QED
      BY <2>1, <2>2, <3>2, <3>3 DEF Clock, Cut, AttemptsInBudget
  <2>5. QED
    BY <2>3, <2>4
<1>4. CASE UNCHANGED vars
  BY <1>4 DEF vars, Clock, Cut, AttemptsInBudget
<1>5. QED
  BY <1>1, <1>2, <1>3, <1>4 DEF Next

\* A call that has just begun.
LEMMA FreshCall ==
  ASSUME pc = "fetch", now = 0, delay = InitialDelay, response = NoResponse, spins = FALSE,
         retry \in BOOLEAN
  PROVE  BudgetInv
<1>1. Clock /\ Cut /\ AttemptsInBudget
  BY FetchConstants, SMT DEF Clock, Cut, AttemptsInBudget
<1>2. QED
  BY <1>1 DEF BudgetInv

\* A call that retries gives up no earlier than about half of its maximum
\* (vaa.ts:218, 227), whatever its attempts cost.
THEOREM HalfUsed == Spec => []UsesHalf
<1>1. Init => HalfInv
  BY FetchConstants, SMT DEF Init, HalfInv, Clock, DelayEarned, UsesHalf
<1>2. QED
  BY <1>1, HalfStep, PTL DEF Spec, HalfInv

\* Whatever the attempts take, none begins after the maximum by more than the
\* lateness of one timer, until one that fails at once when nothing of the
\* maximum is left is repeated (vaa.ts:187-188, 218).
THEOREM InBudget == Spec => []AttemptsInBudget /\ []TypeOK
<1>1. Init => BudgetInv
  BY FreshCall DEF Init
<1>2. BudgetInv /\ [Next]_vars => BudgetInv'
  BY BudgetStep
<1>3. BudgetInv => TypeOK /\ AttemptsInBudget
  BY DEF BudgetInv, Clock, Cut, TypeOK
<1>4. QED
  BY <1>1, <1>2, <1>3, PTL DEF Spec

-----------------------------------------------------------------------------
(* The result of the fetch: deduplicateVAA goes through the pairs as FoldLeft does, which is *)
(* a function of sets of positions; what it has kept after n pairs follows by induction on n. *)

LessThan == {pair \in Nat \X Nat : pair[1] < pair[2]}

\* Induction over the naturals up to N, for the numbers in a set.
LEMMA UpTo ==
  ASSUME NEW N \in Nat, NEW Good, 0 \in Good,
         \A n \in 0..N : n # N /\ n \in Good => n + 1 \in Good
  PROVE  \A n \in 0..N : n \in Good
<1> DEFINE Bad == {n \in 0..N : n \notin Good}
<1>1. IsWellFoundedOn(LessThan, Nat)
  BY NatLessThanWellFounded, Zenon DEF OpToRel, LessThan
<1>2. SUFFICES ASSUME Bad # {} PROVE FALSE
  OBVIOUS
<1>3. PICK x \in Bad : \A y \in Bad : ~(<<y, x>> \in LessThan)
  <2>1. Bad \subseteq Nat
    OBVIOUS
  <2> HIDE DEF Bad
  <2> QED BY <1>1, <1>2, <2>1, WFMin
<1>4. /\ x # 0 /\ x \in Nat /\ x - 1 \in Nat /\ x - 1 < x /\ (x - 1) + 1 = x
      /\ x - 1 \in 0..N /\ x - 1 # N
  OBVIOUS
<1>5. x - 1 \in Bad
  BY <1>4
<1>6. <<x - 1, x>> \in LessThan
  BY <1>4 DEF LessThan
<1> QED BY <1>3, <1>5, <1>6

\* What deduplicateVAA does with the next pair.
Kept(kept, e) == IF \E i \in DOMAIN kept : kept[i].sig = e.sig THEN kept ELSE Append(kept, e)

\* The function by which FoldLeft is defined.
Folds(g, seq, n) ==
  g = [s \in SUBSET (1..n) |-> IF s = {} THEN <<>> ELSE Kept(g[s \ {Max(s)}], seq[Max(s)])]

\* A nonempty set of numbers up to n has a largest one.
LEMMA Largest ==
  ASSUME NEW n \in Nat, NEW s \in SUBSET (1..n), s # {}
  PROVE  Max(s) \in s /\ \A y \in s : Max(s) >= y
<1> DEFINE Good == {m \in Nat : \A t \in SUBSET (1..m) : t # {} => \E x \in t : \A y \in t : x >= y}
<1>1. 0 \in Good
  <2>1. 1..0 = {}
    OBVIOUS
  <2> QED BY <2>1
<1>2. ASSUME NEW m \in 0..n, m # n, m \in Good PROVE m + 1 \in Good
  <2>1. ASSUME NEW t \in SUBSET (1..m + 1), t # {} PROVE \E x \in t : \A y \in t : x >= y
    <3>1. CASE m + 1 \in t
      BY <3>1
    <3>2. CASE m + 1 \notin t
      <4>1. t \in SUBSET (1..m)
        BY <3>2
      <4> QED BY <4>1, <2>1, <1>2
    <3> QED BY <3>1, <3>2
  <2> QED BY <2>1
<1>3. n \in Good
  <2> HIDE DEF Good
  <2>1. \A m \in 0..n : m \in Good
    BY <1>1, <1>2, UpTo
  <2> QED BY <2>1
<1>4. \E x \in s : \A y \in s : x >= y
  BY <1>3
<1> QED BY <1>4 DEF Max

LEMMA FoldExists ==
  ASSUME NEW seq, NEW N \in Nat
  PROVE  \E g : Folds(g, seq, N)
<1> DEFINE Good == {n \in Nat : \E g : Folds(g, seq, n)}
<1>1. 0 \in Good
  <2>1. Folds([s \in SUBSET (1..0) |-> <<>>], seq, 0)
    <3>1. \A s \in SUBSET (1..0) : s = {}
      OBVIOUS
    <3> QED BY <3>1 DEF Folds
  <2> QED BY <2>1
<1>2. ASSUME NEW n \in 0..N, n # N, n \in Good PROVE n + 1 \in Good
  <2>1. PICK g : Folds(g, seq, n)
    BY <1>2
  <2> DEFINE h == [s \in SUBSET (1..n + 1) |->
                     IF s \in SUBSET (1..n) THEN g[s]
                     ELSE Kept(g[s \ {Max(s)}], seq[Max(s)])]
             F(s) == IF s = {} THEN <<>> ELSE Kept(h[s \ {Max(s)}], seq[Max(s)])
  <2>2. ASSUME NEW s \in SUBSET (1..n + 1) PROVE h[s] = F(s)
    <3>1. CASE s = {}
      <4>1. s \in SUBSET (1..n)
        BY <3>1
      <4>2. g[s] = <<>>
        BY <2>1, <3>1, <4>1 DEF Folds
      <4> QED BY <3>1, <4>1, <4>2
    <3>2. CASE s # {} /\ s \in SUBSET (1..n)
      <4>1. s \ {Max(s)} \in SUBSET (1..n) /\ s \ {Max(s)} \in SUBSET (1..n + 1)
        BY <3>2
      <4>2. g[s] = Kept(g[s \ {Max(s)}], seq[Max(s)])
        BY <2>1, <3>2, <4>1 DEF Folds
      <4>3. h[s] = g[s] /\ h[s \ {Max(s)}] = g[s \ {Max(s)}]
        BY <3>2, <4>1
      <4> QED BY <3>2, <4>2, <4>3
    <3>3. CASE s \notin SUBSET (1..n)
      <4>0. s # {} /\ n + 1 \in Nat
        BY <3>3
      <4>1. Max(s) \in s /\ \A y \in s : Max(s) >= y
        BY <4>0, Largest
      <4>2. n + 1 \in s
        BY <3>3
      <4>3. s \ {Max(s)} \in SUBSET (1..n) /\ s \ {Max(s)} \in SUBSET (1..n + 1)
        <5>1. Max(s) = n + 1
          <6>1. Max(s) \in 1..n + 1 /\ Max(s) >= n + 1
            BY <4>1, <4>2
          <6> QED BY <6>1
        <5>2. \A x \in s \ {n + 1} : x \in 1..n
          OBVIOUS
        <5>3. s \ {n + 1} \in SUBSET (1..n) /\ s \ {n + 1} \in SUBSET (1..n + 1)
          BY <5>2
        <5> QED BY <5>1, <5>3
      <4>4. h[s \ {Max(s)}] = g[s \ {Max(s)}]
        BY <4>3
      <4> QED BY <3>3, <4>2, <4>4
    <3> QED BY <3>1, <3>2, <3>3
  <2>3. h = [s \in SUBSET (1..n + 1) |-> F(s)]
    <3> HIDE DEF F
    <3> QED BY <2>2
  <2>4. Folds(h, seq, n + 1)
    <3> HIDE DEF h
    <3> QED BY <2>3 DEF Folds
  <2> QED BY <2>4
<1> HIDE DEF Good
<1>3. N \in Good
  <2>1. \A n \in 0..N : n \in Good
    BY <1>1, <1>2, UpTo
  <2> QED BY <2>1
<1> QED BY <1>3 DEF Good

\* deduplicateVAA goes through the pairs from the first to the last.
LEMMA Deduplicates ==
  ASSUME NEW p, NEW N \in Nat, DOMAIN p.signatures = 1..N
  PROVE  \E kept : /\ kept[0] = <<>> /\ kept[N] = Deduplicate(p)
                   /\ \A n \in 0..N : n # N => kept[n + 1] = Kept(kept[n], Pairs(p)[n + 1])
<1> DEFINE g == CHOOSE g : Folds(g, Pairs(p), N)
<1>1. Folds(g, Pairs(p), N)
  BY FoldExists
<1>2. DOMAIN Pairs(p) = 1..N
  BY DEF Pairs
<1>3. Deduplicate(p) = g[1..N]
  BY <1>2 DEF Deduplicate, FoldLeft, MapThenFoldSet, Folds, Kept
<1> HIDE DEF g
<1>4. g[{}] = <<>>
  <2>1. {} \in SUBSET (1..N)
    OBVIOUS
  <2> QED BY <1>1, <2>1 DEF Folds
<1>5. ASSUME NEW n \in 0..N, n # N
      PROVE  g[1..n + 1] = Kept(g[1..n], Pairs(p)[n + 1])
  <2>1. 1..n + 1 \in SUBSET (1..N) /\ 1..n + 1 # {}
    <3>1. 1 \in 1..n + 1 /\ \A i \in 1..n + 1 : i \in 1..N
      BY <1>5
    <3> QED BY <3>1
  <2>2. Max(1..n + 1) \in 1..n + 1 /\ \A y \in 1..n + 1 : Max(1..n + 1) >= y
    BY <2>1, Largest
  <2>3. Max(1..n + 1) = n + 1
    BY <2>2
  <2>4. (1..n + 1) \ {n + 1} = 1..n
    OBVIOUS
  <2> QED BY <1>1, <2>1, <2>3, <2>4 DEF Folds
<1> DEFINE kept == [n \in 0..N |-> g[1..n]]
<1>6. kept[0] = <<>>
  <2>1. 1..0 = {}
    OBVIOUS
  <2> QED BY <1>4, <2>1
<1>7. kept[N] = Deduplicate(p)
  BY <1>3
<1>8. ASSUME NEW n \in 0..N, n # N
      PROVE  kept[n + 1] = Kept(kept[n], Pairs(p)[n + 1])
  <2>1. n + 1 \in 0..N
    BY <1>8
  <2> QED BY <1>5, <1>8, <2>1
<1> HIDE DEF kept
<1> QED BY <1>6, <1>7, <1>8

\* A signature is among the first n of an answer, and another one comes after it or not at all.
Before(e, f, p, n) ==
  \E m \in 1..n : p.signatures[m] = e.sig /\ \A k \in 1..m : p.signatures[k] # f.sig

\* What the pairs of the first n entries leave: each signature once, with the key beside its
\* first occurrence, in the order of these.
Firsts(kept, p, n) ==
  /\ kept \in Seq({Pairs(p)[j] : j \in 1..n})
  /\ \A j \in 1..n : \E i \in 1..Len(kept) : kept[i].sig = p.signatures[j]
  /\ \A i \in 1..Len(kept) : \E j \in 1..n :
       /\ kept[i] = Pairs(p)[j]
       /\ \A k \in 1..j - 1 : p.signatures[k] # kept[i].sig
  /\ \A i, j \in 1..Len(kept) : i < j => Before(kept[i], kept[j], p, n)

\* One more entry.
LEMMA OneMore ==
  ASSUME NEW p, NEW N \in Nat, DOMAIN p.signatures = 1..N, NEW n \in 0..N, n # N,
         NEW kept, Firsts(kept, p, n)
  PROVE  Firsts(Kept(kept, Pairs(p)[n + 1]), p, n + 1)
<1> DEFINE e == Pairs(p)[n + 1]
           S == {Pairs(p)[j] : j \in 1..n + 1}
           longer == Kept(kept, e)
<1>1. \A j \in 1..n + 1 : Pairs(p)[j].sig = p.signatures[j]
  BY DEF Pairs
<1>2. kept \in Seq(S) /\ e \in S
  <2>1. {Pairs(p)[j] : j \in 1..n} \subseteq S
    OBVIOUS
  <2>2. kept \in Seq({Pairs(p)[j] : j \in 1..n})
    BY DEF Firsts
  <2>3. n + 1 \in 1..n + 1
    OBVIOUS
  <2> QED BY <2>1, <2>2, <2>3, SeqMonotonic
<1>3. DOMAIN kept = 1..Len(kept) /\ Len(kept) \in Nat
  BY <1>2
<1>4. CASE \E i \in DOMAIN kept : kept[i].sig = e.sig
  <2>1. longer = kept
    BY <1>4 DEF Kept
  <2>2. \A j \in 1..n + 1 : \E i \in 1..Len(kept) : kept[i].sig = p.signatures[j]
    <3>1. \E i \in 1..Len(kept) : kept[i].sig = p.signatures[n + 1]
      BY <1>1, <1>3, <1>4
    <3>2. \A j \in 1..n : \E i \in 1..Len(kept) : kept[i].sig = p.signatures[j]
      BY DEF Firsts
    <3>3. \A j \in 1..n + 1 : j \in 1..n \/ j = n + 1
      OBVIOUS
    <3> HIDE DEF longer, e, S
    <3> QED BY <3>1, <3>2, <3>3
  <2>3. \A i \in 1..Len(kept) : \E j \in 1..n + 1 :
          /\ kept[i] = Pairs(p)[j]
          /\ \A k \in 1..j - 1 : p.signatures[k] # kept[i].sig
    <3>1. 1..n \subseteq 1..n + 1
      OBVIOUS
    <3>2. \A i \in 1..Len(kept) : \E j \in 1..n :
          /\ kept[i] = Pairs(p)[j]
          /\ \A k \in 1..j - 1 : p.signatures[k] # kept[i].sig
      BY DEF Firsts
    <3> QED BY <3>1, <3>2, Zenon
  <2>4. \A i, j \in 1..Len(kept) : i < j => Before(kept[i], kept[j], p, n + 1)
    <3>1. \A i, j \in 1..Len(kept) : i < j => Before(kept[i], kept[j], p, n)
      BY DEF Firsts
    <3>2. 1..n \subseteq 1..n + 1
      OBVIOUS
    <3> SUFFICES ASSUME NEW i \in 1..Len(kept), NEW j \in 1..Len(kept), i < j
                 PROVE  Before(kept[i], kept[j], p, n + 1)
      OBVIOUS
    <3>3. Before(kept[i], kept[j], p, n)
      BY <3>1
    <3> QED BY <3>2, <3>3 DEF Before
  <2> QED BY <1>2, <2>1, <2>2, <2>3, <2>4 DEF Firsts
<1>5. CASE ~\E i \in DOMAIN kept : kept[i].sig = e.sig
  <2>1. longer = Append(kept, e)
    BY <1>5 DEF Kept
  <2>2. /\ longer \in Seq(S) /\ Len(longer) = Len(kept) + 1
        /\ \A i \in 1..Len(kept) : longer[i] = kept[i]
        /\ longer[Len(kept) + 1] = e
    <3> HIDE DEF longer, e, S
    <3> QED BY <1>2, <2>1, AppendProperties
  <2> HIDE DEF longer
  <2>3. ASSUME NEW j \in 1..n + 1 PROVE \E i \in 1..Len(longer) : longer[i].sig = p.signatures[j]
    <3>1. CASE j = n + 1
      <4>1. Len(kept) + 1 \in 1..Len(longer)
        BY <2>2, <1>3
      <4> QED BY <3>1, <1>1, <2>2, <4>1
    <3>2. CASE j \in 1..n
      <4>1. PICK i \in 1..Len(kept) : kept[i].sig = p.signatures[j]
        BY <3>2 DEF Firsts
      <4>2. i \in 1..Len(longer) /\ longer[i] = kept[i]
        BY <2>2, <1>3
      <4> QED BY <4>1, <4>2
    <3> QED BY <3>1, <3>2
  <2>4. ASSUME NEW i \in 1..Len(longer)
        PROVE  \E j \in 1..n + 1 : /\ longer[i] = Pairs(p)[j]
                                   /\ \A k \in 1..j - 1 : p.signatures[k] # longer[i].sig
    <3>1. CASE i \in 1..Len(kept)
      <4>1. longer[i] = kept[i]
        BY <2>2, <3>1
      <4>2. PICK j \in 1..n : /\ kept[i] = Pairs(p)[j]
                              /\ \A k \in 1..j - 1 : p.signatures[k] # kept[i].sig
        BY <3>1 DEF Firsts
      <4>3. j \in 1..n + 1
        OBVIOUS
      <4> QED BY <4>1, <4>2, <4>3
    <3>2. CASE i = Len(kept) + 1
      <4>1. longer[i] = Pairs(p)[n + 1]
        BY <2>2, <3>2
      <4>2. ASSUME NEW k \in 1..(n + 1) - 1, p.signatures[k] = e.sig PROVE FALSE
        <5>1. k \in 1..n
          OBVIOUS
        <5>2. PICK m \in 1..Len(kept) : kept[m].sig = p.signatures[k]
          BY <5>1 DEF Firsts
        <5> QED BY <1>3, <1>5, <4>2, <5>2
      <4>3. n + 1 \in 1..n + 1
        OBVIOUS
      <4> QED BY <4>1, <4>2, <4>3
    <3> QED BY <1>3, <2>2, <3>1, <3>2
  <2>5. ASSUME NEW i \in 1..Len(longer), NEW j \in 1..Len(longer), i < j
        PROVE  Before(longer[i], longer[j], p, n + 1)
    <3>1. i \in 1..Len(kept) /\ longer[i] = kept[i]
      BY <1>3, <2>2, <2>5
    <3>2. 1..n \subseteq 1..n + 1
      OBVIOUS
    <3>3. CASE j \in 1..Len(kept)
      <4>1. Before(kept[i], kept[j], p, n) /\ longer[j] = kept[j]
        BY <2>2, <2>5, <3>1, <3>3 DEF Firsts
      <4> QED BY <3>1, <3>2, <4>1, Zenon DEF Before
    <3>4. CASE j = Len(kept) + 1
      <4>1. PICK m \in 1..n : kept[i] = Pairs(p)[m]
        BY <3>1 DEF Firsts
      <4>2. p.signatures[m] = longer[i].sig /\ longer[j] = e
        BY <1>1, <2>2, <3>1, <3>2, <3>4, <4>1
      <4>3. ASSUME NEW k \in 1..m, p.signatures[k] = e.sig PROVE FALSE
        <5>1. k \in 1..n
          OBVIOUS
        <5>2. PICK l \in 1..Len(kept) : kept[l].sig = p.signatures[k]
          BY <5>1 DEF Firsts
        <5> QED BY <1>3, <1>5, <4>3, <5>2
      <4> QED BY <3>2, <4>2, <4>3, Zenon DEF Before
    <3> QED BY <1>3, <2>2, <3>3, <3>4
  <2> HIDE DEF S
  <2>6. longer \in Seq({Pairs(p)[j] : j \in 1..n + 1})
    BY <2>2 DEF S
  <2>7. Firsts(longer, p, n + 1)
    BY <2>3, <2>4, <2>5, <2>6 DEF Firsts
  <2> QED BY <2>7 DEF longer
<1> QED BY <1>4, <1>5

\* What deduplicateVAA keeps of a response whose signatures and keys are as many
\* (vaa.ts:118).
LEMMA FirstsKept ==
  ASSUME NEW p, NEW N \in Nat, DOMAIN p.signatures = 1..N
  PROVE  Firsts(Deduplicate(p), p, N)
<1>1. PICK kept : /\ kept[0] = <<>> /\ kept[N] = Deduplicate(p)
                  /\ \A n \in 0..N : n # N => kept[n + 1] = Kept(kept[n], Pairs(p)[n + 1])
  BY Deduplicates
<1> DEFINE Good == {n \in Nat : Firsts(kept[n], p, n)}
<1>2. 0 \in Good
  <2>1. kept[0] = <<>> /\ kept[0] \in Seq({Pairs(p)[j] : j \in 1..0}) /\ Len(kept[0]) = 0
    BY <1>1
  <2>2. 1..0 = {}
    OBVIOUS
  <2> QED BY <2>1, <2>2 DEF Firsts
<1>3. ASSUME NEW n \in 0..N, n # N, n \in Good PROVE n + 1 \in Good
  BY <1>1, <1>3, OneMore
<1> HIDE DEF Good
<1>4. N \in Good
  <2>1. \A n \in 0..N : n \in Good
    BY <1>2, <1>3, UpTo
  <2> QED BY <2>1
<1> QED BY <1>1, <1>4 DEF Good

\* A call that is resolved returns what deduplicateVAA makes of a payload it accepts.
Resolution ==
  pc = "resolved" =>
    response \in Payload /\ Accepted(response) /\ result = Deduplicate(response)

\* A step of the fetch resolves with such a result, or not at all.
LEMMA ResolutionStep == Resolution /\ [Next]_vars => Resolution'
<1> SUFFICES ASSUME Resolution, [Next]_vars PROVE Resolution'
  OBVIOUS
<1>1. CASE Succeed
  BY <1>1 DEF Succeed, Resolution
<1>2. CASE AttemptFails
  BY <1>2 DEF AttemptFails, Resolution
<1>3. CASE Wake
  BY <1>3 DEF Wake, Resolution
<1>4. CASE UNCHANGED vars
  BY <1>4 DEF vars, Resolution
<1> QED BY <1>1, <1>2, <1>3, <1>4 DEF Next

\* What it makes of it is what the call promises.
LEMMA ResolutionSound == Resolution => ResultSound
<1> SUFFICES ASSUME Resolution, pc = "resolved" PROVE ResultSound
  BY DEF ResultSound
<1> DEFINE N == Len(response.signatures)
<1>1. /\ response.signatures \in Seq(ToSet(response.signatures))
      /\ response.publicKeys \in Seq(ToSet(response.publicKeys))
      /\ Len(response.publicKeys) = N
  BY PayloadAssumption DEF Resolution, Accepted
<1>2. N \in Nat /\ DOMAIN response.signatures = 1..N
  BY <1>1
<1> HIDE DEF N
<1>3. Firsts(result, response, N)
  BY <1>2, FirstsKept DEF Resolution
<1>4. DOMAIN result = 1..Len(result)
  BY <1>3 DEF Firsts
<1>5. \A j \in 1..N : Pairs(response)[j].sig = response.signatures[j]
                      /\ Pairs(response)[j].key = response.publicKeys[j]
  BY <1>2 DEF Pairs
<1>6. ASSUME NEW i \in DOMAIN result
      PROVE  \E j \in DOMAIN response.signatures :
               /\ response.signatures[j] = result[i].sig
               /\ response.publicKeys[j] = result[i].key
               /\ \A k \in 1..j - 1 : response.signatures[k] # result[i].sig
  <2>1. PICK j \in 1..N : /\ result[i] = Pairs(response)[j]
                          /\ \A k \in 1..j - 1 : response.signatures[k] # result[i].sig
    BY <1>3, <1>4 DEF Firsts
  <2> QED BY <1>2, <1>5, <2>1
<1>7. {result[i].sig : i \in DOMAIN result} = ToSet(response.signatures)
  <2>1. \A j \in DOMAIN response.signatures :
          \E i \in DOMAIN result : result[i].sig = response.signatures[j]
    BY <1>2, <1>3, <1>4 DEF Firsts
  <2> QED BY <1>6, <2>1 DEF ToSet
<1>8. \A i, j \in DOMAIN result : i < j =>
        \E m \in DOMAIN response.signatures :
          /\ response.signatures[m] = result[i].sig
          /\ \A k \in 1..m : response.signatures[k] # result[j].sig
  <2>1. \A i, j \in 1..Len(result) : i < j => Before(result[i], result[j], response, N)
    BY <1>3 DEF Firsts
  <2> SUFFICES ASSUME NEW i \in DOMAIN result, NEW j \in DOMAIN result, i < j
               PROVE  \E m \in DOMAIN response.signatures :
                        /\ response.signatures[m] = result[i].sig
                        /\ \A k \in 1..m : response.signatures[k] # result[j].sig
    OBVIOUS
  <2>2. Before(result[i], result[j], response, N)
    BY <1>4, <2>1
  <2> QED BY <1>2, <2>2 DEF Before
<1> QED BY <1>6, <1>7, <1>8 DEF ResultSound

\* A fetch returns every signature of the answer it accepts once, each with the key the
\* answer pairs it with first, in the order of the answer (deduplicateVAA, vaa.ts:118).
THEOREM FirstOccurrences == Spec => []ResultSound
<1>1. Init => Resolution
  BY DEF Init, Resolution
<1> QED BY <1>1, ResolutionStep, ResolutionSound, PTL DEF Spec

-----------------------------------------------------------------------------
(* The transfer *)

Attestation == [action |-> transfer.action, body |-> transfer.signed]

\* What a transaction of this transfer says: a token call is the one the
\* guardians attest, under the program of the mint and, for a release of
\* tokens, from the vault such tokens are locked in.
Rightful(tx) ==
  /\ tx.kind \in {"verify", "token", "kalvora"}
  /\ tx.kind = "token" =>
       /\ transfer.toSolana
       /\ tx.action = transfer.action /\ tx.body = transfer.signed
       /\ tx.program = transfer.program
       /\ transfer.kind = "release" /\ transfer.mint # "native" =>
            tx.vault = LockVault(transfer)

BuiltRight ==
  step \in {"verify", "verifying", "hash", "token", "tokening"} =>
    /\ built.verify.kind = "verify"
    /\ built.token.kind = "token" /\ Rightful(built.token)

ChainRight ==
  /\ verified \subseteq {Attestation}
  /\ released \subseteq {transfer.signed}
  /\ transfer.toSolana => vaults = {LockVault(transfer)}

\* What the client may rely on when it waits for confirmations.
Confirmed ==
  ~options.skip =>
    /\ step \in {"hash", "token", "tokening"} => verified # {}
    /\ step = "verifying" /\ watch = "ok" => verified # {}
    /\ step = "tokening" /\ watch = "ok" => released # {}
    /\ step = "done" /\ transfer.toSolana => released # {}
    /\ \A tx \in pool : tx.kind = "token" => verified # {}

TransferInv ==
  /\ transfer \in Transfer
  /\ \A tx \in pool : Rightful(tx)
  /\ BuiltRight
  /\ ChainRight
  /\ refused = {}
  /\ Confirmed

\* The builder of each payload case returns a verification and a token call
\* that says what the guardians attest (transactions/release.ts, mint.ts,
\* registration.ts).
LEMMA BuildersRight ==
  ASSUME NEW t \in Transfer, t.toSolana,
         t.kind \in {"release", "mint", "contract", "register"},
         ~(t.kind \in {"release", "register"} /\ t.program = "other")
  PROVE  /\ Builder(t).verify.kind = "verify"
         /\ Builder(t).token.kind = "token"
         /\ Builder(t).token.action = t.action
         /\ Builder(t).token.body = t.signed
         /\ Builder(t).token.program = t.program
         /\ t.kind = "release" /\ t.mint # "native" =>
              Builder(t).token.vault = LockVault(t)
<1> USE DEF TokenCall, Verification
<1>1. CASE t.kind = "release" /\ t.mint = "native"
  <2>1. t.program = "system" /\ ~t.wrapped /\ t.action = "RELEASE_SOL"
        /\ t.signed = [amount |-> t.amount, to |-> t.to, price |-> t.price]
    BY <1>1, TransferAssumption
  <2>2. Builder(t) = ReleaseSol(t)
    BY <1>1 DEF Builder
  <2>3. QED
    BY <1>1, <2>1, <2>2 DEF ReleaseSol, ReleaseSolVerify
<1>2. CASE t.kind = "release" /\ t.mint # "native" /\ t.program = "token2022"
  <2>1. ~t.wrapped /\ t.action = "RELEASE_2022" /\ t.signed = Priced(t)
    BY <1>2, TransferAssumption DEF Priced
  <2>2. LockVault(t) = Lock2022(t)
    BY <1>2, <2>1 DEF LockVault
  <2>3. Builder(t) = Release2022(t)
    BY <1>2 DEF Builder
  <2>4. QED
    BY <1>2, <2>1, <2>2, <2>3 DEF Release2022, Release2022Verify, Lock2022
<1>3. CASE t.kind = "release" /\ t.mint # "native" /\ t.program # "token2022"
  <2>1. t.program = "spl" /\ ~t.wrapped /\ t.action = "RELEASE_SPL" /\ t.signed = Priced(t)
    BY <1>3, TransferAssumption DEF Priced
  <2>2. LockVault(t) = LockSpl(t)
    BY <2>1 DEF LockVault
  <2>3. Builder(t) = ReleaseSpl(t)
    BY <1>3, <2>1 DEF Builder
  <2>4. QED
    BY <2>1, <2>2, <2>3 DEF ReleaseSpl, ReleaseSplVerify, LockSpl
<1>4. CASE t.kind = "mint"
  <2>1. t.action = "MINT_WRAPPED_EXISTING" /\ t.program = "spl" /\ t.signed = Minted(t)
    BY <1>4, TransferAssumption DEF Minted
  <2>2. Builder(t) = MintExisting(t)
    BY <1>4 DEF Builder
  <2>3. QED
    BY <1>4, <2>1, <2>2 DEF MintExisting, MintExistingVerify
<1>5. CASE t.kind = "contract"
  <2>1. t.action = "MINT_WRAPPED" /\ t.program = "spl" /\ t.signed = MintedNew(t)
    BY <1>5, TransferAssumption DEF MintedNew
  <2>2. Builder(t) = MintNew(t)
    BY <1>5 DEF Builder
  <2>3. QED
    BY <1>5, <2>1, <2>2 DEF MintNew, MintNewVerify
<1>6. CASE t.kind = "register"
  <2>1. t.action = "REGISTER_TOKEN"
        /\ t.signed = [mint |-> t.mint, price |-> t.price,
                       liquidity |-> t.liquidity, tier |-> t.tier]
    BY <1>6, TransferAssumption
  <2>2. Builder(t) = Register(t)
    BY <1>6 DEF Builder
  <2>3. QED
    BY <1>6, <2>1, <2>2 DEF Register, RegisterVerify
<1>7. QED
  BY <1>1, <1>2, <1>3, <1>4, <1>5, <1>6

\* A transaction that is executed leaves on chain what the guardians attest,
\* and more than there was.
LEMMA ExecutionSound ==
  ASSUME NEW tx \in pool, TransferInv, ExecuteTransaction(tx)
  PROVE  /\ verified' \subseteq {Attestation} /\ released' \subseteq {transfer.signed}
         /\ verified # {} => verified' # {}
         /\ released # {} => released' # {}
         /\ tx.kind = "verify" => verified' # {}
         /\ tx.kind = "token" => verified' # {} /\ released' # {}
<1> USE DEF TransferInv, ChainRight, Rightful
<1>1. Executable(tx) /\ Effect(tx)
  BY DEF ExecuteTransaction
<1>2. CASE tx.kind = "verify"
  <2>1. verified' = {[action |-> tx.action, body |-> tx.body]} /\ released' = released
    BY <1>1, <1>2 DEF Effect
  <2>2. Attested(tx)
    BY <1>1, <1>2 DEF Executable
  <2>3. [action |-> tx.action, body |-> tx.body] = Attestation
    BY <2>2 DEF Attested, Attestation
  <2>4. QED
    BY <1>2, <2>1, <2>3
<1>3. CASE tx.kind = "token"
  <2>1. verified' = verified /\ released' = released \union {tx.body}
    BY <1>1, <1>3 DEF Effect
  <2>2. verified # {} /\ tx.body = transfer.signed
    BY <1>1, <1>3 DEF Executable
  <2>3. QED
    BY <1>3, <2>1, <2>2
<1>4. CASE tx.kind = "kalvora"
  BY <1>1, <1>4 DEF Effect
<1>5. QED
  BY <1>2, <1>3, <1>4

\* A token call of this transfer agrees with any verification there is, so
\* only its timing can have it refused.
LEMMA CallsAgree ==
  ASSUME NEW tx \in pool, TransferInv, tx.kind = "token", verified # {}
  PROVE  Agrees(tx)
<1> USE DEF TransferInv, ChainRight, Rightful
<1>1. verified = {Attestation}
  OBVIOUS
<1>2. [action |-> tx.action, body |-> tx.body] = Attestation
  BY DEF Attestation
<1>3. QED
  BY <1>1, <1>2 DEF Agrees

\* A step of the chains that adds nothing wrong keeps the invariant, as long as
\* the client is told "ok" of what happened only.
LEMMA ChainMoves ==
  ASSUME TransferInv, UNCHANGED <<transfer, options, step, built>>,
         pool' \subseteq pool, refused' = {}, vaults' = vaults,
         verified' \subseteq {Attestation}, released' \subseteq {transfer.signed},
         verified # {} => verified' # {}, released # {} => released' # {},
         watch' = "ok" => \/ watch = "ok"
                          \/ /\ step = "verifying" => verified' # {}
                             /\ step = "tokening" => released' # {}
  PROVE  TransferInv'
<1> USE DEF TransferInv
<1>1. (transfer \in Transfer)' /\ (\A tx \in pool : Rightful(tx))' /\ (refused = {})'
  BY DEF Rightful
<1>2. BuiltRight'
  BY DEF BuiltRight, Rightful
<1>3. ChainRight'
  BY DEF ChainRight, Attestation
<1>4. Confirmed'
  BY DEF Confirmed
<1>5. QED
  BY <1>1, <1>2, <1>3, <1>4

\* Every step of the chains keeps it.
LEMMA ChainKeeps == TransferInv /\ Chain => TransferInv'
<1> SUFFICES ASSUME TransferInv, Chain PROVE TransferInv'
  OBVIOUS
<1>1. ASSUME NEW tx \in pool, ExecuteTransaction(tx) PROVE TransferInv'
  <2>1. UNCHANGED <<transfer, options, step, built>> /\ pool' \subseteq pool
        /\ refused' = refused /\ vaults' = vaults
    BY <1>1 DEF ExecuteTransaction
  <2>2. /\ verified' \subseteq {Attestation} /\ released' \subseteq {transfer.signed}
        /\ verified # {} => verified' # {}
        /\ released # {} => released' # {}
        /\ tx.kind = "verify" => verified' # {}
        /\ tx.kind = "token" => verified' # {} /\ released' # {}
    BY <1>1, ExecutionSound
  <2>3. watch' = "ok" => watch = "ok" \/ tx = Awaited
    BY <1>1 DEF ExecuteTransaction, Told
  <2>4. tx = Awaited => /\ step = "verifying" => verified' # {}
                        /\ step = "tokening" => released' # {}
    BY <2>2 DEF Awaited, TransferInv, BuiltRight
  <2>5. refused = {}
    BY DEF TransferInv
  <2>6. QED
    BY <2>1, <2>2, <2>3, <2>4, <2>5, ChainMoves
<1>2. ASSUME NEW tx \in pool, RefuseTransaction(tx) PROVE TransferInv'
  <2>1. UNCHANGED <<transfer, options, step, built, vaults, verified, released>>
        /\ pool' \subseteq pool
    BY <1>2 DEF RefuseTransaction
  <2>2. refused' = {}
    BY <1>2, CallsAgree DEF RefuseTransaction, TransferInv
  <2>3. watch' = "ok" => watch = "ok"
    BY <1>2 DEF RefuseTransaction, Told
  <2>4. verified \subseteq {Attestation} /\ released \subseteq {transfer.signed}
    BY DEF TransferInv, ChainRight
  <2>5. QED
    BY <2>1, <2>2, <2>3, <2>4, ChainMoves
<1>3. ASSUME NEW tx \in pool, Drop(tx) PROVE TransferInv'
  <2>1. UNCHANGED <<transfer, options, step, built, vaults, verified, released, refused>>
        /\ pool' \subseteq pool
    BY <1>3 DEF Drop
  <2>2. watch' = "ok" => watch = "ok"
    BY <1>3 DEF Drop, Told
  <2>3. verified \subseteq {Attestation} /\ released \subseteq {transfer.signed}
        /\ refused = {}
    BY DEF TransferInv, ChainRight
  <2>4. QED
    BY <2>1, <2>2, <2>3, ChainMoves
<1>4. CASE Relay
  <2>1. UNCHANGED <<transfer, options, step, built, watch, vaults, refused, pool>>
    BY <1>4 DEF Relay, clientVars
  <2>2. verified \subseteq {Attestation} /\ released \subseteq {transfer.signed}
        /\ refused = {}
    BY DEF TransferInv, ChainRight
  <2>3. verified' \subseteq {Attestation} /\ released' \subseteq {transfer.signed}
        /\ (verified # {} => verified' # {}) /\ (released # {} => released' # {})
    BY <1>4, <2>2 DEF Relay, Attestation
  <2>4. QED
    BY <2>1, <2>2, <2>3, ChainMoves
<1>5. QED
  BY <1>1, <1>2, <1>3, <1>4 DEF Chain

\* A step of the client that sends nothing and changes nothing on chain keeps
\* the invariant when it goes where no more is relied on.
LEMMA ClientMoves ==
  ASSUME TransferInv, UNCHANGED <<transfer, options, chainVars>>,
         \/ step' \notin {"verify", "verifying", "hash", "token", "tokening"}
         \/ /\ step \in {"verify", "verifying", "hash", "token", "tokening"}
            /\ built' = built,
         step' \notin {"verifying", "tokening"},
         ~options.skip =>
           /\ step' \in {"hash", "token"} => verified # {}
           /\ step' = "done" /\ transfer.toSolana => released # {}
  PROVE  TransferInv'
<1> USE DEF TransferInv, chainVars
<1>1. (transfer \in Transfer)' /\ (\A tx \in pool : Rightful(tx))' /\ (refused = {})'
  BY DEF Rightful
<1>2. BuiltRight'
  BY DEF BuiltRight, Rightful
<1>3. ChainRight'
  BY DEF ChainRight, Attestation
<1>4. Confirmed'
  BY DEF Confirmed
<1>5. QED
  BY <1>1, <1>2, <1>3, <1>4

\* A call that fails.
LEMMA FailKeeps == TransferInv /\ Fail => TransferInv'
<1> SUFFICES ASSUME TransferInv, Fail PROVE TransferInv'
  OBVIOUS
<1>1. UNCHANGED <<transfer, options, chainVars>> /\ step' = "failed"
  BY DEF Fail, Go, KeepClient
<1>2. QED
  BY <1>1, ClientMoves

\* The steps before a transaction is built: the lock and the fetch.
LEMMA StartKeeps ==
  ASSUME TransferInv, LockOnSolana \/ LockOnKalvora \/ RequestRegistration \/ Fetch
  PROVE  TransferInv'
<1> USE DEF Go, KeepClient
<1>1. CASE LockOnSolana
  <2>1. /\ UNCHANGED <<transfer, options, pool, verified, released, refused>>
        /\ ~transfer.toSolana /\ step' \in {"fetch", "failed"}
    BY <1>1 DEF LockOnSolana
  <2>2. (transfer \in Transfer)' /\ (\A tx \in pool : Rightful(tx))' /\ (refused = {})'
    BY <2>1 DEF Rightful, TransferInv
  <2>3. BuiltRight' /\ ChainRight' /\ Confirmed'
    BY <2>1 DEF BuiltRight, ChainRight, Attestation, Confirmed, TransferInv
  <2>4. QED
    BY <2>2, <2>3 DEF TransferInv
<1>2. CASE LockOnKalvora
  <2>1. UNCHANGED <<transfer, options, chainVars>> /\ step' \in {"fetch", "failed"}
    BY <1>2 DEF LockOnKalvora
  <2>2. QED
    BY <2>1, ClientMoves
<1>3. CASE RequestRegistration
  <2>1. UNCHANGED <<transfer, options, chainVars>> /\ step' \in {"fetch", "failed"}
    BY <1>3 DEF RequestRegistration
  <2>2. QED
    BY <2>1, ClientMoves
<1>4. CASE Fetch
  <2>1. pc' \in {"resolved", "rejected", "fetch", "sleep"}
    BY <1>4 DEF Fetch, Next, Succeed, AttemptFails, Wake
  <2>2. UNCHANGED <<transfer, options, chainVars>> /\ step' \in {"build", "failed", "fetch"}
    BY <1>4, <2>1 DEF Fetch
  <2>3. QED
    BY <2>2, ClientMoves
<1>5. QED
  BY <1>1, <1>2, <1>3, <1>4

\* The two transactions of a transfer to Solana are built.
LEMMA BuildKeeps == TransferInv /\ BuildForSolana => TransferInv'
<1> SUFFICES ASSUME TransferInv, BuildForSolana, ~Fail PROVE TransferInv'
  BY FailKeeps
<1>1. /\ transfer.toSolana /\ ~Unsupported /\ built' = Builder(transfer)
      /\ step' = "verify"
      /\ UNCHANGED <<transfer, options, chainVars>>
  BY DEF BuildForSolana, Go, KeepClient
<1> USE DEF TransferInv, chainVars
<1>2. /\ Builder(transfer).verify.kind = "verify"
      /\ Builder(transfer).token.kind = "token" /\ Rightful(Builder(transfer).token)
  <2>1. transfer.kind \in {"release", "mint", "contract", "register"}
        /\ ~(transfer.kind \in {"release", "register"} /\ transfer.program = "other")
    BY <1>1 DEF Unsupported
  <2> HIDE DEF TransferInv
  <2>2. transfer \in Transfer
    BY DEF TransferInv
  <2>3. QED
    BY <1>1, <2>1, <2>2, BuildersRight DEF Rightful
<1>3. BuiltRight'
  <2>1. built'.verify.kind = "verify" /\ built'.token.kind = "token" /\ Rightful(built.token)'
    BY <1>1, <1>2 DEF Rightful
  <2>2. QED
    BY <2>1 DEF BuiltRight
<1>4. (transfer \in Transfer)' /\ (\A tx \in pool : Rightful(tx))' /\ (refused = {})'
  BY <1>1 DEF Rightful
<1>5. ChainRight' /\ Confirmed'
  BY <1>1 DEF ChainRight, Attestation, Confirmed
<1>6. QED
  BY <1>3, <1>4, <1>5

\* A transaction is sent; the client goes on, or waits for it.
LEMMA SendKeeps ==
  ASSUME TransferInv, SendVerify \/ SendToken, ~Fail
  PROVE  TransferInv'
<1> USE DEF TransferInv
<1>1. PICK tx \in {built.verify, built.token} :
        /\ pool' = pool \union {tx} /\ Rightful(tx)
        /\ tx.kind = "token" => step = "token"
        /\ UNCHANGED <<transfer, options, built, verified, released, vaults, refused>>
        /\ options.skip => step' \in {"hash", "done"}
        /\ ~options.skip => step' \in {"verifying", "tokening"} /\ watch' = "pending"
        /\ ~options.skip /\ step' = "tokening" => step = "token"
        /\ step \in {"verify", "token"}
  BY DEF SendVerify, SendToken, SendTo, Go, KeepClient, BuiltRight, Rightful
<1>2. (transfer \in Transfer)' /\ (refused = {})'
  BY <1>1
<1>3. (\A t \in pool : Rightful(t))'
  BY <1>1 DEF Rightful
<1>4. BuiltRight' /\ ChainRight'
  BY <1>1 DEF BuiltRight, ChainRight, Attestation, Rightful
<1>5. Confirmed'
  BY <1>1 DEF Confirmed
<1>6. QED
  BY <1>2, <1>3, <1>4, <1>5

\* A confirmation arrives, or the client gives up.
LEMMA ConfirmKeeps == TransferInv /\ (ConfirmVerify \/ ConfirmToken) => TransferInv'
<1> SUFFICES ASSUME TransferInv, ConfirmVerify \/ ConfirmToken, ~Fail PROVE TransferInv'
  BY FailKeeps
<1>1. /\ UNCHANGED <<transfer, options, built, chainVars>> /\ watch = "ok"
      /\ \/ step = "verifying" /\ step' = "hash"
         \/ step = "tokening" /\ step' = "done"
  BY DEF ConfirmVerify, ConfirmToken, Confirm, Go, KeepClient
<1>2. ~options.skip => /\ step' = "hash" => verified # {}
                       /\ step' = "done" => released # {}
  BY <1>1 DEF TransferInv, Confirmed
<1>3. QED
  BY <1>1, <1>2, ClientMoves

\* The second block hash.
LEMMA HashKeeps == TransferInv /\ LatestBlockhash => TransferInv'
<1> SUFFICES ASSUME TransferInv, LatestBlockhash, ~Fail PROVE TransferInv'
  BY FailKeeps
<1>1. UNCHANGED <<transfer, options, built, chainVars>> /\ step = "hash" /\ step' = "token"
  BY DEF LatestBlockhash, Go, KeepClient
<1>2. ~options.skip => verified # {}
  BY <1>1 DEF TransferInv, Confirmed
<1>3. QED
  BY <1>1, <1>2, ClientMoves

\* A transfer to Kalvora is submitted.
LEMMA SubmitKeeps == TransferInv /\ SubmitToKalvora => TransferInv'
<1> SUFFICES ASSUME TransferInv, SubmitToKalvora, ~Fail PROVE TransferInv'
  BY FailKeeps
<1> USE DEF TransferInv
<1>1. /\ pool' = pool \union {KalvoraCall(transfer)} /\ ~transfer.toSolana /\ step' = "done"
      /\ UNCHANGED <<transfer, options, built, verified, released, vaults, refused>>
  BY DEF SubmitToKalvora, Go, KeepClient
<1>2. KalvoraCall(transfer).kind = "kalvora"
  BY DEF KalvoraCall
<1>3. (transfer \in Transfer)' /\ (\A tx \in pool : Rightful(tx))' /\ (refused = {})'
  BY <1>1, <1>2 DEF Rightful
<1>4. BuiltRight' /\ ChainRight'
  BY <1>1 DEF BuiltRight, ChainRight, Attestation
<1>5. Confirmed'
  BY <1>1, <1>2 DEF Confirmed
<1>6. QED
  BY <1>3, <1>4, <1>5

\* The process ends, and the caller calls again.
LEMMA RestartKeeps == TransferInv /\ (Crash \/ CallAgain) => TransferInv'
<1> SUFFICES ASSUME TransferInv, Crash \/ CallAgain PROVE TransferInv'
  OBVIOUS
<1>1. UNCHANGED <<transfer, options, chainVars>> /\ step' \in {"down", "fetch"}
  BY DEF Crash, CallAgain, Go
<1>2. QED
  BY <1>1, ClientMoves

\* Initially nothing is on chain; the vault of a transfer to Solana is the one
\* its tokens were locked in.
LEMMA TransferStart == BridgeInit => TransferInv
<1> SUFFICES ASSUME BridgeInit PROVE TransferInv
  OBVIOUS
<1>1. /\ transfer \in Transfer /\ pool = {} /\ refused = {} /\ step = "lock"
      /\ verified = {} /\ released = {}
      /\ transfer.toSolana => vaults = {LockVault(transfer)}
  BY DEF BridgeInit
<1>2. QED
  BY <1>1 DEF TransferInv, BuiltRight, ChainRight, Confirmed

\* Every step keeps it.
LEMMA TransferStep == TransferInv /\ [BridgeNext]_allVars => TransferInv'
<1> SUFFICES ASSUME TransferInv, [BridgeNext]_allVars PROVE TransferInv'
  OBVIOUS
<1>1. CASE Client
  <2>1. CASE SendVerify \/ SendToken
    BY <2>1, SendKeeps, FailKeeps
  <2>2. QED
    BY <1>1, <2>1, StartKeeps, BuildKeeps, SubmitKeeps, ConfirmKeeps, HashKeeps DEF Client
<1>2. CASE UNCHANGED allVars
  <2>1. UNCHANGED <<transfer, options, step, built, watch, chainVars>>
    BY <1>2 DEF allVars, clientVars
  <2>2. verified \subseteq {Attestation} /\ released \subseteq {transfer.signed}
        /\ refused = {}
    BY DEF TransferInv, ChainRight
  <2>3. QED
    BY <2>1, <2>2, ChainMoves DEF chainVars
<1>3. QED
  BY <1>1, <1>2, ChainKeeps, RestartKeeps DEF BridgeNext

\* The invariant holds in every reachable state.
THEOREM TransferSound == BridgeSpec => []TransferInv
<1>1. QED
  BY TransferStart, TransferStep, PTL DEF BridgeSpec

\* A call that waited for its confirmations and returned has released what the
\* guardians attested (submitVAAToSolana, vaa.ts:353), whatever earlier calls
\* that ended half-way left behind and whoever else submits the VAA.
THEOREM Resolved == BridgeSpec => []ResolvedReleased
<1>1. TransferInv => ResolvedReleased
  <2> SUFFICES ASSUME TransferInv, step = "done", transfer.toSolana, ~options.skip
               PROVE  released = {transfer.signed}
    BY DEF ResolvedReleased
  <2>1. released # {} /\ released \subseteq {transfer.signed}
    BY DEF TransferInv, ChainRight, Confirmed
  <2>2. QED
    BY <2>1
<1>2. QED
  BY <1>1, TransferSound, PTL

\* A release is sent only after what permits it, and the chain never refuses
\* one for what it says (submitVAAToSolana, transactions/release.ts).
THEOREM Releases == BridgeSpec => []ReleasesSound
<1>1. TransferInv => ReleasesSound
  BY DEF TransferInv, Confirmed, ReleasesSound, ReleaseAfterVerify, NeverMismatched
<1>2. QED
  BY <1>1, TransferSound, PTL

-----------------------------------------------------------------------------
(* The fetch within the transfer *)

\* A step of a transfer is a step of a fetch, none, or starts one anew.
LEMMA FetchOrAgain ==
  [BridgeNext]_allVars => [Next]_vars \/ CallAgain
<1> SUFFICES ASSUME [BridgeNext]_allVars, ~CallAgain PROVE [Next]_vars
  OBVIOUS
<1>1. CASE Client
  <2>1. Fail => UNCHANGED vars
    BY DEF Fail
  <2>2. CASE LockOnSolana \/ LockOnKalvora \/ RequestRegistration \/ Fetch
    BY <2>2 DEF LockOnSolana, LockOnKalvora, RequestRegistration, Fetch
  <2>3. CASE BuildForSolana \/ SubmitToKalvora \/ SendVerify \/ SendToken
    BY <2>1, <2>3 DEF BuildForSolana, SubmitToKalvora, SendVerify, SendToken, SendTo
  <2>4. CASE ConfirmVerify \/ LatestBlockhash \/ ConfirmToken
    BY <2>1, <2>4 DEF ConfirmVerify, ConfirmToken, Confirm, LatestBlockhash
  <2>5. QED
    BY <1>1, <2>2, <2>3, <2>4 DEF Client
<1>2. CASE Chain
  BY <1>2 DEF Chain, ExecuteTransaction, RefuseTransaction, Drop, Relay
<1>3. CASE Crash
  BY <1>3 DEF Crash
<1>4. CASE UNCHANGED allVars
  BY <1>4 DEF allVars
<1>5. QED
  BY <1>1, <1>2, <1>3, <1>4 DEF BridgeNext

\* Every fetch of a transfer, the first and those of later calls, starts its
\* attempts within its own maximum, under the same condition.
THEOREM EveryFetchInBudget == BridgeSpec => []AttemptsInBudget
<1>1. BridgeInit => BudgetInv
  BY FreshCall DEF BridgeInit, Init
<1>2. BudgetInv /\ CallAgain => BudgetInv'
  <2> SUFFICES ASSUME BudgetInv, CallAgain PROVE BudgetInv'
    OBVIOUS
  <2>1. /\ pc' = "fetch" /\ now' = 0 /\ delay' = InitialDelay /\ response' = NoResponse
        /\ spins' = FALSE /\ retry' = retry
    BY DEF CallAgain
  <2>2. Clock' /\ Cut' /\ AttemptsInBudget'
    BY <2>1, FetchConstants, SMT DEF BudgetInv, Clock, Cut, AttemptsInBudget
  <2>3. QED
    BY <2>1, <2>2 DEF BudgetInv
<1>3. BudgetInv /\ [BridgeNext]_allVars => BudgetInv'
  BY <1>2, BudgetStep, FetchOrAgain
<1>4. BudgetInv => AttemptsInBudget
  BY DEF BudgetInv
<1>5. QED
  BY <1>1, <1>3, <1>4, PTL DEF BridgeSpec

\* The same of every fetch of a transfer, those of repeated calls included.
THEOREM EveryResult == BridgeSpec => []ResultSound
<1>1. BridgeInit => Resolution
  BY DEF BridgeInit, Init, Resolution
<1>2. CallAgain => Resolution'
  BY DEF CallAgain, Resolution
<1>3. Resolution /\ [BridgeNext]_allVars => Resolution'
  BY <1>2, ResolutionStep, FetchOrAgain
<1> QED BY <1>1, <1>3, ResolutionSound, PTL DEF BridgeSpec
=============================================================================
