------------------------- MODULE SubmitAndWaitProofs -------------------------
(***************************************************************************)
(* The safety properties of SubmitAndWait, for any number of callers, any  *)
(* timeout and any chain.                                                  *)
(***************************************************************************)
EXTENDS SubmitAndWait, TLAPS

\* Before its submission, and for ever when it only searches, a call's
\* transaction is unknown to the node; once in a block it is not in another.
SubmittedOnce ==
  \A c \in Caller :
    /\ pc[c] \in Searching \cup {"idle", "submit"} \/ op[c] # "submitAndWait"
         => c \notin mempool /\ included[c] = -1 /\ delivered[c] = 0
    /\ pc[c] \in Waiting \cup Submitting => op[c] = "submitAndWait"
    /\ included[c] >= 0 => c \notin mempool
    /\ receipt[c] => included[c] >= 0
    /\ included[c] >= -1

\* The wait looks at most one past the tip.
NearTip ==
  \A c \in Caller :
    /\ pc[c] \in Waiting \cup Submitting => height[c] <= tip + 1
    /\ pc[c] \in Submitting => height[c] <= tip

\* A second request is under way only where the fallback is on, and after at
\* most one delivery.
Requests ==
  /\ Accepted(config)
  /\ \A c \in Caller :
       /\ pc[c] = "resubmit" => delivered[c] <= 1 /\ FallsBack(config)
       /\ delivered[c] <= 2
       /\ delivered[c] = 2 => FallsBack(config)

IInv ==
  /\ TypeOK
  /\ SearchBounds
  /\ HintExists
  /\ SubmittedOnce
  /\ NearTip
  /\ WindowHoldsBlock
  /\ ResolvedIsIncluded
  /\ Requests

\* The invariant holds in every initial state of the program.
LEMMA InitInv == Init => IInv
  BY ClientConstants, SMT DEF Init, IInv, TypeOK, SearchBounds, HintExists,
     SubmittedOnce, NearTip, WindowHoldsBlock, ResolvedIsIncluded, Requests,
     Ops, Searching, Submitting, Waiting, Settled

\* A new block breaks no bound of a search and leaves behind no wait.
LEMMA NewBlockInv == ASSUME IInv, NewBlock PROVE IInv'
<1> USE DEF IInv
<1>1. PICK txs \in SUBSET mempool, withReceipt \in SUBSET mempool :
        /\ withReceipt \subseteq txs
        /\ mempool' = mempool \ txs
        /\ included' = [c \in Caller |-> IF c \in txs THEN tip + 1
                                                      ELSE included[c]]
        /\ receipt' = [c \in Caller |-> receipt[c] \/ c \in withReceipt]
  BY DEF NewBlock
<1>2. tip' = tip + 1 /\ UNCHANGED <<hint, pc, op, low, high, step, height,
                                    left, nap, startTip, delivered, config>>
  BY DEF NewBlock, searchVars, waitVars, history
<1>3. TypeOK'
  BY <1>1, <1>2, SMT DEF TypeOK
<1>4. SearchBounds' /\ HintExists' /\ NearTip'
  BY <1>2, SMT DEF TypeOK, SearchBounds, HintExists, NearTip
<1>5. SubmittedOnce' /\ Requests'
  BY <1>1, <1>2, SMT DEF TypeOK, SubmittedOnce, Requests, Submitting
<1>6. WindowHoldsBlock'
  BY <1>1, <1>2, SMT DEF TypeOK, NearTip, WindowHoldsBlock, Waiting, Submitting
<1>7. ResolvedIsIncluded'
  <2> SUFFICES ASSUME NEW c \in Caller, pc'[c] = "resolved",
                      op'[c] = "submitAndWait"
               PROVE included'[c] = height'[c] /\ receipt'[c]
                     /\ height'[c] <= tip'
    BY DEF ResolvedIsIncluded
  <2>1. included[c] = height[c] /\ receipt[c] /\ height[c] <= tip
    BY <1>2 DEF ResolvedIsIncluded
  <2>2. c \notin txs
    BY <1>1, <2>1, SMT DEF TypeOK, SubmittedOnce
  <2>3. QED
    BY <1>1, <1>2, <2>1, <2>2, SMT DEF TypeOK
<1>8. QED
  BY <1>3, <1>4, <1>5, <1>6, <1>7

\* Time alone changes nothing the properties speak of.
LEMMA TickInv == ASSUME IInv, Tick PROVE IInv'
  BY SMT DEF IInv, Tick, TypeOK, SearchBounds, HintExists, SubmittedOnce,
     NearTip, WindowHoldsBlock, ResolvedIsIncluded, Requests, chainVars,
     searchVars, history

\* The steps of getLatestBlockHeight up to the last.
LEMMA SearchInv ==
  ASSUME IInv, NEW c \in Caller,
         \/ \E f \in Ops, h \in 0..MaxHeight : Start(c, f, h)
         \/ ProbeHint(c) \/ ProbeGenesis(c) \/ Grow(c) \/ Bisect(c)
  PROVE  IInv'
<1> USE ClientConstants DEF IInv
<1>1. UNCHANGED <<tip, mempool, included, receipt, hint, height, left, nap,
                  delivered, config>>
  BY DEF Start, ProbeHint, ProbeGenesis, Grow, Bisect, chainVars, waitVars,
     history
<1>2. /\ \E l \in Searching \cup {"rejected"} : pc' = [pc EXCEPT ![c] = l]
      /\ pc[c] \in Searching \cup {"idle"}
  BY DEF TypeOK, Start, ProbeHint, ProbeGenesis, BeginGrow, Grow, Bisect, Goto,
     Searching
<1>3. op' \in [Caller -> Ops] /\ \A d \in Caller : d # c => op'[d] = op[d]
  BY DEF TypeOK, Start, ProbeHint, ProbeGenesis, BeginGrow, Grow, Bisect
<1>4. TypeOK' /\ SearchBounds'
  <2>1. CASE \E f \in Ops, h \in 0..MaxHeight : Start(c, f, h)
    BY <2>1, <1>1, SMT DEF Start, Goto, TypeOK, SearchBounds, Searching
  <2>2. CASE ProbeHint(c)
    BY <2>2, <1>1, SMT DEF ProbeHint, BeginGrow, HasBlock, Goto, TypeOK,
       SearchBounds, Searching, Settled, searchVars, history
  <2>3. CASE ProbeGenesis(c)
    BY <2>3, <1>1, SMT DEF ProbeGenesis, BeginGrow, HasBlock, Goto, TypeOK,
       SearchBounds, Searching, Settled, searchVars, history
  <2>4. CASE Grow(c)
    BY <2>4, <1>1, SMT DEF Grow, HasBlock, Goto, TypeOK, SearchBounds,
       Searching, searchVars, history
  <2>5. CASE Bisect(c)
    BY <2>5, <1>1, SMT DEF Bisect, HasBlock, TypeOK, SearchBounds, Searching,
       history
  <2>6. QED
    BY <2>1, <2>2, <2>3, <2>4, <2>5
<1>5. HintExists'
  BY <1>1 DEF HintExists
<1>6. SubmittedOnce' /\ NearTip' /\ WindowHoldsBlock' /\ ResolvedIsIncluded'
      /\ Requests'
  BY <1>1, <1>2, <1>3, SMT DEF TypeOK, SubmittedOnce, NearTip, Searching,
     Submitting, Waiting, WindowHoldsBlock, ResolvedIsIncluded, Requests
<1>7. QED
  BY <1>4, <1>5, <1>6

\* The height found is one of the chain when it becomes the hint.
LEMMA FoundLatestInv ==
  ASSUME IInv, NEW c \in Caller, FoundLatest(c) PROVE IInv'
<1> USE DEF IInv
<1>1. low[c] \in Nat /\ low[c] <= tip
  BY DEF FoundLatest, TypeOK, SearchBounds
<1>2. TypeOK'
  BY <1>1, SMT DEF TypeOK, FoundLatest, Goto, chainVars, searchVars, Settled,
     Submitting, history
<1>3. SearchBounds' /\ HintExists'
  BY <1>1, SMT DEF TypeOK, FoundLatest, Goto, chainVars, searchVars, history,
     SearchBounds, HintExists, Searching
<1>4. SubmittedOnce' /\ NearTip' /\ WindowHoldsBlock' /\ ResolvedIsIncluded'
      /\ Requests'
  BY <1>1, SMT DEF TypeOK, FoundLatest, Goto, chainVars, searchVars, history,
     SubmittedOnce, NearTip, WindowHoldsBlock, ResolvedIsIncluded, Requests,
     Searching, Submitting, Waiting
<1>5. QED
  BY <1>2, <1>3, <1>4

\* A submission, and its second request, is of a transaction no block below
\* the start of the wait can hold.
LEMMA SubmitInv ==
  ASSUME IInv, NEW c \in Caller, Submit(c) \/ Resubmit(c) PROVE IInv'
<1> USE ClientConstants DEF IInv
<1>1. PICK lost \in {"resubmit", "rejected"} :
        /\ Fetch(c, lost)
        /\ pc[c] \in Submitting
        /\ lost = "resubmit" => pc[c] = "submit" /\ FallsBack(config)
        /\ pc[c] = "resubmit" => FallsBack(config)
  BY DEF Submit, Resubmit, Submitting, Requests
<1>2. UNCHANGED <<tip, included, receipt, hint, op, low, high, step, height, nap,
                  startTip, config>>
  BY <1>1 DEF Fetch, searchVars
<1>3. PICK l \in {"poll", lost} : pc' = [pc EXCEPT ![c] = l]
  BY <1>1 DEF Fetch, Answered, Goto
<1>4. /\ mempool' \in {mempool, mempool \cup {c}}
      /\ included[c] # -1 => mempool' = mempool
      /\ delivered' \in {delivered, [delivered EXCEPT ![c] = @ + 1]}
      /\ left' \in {left, [left EXCEPT ![c] = Timeout]}
  BY <1>1 DEF Fetch, Answered, Deliver
<1>5. TypeOK'
  BY <1>2, <1>3, <1>4, SMT DEF TypeOK, Waiting, Submitting, Settled
<1>6. SearchBounds' /\ HintExists'
  BY <1>2, <1>3, SMT DEF TypeOK, SearchBounds, HintExists, Searching
<1>7. op[c] = "submitAndWait" /\ height[c] <= tip
  BY <1>1 DEF SubmittedOnce, NearTip
<1>8. SubmittedOnce'
  BY <1>1, <1>2, <1>3, <1>4, <1>7, SMT DEF TypeOK, SubmittedOnce, Searching,
     Submitting, Waiting
<1>9. NearTip'
  BY <1>2, <1>3, <1>7, SMT DEF TypeOK, NearTip, Submitting, Waiting
<1>10. WindowHoldsBlock'
  BY <1>1, <1>2, <1>3, SMT DEF TypeOK, WindowHoldsBlock, SubmittedOnce,
     Submitting, Waiting
<1>11. ResolvedIsIncluded'
  BY <1>1, <1>2, <1>3, SMT DEF TypeOK, ResolvedIsIncluded
<1>12. Requests'
  <2>1. delivered[c] <= 1 /\ (pc[c] = "submit" => delivered[c] = 0)
    BY <1>1 DEF Requests, SubmittedOnce, Submitting
  <2>2. l = "resubmit" => pc[c] = "submit" /\ FallsBack(config)
    BY <1>1
  <2>3. QED
    BY <1>1, <1>2, <1>3, <1>4, <2>1, <2>2, SMT DEF TypeOK, Requests, Submitting
<1>13. QED
  BY <1>5, <1>6, <1>8, <1>9, <1>10, <1>11, <1>12

\* A poll returns the result or leaves a block that does not hold it.
LEMMA PollInv ==
  ASSUME IInv, NEW c \in Caller,
         PollFound(c) \/ PollMissing(c) \/ Wake(c) \/ Fail(c) \/ Again(c)
  PROVE  IInv'
<1> USE ClientConstants DEF IInv
<1>1. CASE PollFound(c)
  <2>1. TypeOK'
    BY <1>1, SMT DEF TypeOK, PollFound, Goto, chainVars, searchVars, history, Settled
  <2>2. SearchBounds' /\ HintExists'
    BY <1>1, SMT DEF TypeOK, PollFound, HasBlock, Goto, chainVars, searchVars, history,
       SearchBounds, HintExists, Searching
  <2>3. SubmittedOnce' /\ NearTip' /\ Requests'
    BY <1>1, SMT DEF TypeOK, PollFound, HasBlock, Goto, chainVars, history,
       SubmittedOnce, NearTip, Requests, Searching, Submitting, Waiting
  <2>4. WindowHoldsBlock' /\ ResolvedIsIncluded'
    BY <1>1, SMT DEF TypeOK, PollFound, HasBlock, HasResult, Goto, chainVars,
       WindowHoldsBlock, ResolvedIsIncluded, Waiting, Submitting
  <2>5. QED
    BY <2>1, <2>2, <2>3, <2>4
<1>2. CASE PollMissing(c) \/ Wake(c)
  <2>1. TypeOK'
    BY <1>2, SMT DEF TypeOK, PollMissing, Wake, Goto, chainVars, searchVars, history,
       waitVars, Waiting, Settled
  <2>2. SearchBounds' /\ HintExists'
    BY <1>2, SMT DEF TypeOK, PollMissing, Wake, Goto, chainVars, searchVars, history,
       SearchBounds, HintExists, Searching
  <2>3. SubmittedOnce' /\ NearTip' /\ WindowHoldsBlock' /\ ResolvedIsIncluded'
        /\ Requests'
    BY <1>2, SMT DEF TypeOK, PollMissing, Wake, Goto, chainVars, waitVars,
       history, Requests, Submitting, SubmittedOnce, NearTip, WindowHoldsBlock, ResolvedIsIncluded,
       Searching, Waiting
  <2>4. QED
    BY <2>1, <2>2, <2>3
<1>3. CASE Fail(c) \/ Again(c)
  <2>1. TypeOK'
    BY <1>3, SMT DEF TypeOK, Fail, Again, Goto, chainVars, searchVars, history,
       waitVars, Settled
  <2>2. SearchBounds' /\ HintExists'
    BY <1>3, SMT DEF TypeOK, Fail, Again, Goto, chainVars, searchVars, history,
       SearchBounds, HintExists, Searching
  <2>3. SubmittedOnce' /\ NearTip' /\ WindowHoldsBlock' /\ ResolvedIsIncluded'
        /\ Requests'
    BY <1>3, SMT DEF TypeOK, Fail, Again, Goto, chainVars, waitVars,
       history, Requests, Submitting, SubmittedOnce, NearTip, WindowHoldsBlock, ResolvedIsIncluded,
       Searching, Waiting, Settled
  <2>4. QED
    BY <2>1, <2>2, <2>3
<1>4. QED
  BY <1>1, <1>2, <1>3

\* Every step keeps the invariant: one case per action of Next.
LEMMA Inductive == IInv /\ [Next]_vars => IInv'
<1> SUFFICES ASSUME IInv, [Next]_vars PROVE IInv'
  OBVIOUS
<1>1. CASE UNCHANGED vars
  BY <1>1, SMT DEF vars, chainVars, searchVars, waitVars, history, IInv, TypeOK,
     SearchBounds, HintExists, SubmittedOnce, NearTip, WindowHoldsBlock,
     ResolvedIsIncluded, Requests
<1>2. CASE Next
  BY <1>2, NewBlockInv, TickInv, SearchInv, FoundLatestInv, SubmitInv, PollInv
     DEF Next, Proceed
<1>3. QED
  BY <1>1, <1>2

\* Every reachable state satisfies the inductive invariant.
THEOREM Invariant == Spec => []IInv
  BY InitInv, Inductive, PTL DEF Spec

\* Every variable keeps its type, for any callers, timeout and chain.
THEOREM TypeCorrect == Spec => []TypeOK
  BY Invariant, PTL DEF IInv

\* The lower end of a search is a block, its upper end was not one when the
\* search began, however the chain grows (api-client.ts:620-641).
THEOREM SearchBounded == Spec => []SearchBounds
  BY Invariant, PTL DEF IInv

\* What a search returns exists and is no older than the tip was at its start
\* (api-client.ts:640).
THEOREM LatestFound == Spec => []LatestIsCurrent
<1>1. IInv => LatestIsCurrent
  BY SMT DEF IInv, TypeOK, SearchBounds, LatestIsCurrent
<1>2. QED
  BY <1>1, Invariant, PTL

\* The hint the calls of one client share always names a block of the chain
\* (kalvora-client.ts:111-114, 148).
THEOREM HintValid == Spec => []HintExists
  BY Invariant, PTL DEF IInv

\* A wait never passes the block that holds its result
\* (kalvora-client.ts:129, api-client.ts:669-694).
THEOREM WindowSound == Spec => []WindowHoldsBlock
  BY Invariant, PTL DEF IInv

\* A call resolves only with the block that holds its own transaction's status
\* (api-client.ts:684-685).
THEOREM ResolvedCorrect == Spec => []ResolvedIsIncluded
  BY Invariant, PTL DEF IInv

\* A submission reaches the node at most twice, and twice only from a local
\* host that was configured to fall back (client-factory.ts:174-177, 190).
THEOREM RequestedOnce == Spec => []DeliveredOnce
<1>1. IInv => DeliveredOnce
  BY DEF IInv, Requests, DeliveredOnce, FallsBack, Accepted
<1>2. QED
  BY <1>1, Invariant, PTL

-----------------------------------------------------------------------------
(* SubmitAndWait implements SubmitOnce *)

\* The abstract values of a transaction and of its call.
StatusOf(c) == IF included[c] >= 0
               THEN IF receipt[c] THEN "confirmed" ELSE "included"
               ELSE IF c \in mempool THEN "sent" ELSE "new"
ReplyOf(c) == IF op[c] = "submitAndWait" /\ pc[c] \in Settled THEN pc[c] ELSE "none"

\* The variables of SubmitOnce, as Promise gives them.
Promised == <<[c \in Caller |-> IF included[c] >= 0
                                THEN IF receipt[c] THEN "confirmed" ELSE "included"
                                ELSE IF c \in mempool THEN "sent" ELSE "new"],
              [c \in Caller |-> IF op[c] = "submitAndWait" /\ pc[c] \in Settled
                                THEN pc[c] ELSE "none"]>>

\* The initial states are those of the promise.
LEMMA InitPromise == Init => Promise!Init
  BY SMT DEF Init, Promise!Init, Settled

\* A block includes what was sent.
LEMMA NewBlockPromise == ASSUME IInv, NewBlock PROVE Promise!Next
<1>1. PICK txs \in SUBSET mempool, withReceipt \in SUBSET mempool :
        /\ withReceipt \subseteq txs
        /\ mempool' = mempool \ txs
        /\ included' = [c \in Caller |-> IF c \in txs THEN tip + 1
                                                      ELSE included[c]]
        /\ receipt' = [c \in Caller |-> receipt[c] \/ c \in withReceipt]
  BY DEF NewBlock
<1>2. UNCHANGED <<pc, op>>
  BY DEF NewBlock
<1>3. TypeOK /\ SubmittedOnce
  BY DEF IInv
<1>4. ASSUME NEW c \in txs PROVE StatusOf(c) = "sent"
  BY <1>3, SMT DEF TypeOK, SubmittedOnce, StatusOf
<1>5. ASSUME NEW c \in Caller
      PROVE StatusOf(c)' = IF c \in withReceipt THEN "confirmed"
                           ELSE IF c \in txs THEN "included" ELSE StatusOf(c)
  <2>1. CASE c \in txs
    <3>1. included'[c] = tip + 1 /\ tip + 1 >= 0 /\ receipt'[c] = (receipt[c] \/ c \in withReceipt)
      BY <1>1, <1>3, <2>1, SMT DEF TypeOK
    <3>2. ~receipt[c]
      BY <1>3, <2>1, SMT DEF TypeOK, SubmittedOnce
    <3>3. QED
      BY <3>1, <3>2, <2>1 DEF StatusOf
  <2>2. CASE c \notin txs
    BY <1>1, <1>3, <2>2, SMT DEF TypeOK, StatusOf
  <2>3. QED
    BY <2>1, <2>2
<1>6. [c \in Caller |-> StatusOf(c)]'
        = [c \in Caller |-> IF c \in withReceipt THEN "confirmed"
                            ELSE IF c \in txs THEN "included" ELSE StatusOf(c)]
  BY <1>5
<1>7. [c \in Caller |-> ReplyOf(c)]' = [c \in Caller |-> ReplyOf(c)]
  BY <1>2 DEF ReplyOf
<1>8. txs \in SUBSET Caller /\ withReceipt \in SUBSET Caller
  BY <1>1, <1>3 DEF TypeOK
<1>9. Promise!Include(txs, withReceipt)
  <2>1. \A c \in txs : [d \in Caller |-> StatusOf(d)][c] = "sent"
    BY <1>4, <1>8
  <2>2. [c \in Caller |-> StatusOf(c)]'
          = [c \in Caller |-> IF c \in withReceipt THEN "confirmed"
                              ELSE IF c \in txs THEN "included"
                              ELSE [d \in Caller |-> StatusOf(d)][c]]
    BY <1>6
  <2>3. QED
    BY <1>1, <1>7, <2>1, <2>2 DEF Promise!Include, StatusOf, ReplyOf
<1>10. QED
  BY <1>8, <1>9 DEF Promise!Next

\* A step that leaves the chain alone and at most answers one call.
LEMMA AnswerPromise ==
  ASSUME TypeOK, NEW c \in Caller, UNCHANGED <<mempool, included, receipt>>,
         \A d \in Caller \ {c} : ReplyOf(d)' = ReplyOf(d),
         \/ ReplyOf(c)' = ReplyOf(c)
         \/ ReplyOf(c) = "none" /\ ReplyOf(c)' = "rejected"
         \/ ReplyOf(c) = "none" /\ ReplyOf(c)' = "resolved" /\ StatusOf(c) = "confirmed"
  PROVE  [Promise!Next]_Promised
<1> DEFINE status == [d \in Caller |-> StatusOf(d)]
           reply == [d \in Caller |-> ReplyOf(d)]
<1>1. status' = status
  BY DEF StatusOf
<1>2. CASE ReplyOf(c)' = ReplyOf(c)
  <2>1. reply' = reply
    BY <1>2
  <2>2. QED
    BY <1>1, <2>1 DEF Promised, StatusOf, ReplyOf
<1>3. CASE ReplyOf(c) = "none" /\ ReplyOf(c)' = "rejected"
  <2>1. reply' = [reply EXCEPT ![c] = "rejected"]
    <3>1. \A d \in Caller : ReplyOf(d)' = IF d = c THEN "rejected" ELSE ReplyOf(d)
      BY <1>3
    <3>2. QED
      BY <3>1
  <2>2. Promise!Reject(c)
    BY <1>1, <1>3, <2>1 DEF Promise!Reject, StatusOf, ReplyOf
  <2>3. QED
    BY <2>2 DEF Promise!Next
<1>4. CASE ReplyOf(c) = "none" /\ ReplyOf(c)' = "resolved" /\ StatusOf(c) = "confirmed"
  <2>1. reply' = [reply EXCEPT ![c] = "resolved"]
    BY <1>4
  <2>2. Promise!Resolve(c)
    BY <1>1, <1>4, <2>1 DEF Promise!Resolve, StatusOf, ReplyOf
  <2>3. QED
    BY <2>2 DEF Promise!Next
<1>5. QED
  BY <1>2, <1>3, <1>4

\* The steps of a search, and the end of a call that never submitted.
LEMMA SearchPromise ==
  ASSUME IInv, NEW c \in Caller,
         \/ \E f \in Ops, h \in 0..MaxHeight : Start(c, f, h)
         \/ ProbeHint(c) \/ ProbeGenesis(c) \/ Grow(c) \/ Bisect(c)
         \/ FoundLatest(c) \/ Again(c) \/ Fail(c)
  PROVE  [Promise!Next]_Promised
<1>1. TypeOK
  BY DEF IInv
<1>2. UNCHANGED <<mempool, included, receipt>>
  BY DEF Start, ProbeHint, ProbeGenesis, Grow, Bisect, FoundLatest, Again, Fail, chainVars
<1>3. /\ \A d \in Caller \ {c} : pc'[d] = pc[d] /\ op'[d] = op[d]
      /\ \/ pc'[c] \notin Settled /\ pc[c] \notin Settled
         \/ pc[c] \notin Settled /\ pc'[c] = "rejected" /\ op'[c] = op[c]
         \/ op[c] # "submitAndWait" /\ op'[c] = op[c]
  <2>1. CASE \E f \in Ops, h \in 0..MaxHeight : Start(c, f, h)
    BY <1>1, <2>1, SMT DEF TypeOK, Start, Goto, Settled
  <2>2. CASE ProbeHint(c) \/ ProbeGenesis(c)
    BY <1>1, <2>2, SMT DEF TypeOK, ProbeHint, ProbeGenesis, BeginGrow, Goto, Settled
  <2>3. CASE Grow(c) \/ Bisect(c)
    BY <1>1, <2>3, SMT DEF TypeOK, Grow, Bisect, Goto, Settled
  <2>4. CASE FoundLatest(c)
    BY <1>1, <2>4, SMT DEF TypeOK, FoundLatest, Goto, Settled
  <2>5. CASE Again(c) \/ Fail(c)
    BY <1>1, <2>5, SMT DEF TypeOK, Again, Fail, Goto, Settled, Searching, Waiting, Submitting
  <2>6. QED
    BY <2>1, <2>2, <2>3, <2>4, <2>5
<1>4. \A d \in Caller \ {c} : ReplyOf(d)' = ReplyOf(d)
  BY <1>3 DEF ReplyOf
<1>5. ReplyOf(c)' = ReplyOf(c) \/ (ReplyOf(c) = "none" /\ ReplyOf(c)' = "rejected")
  BY <1>3 DEF ReplyOf, Settled
<1>6. QED
  BY <1>1, <1>2, <1>4, <1>5, AnswerPromise

\* The steps of a wait.
LEMMA WaitPromise ==
  ASSUME IInv, NEW c \in Caller, PollFound(c) \/ PollMissing(c) \/ Wake(c)
  PROVE  [Promise!Next]_Promised
<1>1. TypeOK
  BY DEF IInv
<1>2. UNCHANGED <<mempool, included, receipt, op>>
  BY DEF PollFound, PollMissing, Wake, chainVars
<1>3. /\ \A d \in Caller \ {c} : pc'[d] = pc[d]
      /\ pc[c] \notin Settled
      /\ pc'[c] = "resolved" => included[c] = height[c] /\ receipt[c]
      /\ pc'[c] \in {"resolved", "rejected", "poll", "sleep"}
  <2>1. CASE PollFound(c)
    BY <1>1, <2>1, SMT DEF TypeOK, PollFound, HasResult, Goto, Settled
  <2>2. CASE PollMissing(c) \/ Wake(c)
    BY <1>1, <2>2, SMT DEF TypeOK, PollMissing, Wake, Goto, Settled
  <2>3. QED
    BY <2>1, <2>2
<1>4. pc'[c] = "resolved" => StatusOf(c) = "confirmed"
  BY <1>1, <1>3, SMT DEF TypeOK, StatusOf
<1>5. \A d \in Caller \ {c} : ReplyOf(d)' = ReplyOf(d)
  BY <1>2, <1>3 DEF ReplyOf
<1>6. ReplyOf(c) = "none"
  BY <1>3 DEF ReplyOf
<1>7. ReplyOf(c)' \in {"none", pc'[c]} /\ (ReplyOf(c)' # "none" => pc'[c] \in Settled)
  BY DEF ReplyOf
<1>8. QED
  BY <1>1, <1>2, <1>3, <1>4, <1>5, <1>6, <1>7, AnswerPromise DEF Settled

\* A request that reaches the node sends the transaction, or repeats it.
LEMMA SubmitPromise ==
  ASSUME IInv, NEW c \in Caller, Submit(c) \/ Resubmit(c)
  PROVE  [Promise!Next]_Promised
<1> DEFINE status == [d \in Caller |-> StatusOf(d)]
           reply == [d \in Caller |-> ReplyOf(d)]
<1>1. TypeOK /\ SubmittedOnce
  BY DEF IInv
<1>2. PICK lost \in {"resubmit", "rejected"} : Fetch(c, lost) /\ pc[c] \in Submitting
  BY DEF Submit, Resubmit, Submitting
<1>3. UNCHANGED <<included, receipt, op>>
  BY <1>2 DEF Fetch
<1>4. PICK l \in {"poll", lost} : pc' = [pc EXCEPT ![c] = l]
  BY <1>2 DEF Fetch, Answered, Goto
<1>5. /\ \A d \in Caller \ {c} : ReplyOf(d)' = ReplyOf(d)
      /\ ReplyOf(c) = "none"
      /\ ReplyOf(c)' \in {"none", "rejected"}
  BY <1>1, <1>2, <1>3, <1>4, SMT DEF TypeOK, ReplyOf, Settled, Submitting
<1>6. CASE mempool' = mempool
  BY <1>1, <1>3, <1>5, <1>6, AnswerPromise
<1>7. CASE mempool' # mempool
  <2>1. mempool' = mempool \cup {c} /\ c \notin mempool /\ included[c] = -1
    BY <1>2, <1>7 DEF Fetch, Deliver
  <2>2. StatusOf(c) = "new" /\ StatusOf(c)' = "sent"
    BY <1>1, <1>3, <2>1, SMT DEF TypeOK, StatusOf
  <2>3. \A d \in Caller \ {c} : StatusOf(d)' = StatusOf(d)
    BY <1>3, <2>1 DEF StatusOf
  <2>4. status' = [status EXCEPT ![c] = "sent"]
    BY <2>2, <2>3
  <2>5. reply' = reply \/ reply' = [reply EXCEPT ![c] = "rejected"]
    BY <1>5
  <2>6. Promise!Send(c)
    BY <1>5, <2>2, <2>4, <2>5 DEF Promise!Send, StatusOf, ReplyOf
  <2>7. QED
    BY <2>6 DEF Promise!Next
<1>8. QED
  BY <1>6, <1>7

\* Whatever the transport repeats and the search finds, submitAndWait keeps
\* the promise of SubmitOnce (kalvora-client.ts:132-153).
THEOREM ImplementsPromise == Spec => KeepsPromise
<1>1. ASSUME IInv, [Next]_vars PROVE [Promise!Next]_Promised
  <2>1. CASE UNCHANGED vars
    BY <2>1 DEF vars, chainVars, Promised
  <2>2. CASE NewBlock
    BY <1>1, <2>2, NewBlockPromise
  <2>3. CASE Tick
    BY <2>3 DEF Tick, chainVars, Promised
  <2>4. ASSUME NEW c \in Caller,
               \/ Proceed(c) \/ Fail(c) \/ Again(c)
               \/ \E f \in Ops, h \in 0..MaxHeight : Start(c, f, h)
        PROVE [Promise!Next]_Promised
    BY <1>1, <2>4, SearchPromise, WaitPromise, SubmitPromise DEF Proceed
  <2>5. QED
    BY <1>1, <2>1, <2>2, <2>3, <2>4 DEF Next
<1>2. QED
  BY <1>1, InitPromise, Invariant, PTL DEF Spec, KeepsPromise, Promise!Spec, Promised
=============================================================================
