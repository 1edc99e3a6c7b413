---------------------------- MODULE SubmitAndWait ----------------------------
(***************************************************************************)
(* KalvoraClient.submitAndWait and getLatestBlockHeight                    *)
(* (client/kalvora-client.ts) over the queries they are made of            *)
(* (query/api-client.ts): hasBlock, the search for the latest height and   *)
(* waitForTransaction.                                                     *)
(*                                                                         *)
(* A submission travels over the transport of grpc/client-factory.ts,      *)
(* which may send it a second time over HTTP.                              *)
(*                                                                         *)
(* Callers share one client, hence its height hint.  The node is external: *)
(* it appends blocks while the calls run, and puts submitted transactions  *)
(* in later blocks, in any order, with or without a processing receipt, or *)
(* never.  A step of a caller is one RPC or one timer; the answer is that  *)
(* of the node at that moment.  Time is what is left to each deadline.     *)
(***************************************************************************)
EXTENDS Integers

CONSTANTS
  Caller,     \* concurrent calls; the transaction of a caller is its own
  Timeout,    \* options.timeoutMs, in ticks
  Poll,       \* options.pollIntervalMs, in ticks
  Config,     \* GRPCConfig: [https, fallbackToHttp, local, nodeJs]
  MaxHeight   \* bound: blocks the node produces

ASSUME ClientConstants == Timeout \in Nat /\ Poll \in Nat /\ MaxHeight \in Nat

VARIABLES
  config,    \* the transport's configuration
  tip,       \* height of the node's last block, -1 for an empty chain
  mempool,   \* transactions the node has accepted and not yet included
  included,  \* height of the block that contains the transaction, -1 if none
  receipt,   \* does that block carry its status?
  hint,      \* KalvoraClient.heightHint
  pc,        \* where each call is
  op,        \* the API function called
  low, high, step,   \* locals of getLatestBlockHeight
  height,    \* the block waitForTransaction looks at next
  left,      \* time left to its deadline, -1 once it is over
  nap,       \* time left of its sleep
  startTip,  \* history: the tip when the search began
  delivered  \* history: how often the submission reached the node

chainVars == <<tip, mempool, included, receipt>>
searchVars == <<low, high, step>>
waitVars == <<height, left, nap>>
history == <<startTip, delivered>>
vars == <<config, chainVars, hint, pc, op, searchVars, waitVars, history>>

Ops == {"submitAndWait", "client.getLatestBlockHeight",
        "query.getLatestBlockHeight"}

Searching == {"hint", "genesis", "grow", "bisect"}
Submitting == {"submit", "resubmit"}
Waiting == {"poll", "sleep"}
Settled == {"resolved", "rejected"}

HasBlock(h) == h <= tip

\* Mutant: a block without a status for the transaction counts as its block.
HasResultAny(c, h) == included[c] = h

\* The block at h carries an explicit status for the transaction of c.
HasResult(c, h) == included[c] = h /\ receipt[c]

Goto(c, label) == pc' = [pc EXCEPT ![c] = label]

-----------------------------------------------------------------------------
(* The node *)

NewBlock ==
  /\ tip < MaxHeight
  /\ tip' = tip + 1
  /\ \E txs \in SUBSET mempool, withReceipt \in SUBSET mempool :
       /\ withReceipt \subseteq txs
       /\ mempool' = mempool \ txs
       /\ included' = [c \in Caller |-> IF c \in txs THEN tip + 1
                                                     ELSE included[c]]
       /\ receipt' = [c \in Caller |-> receipt[c] \/ c \in withReceipt]
  /\ UNCHANGED <<hint, pc, op, searchVars, waitVars, history, config>>

Tick ==
  /\ left' = [c \in Caller |-> IF left[c] < 0 THEN -1 ELSE left[c] - 1]
  /\ nap' = [c \in Caller |-> IF nap[c] = 0 THEN 0 ELSE nap[c] - 1]
  /\ UNCHANGED <<chainVars, hint, pc, op, searchVars, height, history, config>>

-----------------------------------------------------------------------------
(* getLatestBlockHeight *)

\* A call through the client starts at the shared hint; the query client's
\* own function takes any hint its caller passes.
Start(c, f, h) ==
  /\ pc[c] = "idle"
  /\ f = "query.getLatestBlockHeight" \/ h = hint
  /\ Goto(c, "hint")
  /\ op' = [op EXCEPT ![c] = f]
  /\ low' = [low EXCEPT ![c] = h]
  /\ startTip' = [startTip EXCEPT ![c] = tip]
  /\ UNCHANGED <<config, chainVars, hint, high, step, waitVars, delivered>>

BeginGrow(c, from) ==
  /\ Goto(c, "grow")
  /\ low' = [low EXCEPT ![c] = from]
  /\ step' = [step EXCEPT ![c] = 1]
  /\ high' = [high EXCEPT ![c] = from + 1]

ProbeHint(c) ==
  /\ pc[c] = "hint"
  /\ \/ HasBlock(low[c]) /\ BeginGrow(c, low[c])
     \/ /\ ~HasBlock(low[c]) /\ low[c] # 0
        /\ Goto(c, "genesis") /\ UNCHANGED searchVars
     \/ /\ ~HasBlock(low[c]) /\ low[c] = 0
        /\ Goto(c, "rejected") /\ UNCHANGED searchVars
  /\ UNCHANGED <<chainVars, hint, op, waitVars, history, config>>

ProbeGenesis(c) ==
  /\ pc[c] = "genesis"
  /\ \/ HasBlock(0) /\ BeginGrow(c, 0)
     \/ ~HasBlock(0) /\ Goto(c, "rejected") /\ UNCHANGED searchVars
  /\ UNCHANGED <<chainVars, hint, op, waitVars, history, config>>

\* One probe of the exponential search.
Grow(c) ==
  /\ pc[c] = "grow"
  /\ \/ /\ HasBlock(high[c])
        /\ low' = [low EXCEPT ![c] = high[c]]
        /\ step' = [step EXCEPT ![c] = 2 * @]
        /\ high' = [high EXCEPT ![c] = high[c] + 2 * step[c]]
        /\ UNCHANGED pc
     \/ ~HasBlock(high[c]) /\ Goto(c, "bisect") /\ UNCHANGED searchVars
  /\ UNCHANGED <<chainVars, hint, op, waitVars, history, config>>

\* Mutant: the upper end moves one below the missing block.
BisectBelow(c) ==
  /\ pc[c] = "bisect"
  /\ high[c] - low[c] > 1
  /\ LET mid == low[c] + ((high[c] - low[c]) \div 2)
     IN IF HasBlock(mid)
        THEN low' = [low EXCEPT ![c] = mid] /\ UNCHANGED high
        ELSE high' = [high EXCEPT ![c] = mid - 1] /\ UNCHANGED low
  /\ UNCHANGED <<chainVars, hint, pc, op, step, waitVars, history, config>>

\* One probe of the binary search.
Bisect(c) ==
  /\ pc[c] = "bisect"
  /\ high[c] - low[c] > 1
  /\ LET mid == low[c] + ((high[c] - low[c]) \div 2)
     IN IF HasBlock(mid)
        THEN low' = [low EXCEPT ![c] = mid] /\ UNCHANGED high
        ELSE high' = [high EXCEPT ![c] = mid] /\ UNCHANGED low
  /\ UNCHANGED <<chainVars, hint, pc, op, step, waitVars, history, config>>

\* The search returns low.  The client stores it as its hint, whatever
\* another call has stored since; submitAndWait goes on to submit.
FoundLatest(c) ==
  /\ pc[c] = "bisect"
  /\ high[c] - low[c] <= 1
  /\ hint' = IF op[c] = "query.getLatestBlockHeight" THEN hint ELSE low[c]
  /\ Goto(c, IF op[c] = "submitAndWait" THEN "submit" ELSE "resolved")
  /\ height' = [height EXCEPT ![c] = low[c]]
  /\ UNCHANGED <<chainVars, op, searchVars, left, nap, history, config>>

-----------------------------------------------------------------------------
(* submit and waitForTransaction *)

\* createClient refuses a fallback from a host that is not a local one, so no
\* client exists with such a configuration.
Accepted(k) == k.fallbackToHttp => k.local

\* retryingFetch: the request goes out again over HTTP.  Browsers have a fetch
\* of their own, which does not.
FallsBack(k) == k.fallbackToHttp /\ k.https /\ k.nodeJs

\* The answer to a submission arrives and the wait begins.
Answered(c) ==
  /\ Goto(c, "poll")
  /\ left' = [left EXCEPT ![c] = Timeout]

\* The node has the request; it takes a transaction that is in no block.
Deliver(c) ==
  /\ mempool' = IF included[c] = -1 THEN mempool \cup {c} ELSE mempool
  /\ delivered' = [delivered EXCEPT ![c] = @ + 1]

\* The fetch of a submission ends: the node has answered, or the request or
\* its answer is lost.
Fetch(c, lost) ==
  /\ \/ Deliver(c) /\ included[c] = -1 /\ Answered(c)
     \/ Deliver(c) /\ Goto(c, lost) /\ UNCHANGED left
     \/ Goto(c, lost) /\ UNCHANGED <<mempool, delivered, left>>
  /\ UNCHANGED <<config, tip, included, receipt, hint, op, searchVars, height,
                 nap, startTip>>

\* client.submit.
Submit(c) ==
  /\ pc[c] = "submit"
  /\ Fetch(c, IF FallsBack(config) THEN "resubmit" ELSE "rejected")

\* The same request over HTTP; when it fails too, the call is rejected with the
\* error of the first.
Resubmit(c) == pc[c] = "resubmit" /\ Fetch(c, "rejected")

\* getBlock at the current height found a block: return the result in it or
\* go on to the next height at once.
PollFound(c) ==
  /\ pc[c] = "poll" /\ HasBlock(height[c])
  /\ \/ /\ HasResult(c, height[c])
        /\ Goto(c, "resolved")
        /\ hint' = IF height[c] > hint THEN height[c] ELSE hint
        /\ UNCHANGED height
     \/ /\ ~HasResult(c, height[c])
        /\ height' = [height EXCEPT ![c] = @ + 1]
        /\ UNCHANGED <<pc, hint>>
  /\ UNCHANGED <<chainVars, op, searchVars, left, nap, history, config>>

\* Mutant: the height also advances when there is no block yet.
PollMissingSkips(c) ==
  /\ pc[c] = "poll" /\ ~HasBlock(height[c])
  /\ \/ left[c] < Poll /\ Goto(c, "rejected") /\ UNCHANGED <<nap, height>>
     \/ /\ left[c] >= Poll /\ Goto(c, "sleep")
        /\ nap' = [nap EXCEPT ![c] = Poll]
        /\ height' = [height EXCEPT ![c] = @ + 1]
  /\ UNCHANGED <<chainVars, hint, op, searchVars, left, history, config>>

\* Mutant: the deadline is not looked at.
PollMissingForever(c) ==
  /\ pc[c] = "poll" /\ ~HasBlock(height[c])
  /\ Goto(c, "sleep")
  /\ nap' = [nap EXCEPT ![c] = Poll]
  /\ UNCHANGED <<chainVars, hint, op, searchVars, height, left, history, config>>

\* No block there yet: time out, or sleep when another poll fits.
PollMissing(c) ==
  /\ pc[c] = "poll" /\ ~HasBlock(height[c])
  /\ \/ left[c] < Poll /\ Goto(c, "rejected") /\ UNCHANGED nap
     \/ /\ left[c] >= Poll /\ Goto(c, "sleep")
        /\ nap' = [nap EXCEPT ![c] = Poll]
  /\ UNCHANGED <<chainVars, hint, op, searchVars, height, left, history, config>>

Wake(c) ==
  /\ pc[c] = "sleep" /\ nap[c] = 0
  /\ Goto(c, "poll")
  /\ UNCHANGED <<chainVars, hint, op, searchVars, waitVars, history, config>>

\* An RPC fails with anything but NOT_FOUND, the caller aborts the wait, or the
\* transaction to submit is unsigned or of no known type.
Fail(c) ==
  /\ pc[c] \in Searching \cup Waiting \cup Submitting
  /\ Goto(c, "rejected")
  /\ UNCHANGED <<chainVars, hint, op, searchVars, waitVars, history, config>>

\* The caller makes another call; a transaction is submitted once.
Again(c) ==
  /\ pc[c] \in Settled /\ op[c] # "submitAndWait"
  /\ Goto(c, "idle")
  /\ UNCHANGED <<chainVars, hint, op, searchVars, waitVars, history, config>>

Init ==
  /\ config \in {k \in Config : Accepted(k)}
  /\ delivered = [c \in Caller |-> 0]
  /\ tip \in -1..MaxHeight
  /\ mempool = {}
  /\ included = [c \in Caller |-> -1]
  /\ receipt = [c \in Caller |-> FALSE]
  /\ hint = 0
  /\ pc = [c \in Caller |-> "idle"]
  /\ op = [c \in Caller |-> "submitAndWait"]
  /\ low = [c \in Caller |-> 0]
  /\ high = [c \in Caller |-> 0]
  /\ step = [c \in Caller |-> 0]
  /\ height = [c \in Caller |-> 0]
  /\ left = [c \in Caller |-> -1]
  /\ nap = [c \in Caller |-> 0]
  /\ startTip = [c \in Caller |-> -1]

\* The steps a call takes by itself.
Proceed(c) ==
  \/ ProbeHint(c) \/ ProbeGenesis(c) \/ Grow(c) \/ Bisect(c) \/ FoundLatest(c)
  \/ Submit(c) \/ Resubmit(c) \/ PollFound(c) \/ PollMissing(c) \/ Wake(c)

Next ==
  \/ NewBlock
  \/ Tick
  \/ \E c \in Caller :
       \/ Proceed(c) \/ Fail(c) \/ Again(c)
       \/ \E f \in Ops, h \in 0..MaxHeight : Start(c, f, h)

Spec == Init /\ [][Next]_vars

\* Answers and timers arrive: JavaScript runs every callback that is due.
FairSpec == Spec /\ WF_vars(Tick) /\ \A c \in Caller : WF_vars(Proceed(c))

-----------------------------------------------------------------------------
(* Properties *)

\* Type invariant of the chain, the client and the calls.
TypeOK ==
  /\ tip \in Int /\ tip >= -1
  /\ mempool \in SUBSET Caller
  /\ included \in [Caller -> Int]
  /\ receipt \in [Caller -> BOOLEAN]
  /\ hint \in Nat
  /\ pc \in [Caller -> Searching \cup Waiting \cup Settled
                         \cup Submitting \cup {"idle"}]
  /\ op \in [Caller -> Ops]
  /\ low \in [Caller -> Nat] /\ high \in [Caller -> Nat]
  /\ step \in [Caller -> Nat]
  /\ height \in [Caller -> Nat]
  /\ left \in [Caller -> Int] /\ nap \in [Caller -> Nat]
  /\ startTip \in [Caller -> Int]
  /\ delivered \in [Caller -> Nat]
  /\ config \in Config

\* While a search runs, the chain may grow past both of its ends; still its
\* lower end exists and its upper end was beyond the chain of some moment
\* since the search began.
SearchBounds ==
  \A c \in Caller :
    /\ pc[c] \in Searching => startTip[c] <= tip
    /\ pc[c] \in {"grow", "bisect"} => low[c] <= tip /\ low[c] < high[c]
    /\ pc[c] = "grow" => high[c] = low[c] + step[c] /\ step[c] > 0
    /\ pc[c] = "bisect" => high[c] > startTip[c]

\* What a search returns is a block that exists and is not older than the tip
\* was when the search began, however the chain grew in between.
LatestIsCurrent ==
  \A c \in Caller : (pc[c] = "bisect" /\ high[c] - low[c] <= 1) =>
    startTip[c] <= low[c] /\ low[c] <= tip

\* The shared hint always names an existing block, whatever calls overwrite
\* it in whatever order (0 before the first).
HintExists == hint = 0 \/ hint <= tip

\* Neither the wait nor the second request before it passes the block that
\* carries the result ("captured before
\* submission so the search window cannot miss the including block",
\* kalvora-client.ts:129).
WindowHoldsBlock ==
  \A c \in Caller :
    pc[c] \in Waiting \cup {"resubmit"} /\ included[c] >= 0 /\ receipt[c] =>
      height[c] <= included[c]

\* A call that resolves does so with the height of the block that carries the
\* status of its own transaction.
ResolvedIsIncluded ==
  \A c \in Caller :
    pc[c] = "resolved" /\ op[c] = "submitAndWait" =>
      included[c] = height[c] /\ receipt[c] /\ height[c] <= tip

\* A submission reaches the node once, and twice only where the fallback was
\* asked for, from a local HTTPS host.
DeliveredOnce ==
  \A c \in Caller :
    /\ delivered[c] <= 2
    /\ delivered[c] = 2 => config.fallbackToHttp /\ config.local

\* What a submission promises (SubmitOnce), as this client keeps it.
Promise == INSTANCE SubmitOnce WITH
  status <- [c \in Caller |-> IF included[c] >= 0
                              THEN IF receipt[c] THEN "confirmed" ELSE "included"
                              ELSE IF c \in mempool THEN "sent" ELSE "new"],
  reply <- [c \in Caller |-> IF op[c] = "submitAndWait" /\ pc[c] \in Settled
                             THEN pc[c] ELSE "none"]

\* Every behaviour keeps that promise.
KeepsPromise == Promise!Spec

\* Once the chain stops growing (MaxHeight), every call settles: it returns,
\* times out or fails, and none sleeps or searches for ever.
EveryCallSettles ==
  \A c \in Caller : pc[c] # "idle" ~> pc[c] \in Settled
=============================================================================
