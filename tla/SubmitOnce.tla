------------------------------ MODULE SubmitOnce ------------------------------
(***************************************************************************)
(* What submitAndWait promises of a transaction (client/kalvora-client.ts, *)
(* lines 132-153), whatever the transport and the search do: it goes out   *)
(* while its call runs, is included once, and the call answers once, with  *)
(* a result only when a block carries its status.                          *)
(***************************************************************************)
CONSTANT Caller

VARIABLES
  status, \* of each transaction: "new", "sent", "included" or "confirmed"
  reply   \* of each call: "none", "resolved" or "rejected"

Init ==
  /\ status = [c \in Caller |-> "new"]
  /\ reply = [c \in Caller |-> "none"]

\* The node takes the transaction; the answer may be lost.
Send(c) ==
  /\ status[c] = "new" /\ reply[c] = "none"
  /\ status' = [status EXCEPT ![c] = "sent"]
  /\ reply' \in {reply, [reply EXCEPT ![c] = "rejected"]}

\* A block includes transactions, some of them with their status.
Include(txs, confirmed) ==
  /\ \A c \in txs : status[c] = "sent"
  /\ confirmed \subseteq txs
  /\ status' = [c \in Caller |-> IF c \in confirmed THEN "confirmed"
                                 ELSE IF c \in txs THEN "included" ELSE status[c]]
  /\ UNCHANGED reply

Resolve(c) ==
  /\ status[c] = "confirmed" /\ reply[c] = "none"
  /\ reply' = [reply EXCEPT ![c] = "resolved"]
  /\ UNCHANGED status

Reject(c) ==
  /\ reply[c] = "none"
  /\ reply' = [reply EXCEPT ![c] = "rejected"]
  /\ UNCHANGED status

Next ==
  \/ \E c \in Caller : Send(c) \/ Resolve(c) \/ Reject(c)
  \/ \E txs, confirmed \in SUBSET Caller : Include(txs, confirmed)

Spec == Init /\ [][Next]_<<status, reply>>
=============================================================================
