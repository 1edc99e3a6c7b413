--------------------------- MODULE TransactionsProofs -------------------------
(***************************************************************************)
(* Proofs about Transactions.  Of Builders, for every group of calls and   *)
(* states of the network: a text proposal comes back with its context      *)
(* valid, a builder looks up what it was not given and nothing else, a     *)
(* registration goes out with a co-signature of the signature it carries,  *)
(* and an automatic fee covers what is sent.  Of CoinBuild, for every set  *)
(* of inputs: the slots line up and the sums add up.  Of FeeCalculator: a  *)
(* message is charged for its final length, new balances are paid for, and *)
(* percentages in full.  Of Streams: chunks come in order, and the end     *)
(* after the last.  And a behaviour of the composition is one of each part *)
(* by itself.                                                              *)
(*                                                                         *)
(* A builder is a list of steps, so the invariant says of the steps that   *)
(* are left which they may be, which one is the last, and that the nonce   *)
(* is among them until it is in the message; that of the fee, that it is   *)
(* calculated with all placeholders in place, and what is done after it.   *)
(* That of createCoinTXN keeps what was checked when the slots were made   *)
(* and that the nonces are current; no sum needs induction, as what is     *)
(* summed up in the checks is what is summed up in the message.  That of   *)
(* the fees counts the recipients still to be looked up with those that    *)
(* were found without the token.  That of a body numbers the chunks read,  *)
(* queued and still to come.                                               *)
(***************************************************************************)
EXTENDS Transactions, FiniteSetTheorems, SequenceTheorems, TLAPS

-----------------------------------------------------------------------------
(* The recipes *)

AlwaysKinds == {"itemMint", "nft", "burnSbt", "create", "update"}

Finishes == {"stage", "context", "empty", "schedule"}

\* What is looked up and checked again in each recipe; only its demands depend on the clock.
LEMMA Recipes ==
  ASSUME call.kind \in Kinds
  PROVE  /\ Builder.before \in Seq(Reads) /\ Builder.after \in Seq(Reads)
         /\ Builder.checks \in Seq({"dates"}) /\ Builder.finish \in Seq(Finishes)
         /\ Builder.always <=> call.kind \in AlwaysKinds
         /\ call.kind = "text" => Builder.finish = <<"context">>
         /\ call.kind = "registration" => Builder.finish = <<"empty">>
<1>0. /\ <<>> \in Seq(Reads) /\ <<>> \in Seq({"dates"}) /\ <<>> \in Seq(Finishes)
      /\ <<"fee tokens">> \in Seq(Reads)
      /\ <<"stage">> \in Seq(Finishes) /\ <<"context">> \in Seq(Finishes)
  BY DEF Reads, Finishes
<1> USE DEF Reads, Finishes, AlwaysKinds
<1>1. CASE call.kind = "mint"
  <2>1. Builder = Mint(call.in)
    BY <1>1 DEF Builder
  <2> QED BY <1>1, <2>1 DEF Mint, Standard, Plain
<1>2. CASE call.kind = "revoke"
  <2>1. Builder = Revoke(call.in)
    BY <1>2 DEF Builder
  <2> QED BY <1>2, <2>1 DEF Revoke, Standard, Plain
<1>3. CASE call.kind = "allowance"
  <2>1. Builder = Allowance(call.in)
    BY <1>3 DEF Builder
  <2> QED BY <1>3, <2>1 DEF Allowance, Standard, Plain
<1>4. CASE call.kind = "compliance"
  <2>1. Builder = Compliance(call.in)
    BY <1>4 DEF Builder
  <2> QED BY <1>4, <2>1 DEF Compliance, Standard, Plain
<1>5. CASE call.kind = "expenseRatio"
  <2>1. Builder = ExpenseRatio(call.in)
    BY <1>5 DEF Builder
  <2> QED BY <1>5, <2>1 DEF ExpenseRatio, Standard, Plain
<1>6. CASE call.kind = "delegated"
  <2>1. Builder = Delegated(call.in)
    BY <1>6 DEF Builder
  <2> QED BY <1>6, <2>1 DEF Delegated, Standard, Plain
<1>7. CASE call.kind = "registration"
  <2>1. Builder = Registration(call.in)
    BY <1>7 DEF Builder
  <2> QED BY <1>7, <2>1 DEF Registration, Standard, Plain
<1>8. CASE call.kind = "governance"
  <2>1. Builder = Governance(call.in)
    BY <1>8 DEF Builder
  <2>2. /\ Builder.before = <<"fee tokens">> /\ Builder.after = <<>> /\ Builder.checks = <<>>
        /\ Builder.finish \in {<<"stage">>, <<>>} /\ Builder.always = FALSE
    BY <2>1 DEF Governance, Standard, Plain
  <2>3. Builder.before \in Seq(Reads) /\ Builder.after \in Seq(Reads)
        /\ Builder.checks \in Seq({"dates"}) /\ Builder.finish \in Seq(Finishes)
    BY <1>0, <2>2, Zenon
  <2> QED BY <1>8, <2>2, <2>3
<1>9. CASE call.kind = "heartbeat"
  <2>1. Builder = Heartbeat
    BY <1>9 DEF Builder
  <2> QED BY <1>9, <2>1 DEF Heartbeat, Standard, Plain
<1>10. CASE call.kind = "text"
  <2>1. Builder = TextProposal(call.in)
    BY <1>10 DEF Builder
  <2>2. /\ Builder.before = <<>> /\ Builder.after = <<>> /\ Builder.checks = <<>>
        /\ Builder.finish = <<"context">> /\ Builder.always = FALSE
    BY <2>1 DEF TextProposal, Plain
  <2>3. Builder.before \in Seq(Reads) /\ Builder.after \in Seq(Reads)
        /\ Builder.checks \in Seq({"dates"}) /\ Builder.finish \in Seq(Finishes)
    BY <1>0, <2>2, Zenon
  <2>4. ~Builder.always /\ call.kind \notin AlwaysKinds
    BY <1>10, <2>2
  <2>5. Builder.finish = <<"context">> /\ call.kind # "registration"
    BY <1>10, <2>2, Zenon
  <2>6. Builder.always <=> call.kind \in AlwaysKinds
    BY <2>4
  <2> HIDE DEF Reads, Finishes, AlwaysKinds
  <2> QED BY <2>3, <2>5, <2>6
<1>11. CASE call.kind = "vote"
  <2>1. Builder = Vote(call.in)
    BY <1>11 DEF Builder
  <2>2. /\ Builder.before = <<>> /\ Builder.after = <<>> /\ Builder.checks = <<>>
        /\ Builder.finish = <<>> /\ Builder.always = FALSE
    BY <2>1 DEF Vote, Plain
  <2>3. Builder.before \in Seq(Reads) /\ Builder.after \in Seq(Reads)
        /\ Builder.checks \in Seq({"dates"}) /\ Builder.finish \in Seq(Finishes)
    BY <1>0, <2>2, Zenon
  <2>4. Builder.always <=> call.kind \in AlwaysKinds
    BY <1>11, <2>2
  <2> QED BY <1>11, <2>3, <2>4
<1>12. CASE call.kind = "cancel"
  <2>1. Builder = Cancel(call.in)
    BY <1>12 DEF Builder
  <2> QED BY <1>12, <2>1 DEF Cancel, Plain
<1>13. CASE call.kind = "deploy"
  <2>1. Builder = Deploy(call.in)
    BY <1>13 DEF Builder
  <2> QED BY <1>13, <2>1 DEF Deploy, Plain
<1>14. CASE call.kind = "execute"
  <2>1. Builder = Execute(call.in)
    BY <1>14 DEF Builder
  <2> QED BY <1>14, <2>1 DEF Execute, Plain
<1>15. CASE call.kind = "itemMint"
  <2>1. Builder = ItemMint(call.in)
    BY <1>15 DEF Builder
  <2> QED BY <1>15, <2>1 DEF ItemMint, Always, Plain
<1>16. CASE call.kind = "nft"
  <2>1. Builder = Nft(call.in)
    BY <1>16 DEF Builder
  <2> QED BY <1>16, <2>1 DEF Nft, Always, Plain
<1>17. CASE call.kind = "create"
  <2>1. Builder = Create(call.in)
    BY <1>17 DEF Builder
  <2> QED BY <1>17, <2>1 DEF Create, Always, Plain
<1>18. CASE call.kind = "update"
  <2>1. Builder = Update(call.in)
    BY <1>18 DEF Builder
  <2> QED BY <1>18, <2>1 DEF Update, Always, Plain
<1>19. CASE call.kind = "burnSbt"
  <2>1. Builder = BurnSbt
    BY <1>19 DEF Builder
  <2> QED BY <1>19, <2>1 DEF BurnSbt, Always, Plain
<1> QED BY <1>1, <1>2, <1>3, <1>4, <1>5, <1>6, <1>7, <1>8, <1>9, <1>10, <1>11, <1>12, <1>13, <1>14, <1>15, <1>16, <1>17, <1>18, <1>19 DEF Kinds

-----------------------------------------------------------------------------
(* The message *)

Message(b, n, t, f, p, h, o) ==
  [body |-> b, nonce |-> n, time |-> t, fee |-> f, pair |-> p, hash |-> h, of |-> o]

\* A message has the fields of Blank.
Shaped(m) == m = Message(m.body, m.nonce, m.time, m.fee, m.pair, m.hash, m.of)

\* What changing a field leaves of the others.
LEMMA Updates ==
  ASSUME NEW m, Shaped(m), NEW x
  PROVE  /\ [m EXCEPT !.fee = x] = Message(m.body, m.nonce, m.time, x, m.pair, m.hash, m.of)
         /\ [m EXCEPT !.pair = x] = Message(m.body, m.nonce, m.time, m.fee, x, m.hash, m.of)
         /\ [m EXCEPT !.hash = x] = Message(m.body, m.nonce, m.time, m.fee, m.pair, x, m.of)
         /\ [m EXCEPT !.body = x] = Message(x, m.nonce, m.time, m.fee, m.pair, m.hash, m.of)
<1> DEFINE b == m.body  n == m.nonce  t == m.time  f == m.fee  p == m.pair  h == m.hash  o == m.of
<1>1. m = Message(b, n, t, f, p, h, o)
  BY DEF Shaped
<1> HIDE DEF b, n, t, f, p, h, o
<1>2. [m EXCEPT !.fee = x] = Message(b, n, t, x, p, h, o)
  BY <1>1 DEF Message
<1>3. [m EXCEPT !.pair = x] = Message(b, n, t, f, x, h, o)
  BY <1>1 DEF Message
<1>4. [m EXCEPT !.hash = x] = Message(b, n, t, f, p, x, o)
  BY <1>1 DEF Message
<1>5. [m EXCEPT !.body = x] = Message(x, n, t, f, p, h, o)
  BY <1>1 DEF Message
<1> QED BY <1>2, <1>3, <1>4, <1>5 DEF b, n, t, f, p, h, o

\* The same for the second signature and what it is over.
LEMMA PairUpdated ==
  ASSUME NEW m, Shaped(m), NEW x, NEW y, NEW q, q = [m EXCEPT !.pair = x, !.of = y]
  PROVE  q = Message(m.body, m.nonce, m.time, m.fee, x, m.hash, y)
<1> DEFINE r == [m EXCEPT !.pair = x]
<1>1. r = Message(m.body, m.nonce, m.time, m.fee, x, m.hash, m.of)
  BY Updates
<1>2. q = [r EXCEPT !.of = y]
  OBVIOUS
<1> HIDE DEF r
<1> QED BY <1>1, <1>2 DEF Message

\* A message has its fields.
LEMMA Fields ==
  ASSUME NEW b, NEW n, NEW t, NEW f, NEW p, NEW h, NEW o, NEW m, m = Message(b, n, t, f, p, h, o)
  PROVE  /\ Shaped(m)
         /\ m.body = b /\ m.nonce = n /\ m.time = t /\ m.fee = f /\ m.pair = p /\ m.hash = h /\ m.of = o
BY DEF Shaped, Message

-----------------------------------------------------------------------------
(* The steps *)

\* Taking the first of the steps away.
LEMMA Rest ==
  ASSUME NEW S, NEW s \in Seq(S), s # <<>>
  PROVE  /\ Head(s) \in S /\ Tail(s) \in Seq(S)
         /\ Tail(s) # <<>> => Tail(s)[Len(Tail(s))] = s[Len(s)]
         /\ Tail(s) = <<>> => Head(s) = s[Len(s)]
         /\ \A x : (\E i \in 1..Len(s) : s[i] = x)
                    => Head(s) = x \/ \E i \in 1..Len(Tail(s)) : Tail(s)[i] = x
<1>1. /\ Head(s) \in S /\ Tail(s) \in Seq(S) /\ Head(s) = s[1]
      /\ Len(s) \in Nat /\ Len(s) > 0 /\ Len(Tail(s)) = Len(s) - 1
      /\ \A i \in 1..Len(s) - 1 : Tail(s)[i] = s[i + 1]
  OBVIOUS
<1>2. ASSUME NEW x, NEW i \in 1..Len(s), s[i] = x
      PROVE  Head(s) = x \/ \E j \in 1..Len(Tail(s)) : Tail(s)[j] = x
  <2>1. CASE i = 1
    BY <1>1, <1>2, <2>1
  <2>2. CASE i # 1
    <3>1. i - 1 \in 1..Len(Tail(s)) /\ Tail(s)[i - 1] = x
      BY <1>1, <1>2, <2>2
    <3> QED BY <3>1
  <2> QED BY <2>1, <2>2
<1>3. Tail(s) # <<>> => Len(Tail(s)) > 0
  BY <1>1
<1>4. Tail(s) = <<>> => Len(s) = 1
  <2>1. Tail(s) = <<>> => Len(Tail(s)) = 0
    BY <1>1, EmptySeq
  <2> QED BY <1>1, <2>1
<1> QED BY <1>1, <1>2, <1>3, <1>4

\* A fee is calculated by the builders that always do, or when there is something to add.
Calculates ==
  call.kind \in AlwaysKinds \/ ~Given(call.fee) \/ call.interface # "none" \/ call.gas > 0

\* The steps a builder may have to take: offline none that reads.
Allowed ==
  {"nonce", "dates"} \cup Finishes \cup (IF Offline THEN {} ELSE Reads)
    \cup (IF Calculates THEN {"fee"} ELSE {})

\* The steps a call begins with are allowed, the nonce is among them, and the last is that of
\* its recipe.
LEMMA FirstSteps ==
  ASSUME call.kind \in Kinds
  PROVE  /\ Steps \in Seq(Allowed) /\ Steps # <<>>
         /\ \E i \in 1..Len(Steps) : Steps[i] = "nonce"
         /\ call.kind = "text" => Steps[Len(Steps)] = "context"
         /\ call.kind = "registration" => Steps[Len(Steps)] = "empty"
<1> DEFINE before == IF Offline THEN <<>> ELSE Builder.before
           after  == IF Offline THEN <<>> ELSE Builder.after
           fee    == IF NeedsFee THEN <<"fee">> ELSE <<>>
           checks == Builder.checks
           finish == Builder.finish
<1>1. NeedsFee <=> Calculates
  BY Recipes DEF NeedsFee, Calculates
<1>2. /\ before \in Seq(Allowed) /\ checks \in Seq(Allowed) /\ after \in Seq(Allowed)
      /\ fee \in Seq(Allowed) /\ finish \in Seq(Allowed) /\ <<"nonce">> \in Seq(Allowed)
  <2>1. /\ "nonce" \in Allowed /\ "dates" \in Allowed /\ Finishes \subseteq Allowed
        /\ ~Offline => Reads \subseteq Allowed
        /\ Calculates => "fee" \in Allowed
    BY DEF Allowed
  <2> HIDE DEF Finishes, Reads, Allowed
  <2>2. \A S : S \subseteq Allowed => \A q \in Seq(S) : q \in Seq(Allowed)
    OBVIOUS
  <2>3. <<>> \in Seq(Allowed) /\ <<"nonce">> \in Seq(Allowed)
        /\ Calculates => <<"fee">> \in Seq(Allowed)
    BY <2>1
  <2>4. {"dates"} \subseteq Allowed
    BY <2>1
  <2> QED BY <1>1, <2>1, <2>2, <2>3, <2>4, Recipes
<1>3. Steps = before \o <<"nonce">> \o checks \o after \o fee \o finish
  BY DEF Steps
<1>4. /\ call.kind = "text" => finish = <<"context">>
      /\ call.kind = "registration" => finish = <<"empty">>
  BY Recipes
<1> HIDE DEF before, after, fee, checks, finish
<1>5. \A p, q \in Seq(Allowed) :
        /\ p \o q \in Seq(Allowed) /\ Len(p \o q) = Len(p) + Len(q)
        /\ \A i \in 1..Len(p) : (p \o q)[i] = p[i]
        /\ \A i \in 1..Len(q) : (p \o q)[Len(p) + i] = q[i]
        /\ Len(p) \in Nat
  OBVIOUS
<1>6. ASSUME NEW p \in Seq(Allowed), NEW q \in Seq(Allowed),
             \E i \in 1..Len(p) : p[i] = "nonce"
      PROVE  \E i \in 1..Len(p \o q) : (p \o q)[i] = "nonce"
  <2>1. PICK i \in 1..Len(p) : p[i] = "nonce"
    BY <1>6
  <2>2. i \in 1..Len(p \o q) /\ (p \o q)[i] = "nonce"
    BY <1>5, <2>1
  <2> QED BY <2>2
<1>7. /\ before \o <<"nonce">> \in Seq(Allowed)
      /\ \E i \in 1..Len(before \o <<"nonce">>) : (before \o <<"nonce">>)[i] = "nonce"
  <2>1. 1 \in 1..Len(<<"nonce">>) /\ <<"nonce">>[1] = "nonce" /\ Len(<<"nonce">>) = 1
    OBVIOUS
  <2>2. /\ Len(before) + 1 \in 1..Len(before \o <<"nonce">>)
        /\ (before \o <<"nonce">>)[Len(before) + 1] = "nonce"
    BY <1>2, <1>5, <2>1
  <2> QED BY <1>2, <1>5, <2>2
<1> DEFINE front == before \o <<"nonce">> \o checks \o after \o fee
<1>8. /\ front \in Seq(Allowed) /\ \E i \in 1..Len(front) : front[i] = "nonce"
  <2> DEFINE a == before \o <<"nonce">>  b == a \o checks  c == b \o after
  <2>1. a \in Seq(Allowed) /\ \E i \in 1..Len(a) : a[i] = "nonce"
    BY <1>7
  <2> HIDE DEF a
  <2>2. b \in Seq(Allowed) /\ \E i \in 1..Len(b) : b[i] = "nonce"
    BY <1>2, <1>5, <1>6, <2>1
  <2> HIDE DEF b
  <2>3. c \in Seq(Allowed) /\ \E i \in 1..Len(c) : c[i] = "nonce"
    BY <1>2, <1>5, <1>6, <2>2
  <2> HIDE DEF c
  <2>4. c \o fee \in Seq(Allowed) /\ \E i \in 1..Len(c \o fee) : (c \o fee)[i] = "nonce"
    BY <1>2, <1>5, <1>6, <2>3
  <2> QED BY <2>4 DEF a, b, c
<1> HIDE DEF front
<1>9. Steps = front \o finish
  BY <1>3 DEF front
<1>10. /\ Steps \in Seq(Allowed) /\ \E i \in 1..Len(Steps) : Steps[i] = "nonce"
  BY <1>2, <1>5, <1>6, <1>8, <1>9
<1>11. Steps # <<>>
  <2>1. Steps = <<>> => Len(Steps) = 0
    BY EmptySeq
  <2>2. PICK i \in 1..Len(Steps) : Steps[i] = "nonce"
    BY <1>10
  <2> QED BY <2>1, <2>2
<1>12. ASSUME NEW x, finish = <<x>> PROVE  Steps[Len(Steps)] = x
  <2>1. front \in Seq(Allowed) /\ finish \in Seq(Allowed)
    BY <1>2, <1>8
  <2>2. x \in Allowed
    <3>1. finish[1] = x /\ Len(finish) = 1
      BY <1>12
    <3> QED BY <2>1, <3>1
  <2>3. (front \o <<x>>)[Len(front \o <<x>>)] = x
    BY <2>1, <2>2
  <2> QED BY <1>9, <1>12, <2>3
<1> QED BY <1>4, <1>10, <1>11, <1>12

-----------------------------------------------------------------------------
(* The inductive invariant *)

\* What the cases and the clock give.
Typed ==
  /\ call.kind \in Kinds /\ clock \in Nat
  /\ call.kind = "text" => call.in.observedAt \in Int /\ call.in.expiresAt \in Int
  /\ "used" \in DOMAIN ledger /\ ledger.used \in Nat
  /\ start.used \in Nat /\ start.used <= ledger.used

NonceLeft == \E i \in 1..Len(steps) : steps[i] = "nonce"

\* The message has the nonce given, or one the wallet came to during the call.
NonceTaken ==
  IF Given(call.nonce) THEN msg.nonce = call.nonce
                       ELSE msg.nonce \in start.used + 1 .. ledger.used + 1

\* The steps that are left while the message is built.
StepsLeft ==
  /\ steps \in Seq(Allowed)
  /\ status = "building" =>
       /\ steps # <<>>
       /\ call.kind = "text" => steps[Len(steps)] = "context"
       /\ call.kind = "registration" => steps[Len(steps)] = "empty"
       /\ NonceLeft \/ NonceTaken
  /\ Built => NonceTaken

Silent ==
  Offline =>
    asked \subseteq IF call.kind \in AlwaysKinds \/ call.interface # "none" \/ call.gas > 0
                    THEN {"token info"} ELSE {}

\* A hash of a message that is signed, or was changed since.
Hashed(m) ==
  /\ m.hash = HashOf(m.hash.body, m.hash.sig)
  /\ m.hash.sig \in Nat /\ m.hash.body \in Nat
  /\ m.hash.sig <= m.hash.body /\ m.hash.body <= m.body

\* The second signature is over the operator's, and over a body from the one that was signed
\* to the one that is hashed.
Collected(m) ==
  /\ m.of = HashOf(m.of.body, m.hash.sig)
  /\ m.of.body \in Nat /\ m.hash.sig <= m.of.body /\ m.of.body <= m.hash.body

\* No second signature before the message is built; then one as above.
Paired ==
  /\ Shaped(msg) /\ msg.body \in Nat
  /\ status \in {"signed", "sent"} => Hashed(msg)
  /\ status \notin {"signed", "sent"} => ~Given(msg.of)
  /\ call.kind = "registration" =>
       /\ Given(msg.of) => Collected(msg)
       /\ Held /\ msg.pair > 0 => Given(msg.of)
       /\ status = "sent" => Given(msg.of)

Inv == Typed /\ StepsLeft /\ Silent /\ ContextFresh /\ Paired

\* The fields of an empty message.
LEMMA BlankShaped ==
  Shaped(Blank) /\ Blank.body = 0 /\ Blank.of = None
BY DEF Shaped, Message, Blank

\* The call is one of the cases.
LEMMA InitHolds == Init => Inv
<1> SUFFICES ASSUME Init PROVE Inv
  OBVIOUS
<1>1. PICK group \in Cases : call \in group.calls /\ ledger \in group.ledgers
  BY DEF Init
<1>2. Typed
  BY <1>1, CasesAssumption DEF Init, Typed
<1>3. StepsLeft /\ Silent /\ ContextFresh
  BY EmptySeq DEF Init, StepsLeft, Silent, ContextFresh, Built
<1>4. Paired
  BY BlankShaped DEF Init, Paired, Held, Given
<1> QED BY <1>2, <1>3, <1>4 DEF Inv

\* What a step that succeeds leaves: the same steps but one; when none is left it was the last.
LEMMA Advanced ==
  ASSUME StepsLeft, NEW x, At(x), Advance, UNCHANGED <<call, ledger, start>>,
         \/ x = "nonce" /\ NonceTaken'
         \/ x # "nonce" /\ msg'.nonce = msg.nonce
  PROVE  /\ StepsLeft' /\ x \in Allowed
         /\ status' \in {"building", "built"}
         /\ status' = "built" => /\ call.kind = "text" => x = "context"
                                 /\ call.kind = "registration" => x = "empty"
<1>1. /\ status = "building" /\ steps # <<>> /\ Head(steps) = x
      /\ steps' = Tail(steps) /\ steps \in Seq(Allowed)
      /\ status' = IF Tail(steps) = <<>> THEN "built" ELSE "building"
  BY DEF At, Advance, StepsLeft
<1>2. Allowed' = Allowed
  BY DEF Allowed, Calculates, Offline
<1>3. x \in Allowed /\ steps' \in Seq(Allowed)
  BY <1>1, Rest
<1>4. /\ steps' # <<>> => steps'[Len(steps')] = steps[Len(steps)]
      /\ steps' = <<>> => x = steps[Len(steps)]
  BY <1>1, Rest
<1>5. NonceTaken' \/ \E i \in 1..Len(steps') : steps'[i] = "nonce"
  <2>1. CASE x = "nonce"
    BY <2>1
  <2>2. CASE x # "nonce" /\ NonceTaken
    BY <2>2 DEF NonceTaken
  <2>3. CASE x # "nonce" /\ NonceLeft
    <3>1. Head(steps) # "nonce"
      BY <1>1, <2>3
    <3>2. \A y : (\E i \in 1..Len(steps) : steps[i] = y)
                   => Head(steps) = y \/ \E i \in 1..Len(Tail(steps)) : Tail(steps)[i] = y
      BY <1>1, Rest, Zenon
    <3> QED BY <1>1, <2>3, <3>1, <3>2, Zenon DEF NonceLeft
  <2> QED BY <1>1, <2>1, <2>2, <2>3 DEF StepsLeft
<1>6. steps' = <<>> => NonceTaken'
  <2>1. steps' = <<>> => Len(steps') = 0
    BY EmptySeq
  <2>2. steps' = <<>> => ~\E i \in 1..Len(steps') : TRUE
    BY <2>1
  <2> QED BY <1>5, <2>2
<1>7. StepsLeft'
  BY <1>1, <1>2, <1>3, <1>4, <1>5, <1>6 DEF StepsLeft, NonceLeft, Built
<1> QED BY <1>1, <1>3, <1>4, <1>7 DEF StepsLeft

\* A step that fails leaves a message that is never built.
LEMMA Failed ==
  ASSUME StepsLeft, Paired, ContextFresh, Silent, Typed, status = "building", Fail,
         UNCHANGED <<call, ledger, start, clock>>, Silent'
  PROVE  Inv'
<1>1. /\ status' = "failed" /\ steps' = steps /\ msg' = msg
  BY DEF Fail
<1>2. Allowed' = Allowed
  BY DEF Allowed, Calculates, Offline
<1>3. Typed' /\ StepsLeft' /\ ContextFresh'
  BY <1>1, <1>2 DEF Typed, StepsLeft, ContextFresh, Built
<1>4. Paired'
  BY <1>1 DEF Paired, Held
<1> QED BY <1>3, <1>4 DEF Inv

\* A step that succeeds and leaves the message's second signature alone.
LEMMA Continued ==
  ASSUME Inv, NEW x, At(x), Advance, UNCHANGED <<call, ledger, start, clock>>, Silent',
         \/ x = "nonce" /\ NonceTaken'
         \/ x # "nonce" /\ msg'.nonce = msg.nonce,
         x = "context" => ContextStillValid,
         Shaped(msg'), msg'.body \in Nat, msg'.of = None,
         x = "empty" => msg'.pair = 0
  PROVE  Inv'
<1>1. /\ StepsLeft' /\ x \in Allowed
      /\ status' \in {"building", "built"}
      /\ status' = "built" => /\ call.kind = "text" => x = "context"
                              /\ call.kind = "registration" => x = "empty"
  BY Advanced DEF Inv
<1>2. Typed'
  BY DEF Inv, Typed
<1>3. ContextFresh'
  <2>1. SUFFICES ASSUME call.kind = "text", status' = "built"
                 PROVE  /\ clock <= call.in.expiresAt + Skew
                        /\ clock - call.in.observedAt <= Life + Skew
    BY <1>1 DEF ContextFresh, Built
  <2>2. /\ call.in.expiresAt - call.in.observedAt <= Life
        /\ call.in.expiresAt >= clock - Skew
    BY <1>1, <2>1 DEF ContextStillValid, ContextValid
  <2>3. /\ call.in.expiresAt \in Int /\ call.in.observedAt \in Int /\ clock \in Nat
    BY <2>1 DEF Inv, Typed
  <2> QED BY <2>2, <2>3, BuilderConstants
<1>4. Paired'
  <2>1. /\ status' \notin {"signed", "sent"} /\ ~Given(msg'.of)
        /\ call.kind = "registration" => (Held' => msg'.pair = 0)
    BY <1>1 DEF Held, Given
  <2> QED BY <2>1 DEF Paired, Given
<1> QED BY <1>1, <1>2, <1>3, <1>4 DEF Inv

\* What holds of a message that is still being built.
LEMMA InBuilding ==
  ASSUME Inv, status = "building"
  PROVE  Shaped(msg) /\ msg.body \in Nat /\ msg.of = None
BY DEF Inv, Paired, Given

-----------------------------------------------------------------------------
(* Every step keeps it *)

\* The checks on the input set the steps up.
LEMMA CheckKeeps ==
  ASSUME Inv, Check
  PROVE  Inv'
<1>1. Allowed' = Allowed
  BY DEF Check, Allowed, Calculates, Offline
<1>2. Typed' /\ ContextFresh' /\ Silent'
  BY DEF Check, Inv, Typed, ContextFresh, Built, Silent, Offline
<1>3. Paired'
  BY DEF Check, Inv, Paired, Held
<1>4. StepsLeft'
  <2>1. CASE Builder.valid
    <3>1. status' = "building" /\ steps' = Steps
      BY <2>1 DEF Check
    <3>2. call.kind \in Kinds /\ call' = call
      BY DEF Check, Inv, Typed
    <3> QED BY <1>1, <3>1, <3>2, FirstSteps DEF StepsLeft, NonceLeft, Built
  <2>2. CASE ~Builder.valid
    <3>1. status' = "failed" /\ steps' = steps
      BY <2>2 DEF Check
    <3> QED BY <1>1, <3>1 DEF Inv, StepsLeft, Built
  <2> QED BY <2>1, <2>2
<1> QED BY <1>2, <1>3, <1>4 DEF Inv

\* A step that is taken is allowed.
LEMMA Taken ==
  ASSUME Inv, NEW x, At(x)
  PROVE  x \in Allowed /\ status = "building"
<1>1. /\ status = "building" /\ steps # <<>> /\ Head(steps) = x /\ steps \in Seq(Allowed)
  BY DEF At, Inv, StepsLeft
<1> QED BY <1>1, Rest

\* A request is sent by an online call, or for a fee that is calculated.
LEMMA Asked ==
  ASSUME Inv, UNCHANGED call, NEW S, asked' = asked \cup S,
         Offline => S \subseteq IF Calculates THEN {"token info"} ELSE {}
  PROVE  Silent'
BY DEF Inv, Silent, Offline, Calculates

\* An answer to a request changes nothing of the message.
LEMMA ReadKeeps ==
  ASSUME Inv, Read
  PROVE  Inv'
<1>1. PICK read \in Reads :
        /\ At(read)
        /\ asked' = IF Asks(read) THEN asked \cup {read} ELSE asked
        /\ (Advance /\ msg' = msg) \/ Fail
        /\ UNCHANGED <<call, ledger, start, clock>>
  BY DEF Read
<1>2. ~Offline
  <2>1. read \in Allowed
    BY <1>1, Taken
  <2>2. read \notin {"nonce", "dates", "fee"} /\ read \notin Finishes
    BY DEF Reads, Finishes
  <2> QED BY <2>1, <2>2 DEF Allowed
<1>3. Silent'
  BY <1>1, <1>2 DEF Silent, Offline
<1>4. read \notin {"nonce", "context", "empty"}
  BY DEF Reads
<1>5. /\ Shaped(msg) /\ msg.body \in Nat /\ msg.of = None
  BY <1>1, Taken, InBuilding
<1>6. CASE Advance /\ msg' = msg
  BY <1>1, <1>3, <1>4, <1>5, <1>6, Continued
<1>7. CASE Fail
  BY <1>1, <1>3, <1>7, Taken, Failed DEF Inv
<1> QED BY <1>1, <1>6, <1>7

\* The message is made with its nonce.
LEMMA TakeNonceKeeps ==
  ASSUME Inv, TakeNonce
  PROVE  Inv'
<1>1. /\ At("nonce") /\ UNCHANGED <<call, ledger, start, clock>>
      /\ asked' = IF Given(call.nonce) THEN asked ELSE asked \cup {"nonce"}
  BY DEF TakeNonce
<1>2. Silent'
  BY <1>1 DEF Inv, Silent, Offline
<1>3. CASE Fail
  BY <1>1, <1>2, <1>3, Taken, Failed DEF Inv
<1>4. CASE ~Fail
  <2> DEFINE nonce == IF Given(call.nonce) THEN call.nonce ELSE NextNonce
             fee == IF Given(call.fee) THEN call.fee ELSE 1
             time == clock
             pair == Placeholder
  <2>1. /\ Advance
        /\ msg' = [Blank EXCEPT !.nonce = nonce, !.fee = fee, !.time = time, !.pair = pair]
    BY <1>4 DEF TakeNonce
  <2>2. ~Given(call.nonce) => nonce = ledger.used + 1
    BY DEF NextNonce
  <2>3. Given(call.nonce) => nonce = call.nonce
    OBVIOUS
  <2> HIDE DEF nonce, fee, time, pair
  <2>4. msg' = Message(0, nonce, time, fee, pair, None, None)
    BY <2>1 DEF Blank, Message
  <2>5. Shaped(msg') /\ msg'.body \in Nat /\ msg'.of = None /\ msg'.nonce = nonce
    BY <2>4, Fields
  <2>6. NonceTaken'
    <3>1. CASE Given(call.nonce)
      BY <1>1, <2>3, <2>5, <3>1 DEF NonceTaken, Given
    <3>2. CASE ~Given(call.nonce)
      <4>1. /\ ledger.used \in Nat /\ start.used \in Nat /\ start.used <= ledger.used
        BY DEF Inv, Typed
      <4>2. msg'.nonce \in start.used + 1 .. ledger.used + 1
        BY <2>2, <2>5, <3>2, <4>1
      <4> QED BY <1>1, <3>2, <4>2 DEF NonceTaken, Given
    <3> QED BY <3>1, <3>2
  <2> QED BY <1>1, <1>2, <2>1, <2>5, <2>6, Continued
<1> QED BY <1>3, <1>4

\* A local check changes nothing.
LEMMA ChecksKeep ==
  ASSUME Inv, CheckDates \/ CheckContext \/ CheckSchedule
  PROVE  Inv'
<1>1. PICK x \in {"dates", "context", "schedule"} :
        /\ At(x) /\ ((Advance /\ msg' = msg) \/ Fail)
        /\ x = "context" /\ ~Fail => ContextStillValid
        /\ UNCHANGED <<call, ledger, start, clock, asked>>
  BY DEF CheckDates, CheckContext, CheckSchedule
<1>2. Silent'
  BY <1>1 DEF Inv, Silent, Offline
<1>3. /\ Shaped(msg) /\ msg.body \in Nat /\ msg.of = None
  BY <1>1, Taken, InBuilding
<1>4. CASE Fail
  BY <1>1, <1>2, <1>4, Taken, Failed DEF Inv
<1>5. CASE ~Fail
  BY <1>1, <1>2, <1>3, <1>5, Continued
<1> QED BY <1>4, <1>5

\* The fee and the stages change the fee alone, and the placeholder is taken out.
LEMMA FeesKeep ==
  ASSUME Inv, CalculateFee \/ ApplyStageFee \/ EmptySignature
  PROVE  Inv'
<1>1. PICK x \in {"fee", "stage", "empty"} :
        /\ At(x)
        /\ \/ Fail
           \/ /\ Advance
              /\ \/ x = "empty" /\ msg' = [msg EXCEPT !.pair = 0]
                 \/ x # "empty" /\ \E f : msg' = [msg EXCEPT !.fee = f]
        /\ \/ x # "fee" /\ asked' = asked
           \/ /\ x = "fee"
              /\ asked' = asked \cup ({"token info"} \cup IF Given(call.fee) THEN {}
                                                                          ELSE {"base fee"})
        /\ UNCHANGED <<call, ledger, start, clock>>
  BY DEF CalculateFee, ApplyStageFee, EmptySignature
<1>2. Silent'
  <2>1. CASE x # "fee"
    BY <1>1, <2>1 DEF Inv, Silent, Offline
  <2>2. CASE x = "fee"
    <3>1. Calculates
      <4>1. "fee" \in Allowed
        BY <1>1, <2>2, Taken
      <4> QED BY <4>1 DEF Allowed, Finishes, Reads
    <3> QED BY <1>1, <2>2, <3>1, Asked DEF Offline
  <2> QED BY <2>1, <2>2
<1>3. /\ Shaped(msg) /\ msg.body \in Nat /\ msg.of = None
  BY <1>1, Taken, InBuilding
<1>4. CASE Fail
  BY <1>1, <1>2, <1>4, Taken, Failed DEF Inv
<1>5. CASE ~Fail
  <2>0. \/ x = "empty" /\ msg' = [msg EXCEPT !.pair = 0]
        \/ x # "empty" /\ \E f : msg' = [msg EXCEPT !.fee = f]
    BY <1>1, <1>5
  <2>1. \/ /\ x = "empty"
           /\ msg' = Message(msg.body, msg.nonce, msg.time, msg.fee, 0, msg.hash, msg.of)
        \/ /\ x # "empty"
           /\ \E f : msg' = Message(msg.body, msg.nonce, msg.time, f, msg.pair, msg.hash, msg.of)
    <3>1. CASE x = "empty" /\ msg' = [msg EXCEPT !.pair = 0]
      BY <1>3, <3>1, Updates
    <3>2. ASSUME NEW f, x # "empty", msg' = [msg EXCEPT !.fee = f]
          PROVE  msg' = Message(msg.body, msg.nonce, msg.time, f, msg.pair, msg.hash, msg.of)
      BY <1>3, <3>2, Updates
    <3> QED BY <2>0, <3>1, <3>2
  <2>2. /\ Shaped(msg') /\ msg'.body = msg.body /\ msg'.nonce = msg.nonce /\ msg'.of = msg.of
        /\ x = "empty" => msg'.pair = 0
    BY <2>1, Fields
  <2> QED BY <1>1, <1>2, <1>3, <1>5, <2>2, Continued
<1> QED BY <1>4, <1>5

\* Once the message is in the application's hands, only the pair of a registration is at stake.
LEMMA Afterwards ==
  ASSUME Inv, Held, status' \in {"built", "signed", "sent"},
         UNCHANGED <<call, ledger, start, clock, steps, asked>>, msg'.nonce = msg.nonce, Paired'
  PROVE  Inv'
<1>1. Allowed' = Allowed
  BY DEF Allowed, Calculates, Offline
<1>2. Typed' /\ ContextFresh' /\ Silent'
  BY DEF Inv, Typed, ContextFresh, Built, Held, Silent, Offline
<1>3. StepsLeft'
  BY <1>1 DEF Inv, StepsLeft, Built, Held, NonceTaken, Given
<1> QED BY <1>2, <1>3 DEF Inv

\* A hash of two bodies is one.
LEMMA HashGiven ==
  ASSUME NEW m, Hashed(m)
  PROVE  Given(m.hash) /\ m.hash \in [body : Nat, sig : Nat]
<1>1. m.hash = HashOf(m.hash.body, m.hash.sig) /\ m.hash.body \in Nat /\ m.hash.sig \in Nat
  BY DEF Hashed
<1>2. m.hash \in [body : Nat, sig : Nat]
  BY <1>1 DEF HashOf
<1> QED BY <1>2, CasesAssumption DEF Given

\* Signing takes the second signature away and makes the hash of what is signed.
LEMMA SignKeeps ==
  ASSUME Inv, Sign
  PROVE  Inv'
<1>1. Held /\ Shaped(msg) /\ msg.body \in Nat
  BY DEF Sign, Inv, Paired
<1>2. PICK p, o :
        /\ msg' = [Message(msg.body, msg.nonce, msg.time, msg.fee, p, msg.hash, o)
                     EXCEPT !.hash = HashOf(msg.body, msg.body)]
        /\ call.kind = "registration" => p = 0 /\ o = None
  <2>1. CASE call.kind = "registration"
    <3>1. PICK q : /\ q = [msg EXCEPT !.pair = 0, !.of = None]
                   /\ msg' = [q EXCEPT !.hash = HashOf(msg.body, msg.body)]
      BY <2>1 DEF Sign, Cleared
    <3>2. q = Message(msg.body, msg.nonce, msg.time, msg.fee, 0, msg.hash, None)
      BY <1>1, <3>1, PairUpdated
    <3> QED BY <2>1, <3>1, <3>2
  <2>2. CASE call.kind # "registration"
    BY <1>1, <2>2 DEF Sign, Cleared, Shaped
  <2> QED BY <2>1, <2>2
<1> DEFINE h == HashOf(msg.body, msg.body)
<1>3. msg' = Message(msg.body, msg.nonce, msg.time, msg.fee, p, h, o)
  <2> HIDE DEF h
  <2> QED BY <1>2 DEF Message, h
<1>4. h = HashOf(h.body, h.sig) /\ h.body = msg.body /\ h.sig = msg.body
  BY DEF HashOf
<1> HIDE DEF h
<1>5. /\ Shaped(msg') /\ msg'.body = msg.body /\ msg'.nonce = msg.nonce
      /\ msg'.pair = p /\ msg'.hash = h /\ msg'.of = o
  BY <1>3, Fields
<1>6. status' = "signed" /\ UNCHANGED <<call, ledger, start, clock, steps, asked>>
  BY DEF Sign
<1>7. Hashed(msg')
  BY <1>1, <1>4, <1>5 DEF Hashed
<1>8. Paired'
  BY <1>1, <1>2, <1>5, <1>6, <1>7 DEF Paired, Given
<1> QED BY <1>1, <1>5, <1>6, <1>8, Afterwards

\* An edit leaves both signatures and the hash.
LEMMA EditKeeps ==
  ASSUME Inv, Edit
  PROVE  Inv'
<1>1. Held /\ Shaped(msg) /\ msg.body \in Nat
  BY DEF Edit, Inv, Paired
<1>2. msg' = Message(msg.body + 1, msg.nonce, msg.time, msg.fee, msg.pair, msg.hash, msg.of)
  BY <1>1, Updates DEF Edit
<1>3. /\ Shaped(msg') /\ msg'.body = msg.body + 1 /\ msg'.nonce = msg.nonce
      /\ msg'.pair = msg.pair /\ msg'.hash = msg.hash /\ msg'.of = msg.of
  BY <1>2, Fields
<1>4. status' = status /\ UNCHANGED <<call, ledger, start, clock, steps, asked>>
  BY DEF Edit
<1>5. Hashed(msg) => Hashed(msg')
  BY <1>1, <1>3 DEF Hashed
<1>6. Collected(msg) => Collected(msg')
  BY <1>3 DEF Collected
<1>7. Paired'
  BY <1>1, <1>3, <1>4, <1>5, <1>6 DEF Inv, Paired, Given, Held
<1> QED BY <1>1, <1>3, <1>4, <1>7, Afterwards DEF Held

\* A new hash keeps the operator's signature and moves on to the body there is now.
LEMMA FinalizeKeeps ==
  ASSUME Inv, Finalize
  PROVE  Inv'
<1>1. Held /\ Shaped(msg) /\ msg.body \in Nat
  BY DEF Finalize, Inv, Paired
<1> DEFINE h == HashOf(msg.body, Signature)
<1>2. h = HashOf(h.body, h.sig) /\ h.body = msg.body /\ h.sig = Signature
  BY DEF HashOf
<1>3. msg' = [msg EXCEPT !.hash = h]
  BY DEF Finalize
<1> HIDE DEF h
<1>4. msg' = Message(msg.body, msg.nonce, msg.time, msg.fee, msg.pair, h, msg.of)
  BY <1>1, <1>3, Updates
<1>5. /\ Shaped(msg') /\ msg'.body = msg.body /\ msg'.nonce = msg.nonce
      /\ msg'.pair = msg.pair /\ msg'.hash = h /\ msg'.of = msg.of
  BY <1>4, Fields
<1>6. status' = status /\ UNCHANGED <<call, ledger, start, clock, steps, asked>>
  BY DEF Finalize
<1>7. Hashed(msg) => h.sig = msg.hash.sig
  BY <1>2, HashGiven DEF Signature
<1>8. Hashed(msg) => Hashed(msg')
  BY <1>1, <1>2, <1>5, <1>7 DEF Hashed
<1>9. Hashed(msg) /\ Collected(msg) => Collected(msg')
  BY <1>1, <1>2, <1>5, <1>7 DEF Hashed, Collected
<1>10. Paired'
  BY <1>1, <1>5, <1>6, <1>8, <1>9 DEF Inv, Paired, Given, Held
<1> QED BY <1>1, <1>5, <1>6, <1>10, Afterwards DEF Held

\* The second signature is collected over the hash there is.
LEMMA AttachKeeps ==
  ASSUME Inv, Attach
  PROVE  Inv'
<1>1. Held /\ Shaped(msg) /\ msg.body \in Nat /\ Hashed(msg)
  BY DEF Attach, Held, Inv, Paired
<1>2. msg' = [msg EXCEPT !.pair = SignatureLength, !.of = msg.hash]
  BY DEF Attach
<1>3. msg' = Message(msg.body, msg.nonce, msg.time, msg.fee, SignatureLength, msg.hash, msg.hash)
  BY <1>1, <1>2, PairUpdated
<1>4. /\ Shaped(msg') /\ msg'.body = msg.body /\ msg'.nonce = msg.nonce
      /\ msg'.hash = msg.hash /\ msg'.of = msg.hash
  BY <1>3, Fields
<1>5. /\ status' = "signed" /\ UNCHANGED <<call, ledger, start, clock, steps, asked>>
  BY DEF Attach
<1>6. Given(msg'.of) /\ Hashed(msg')
  BY <1>1, <1>4, HashGiven DEF Hashed
<1>7. Collected(msg')
  BY <1>1, <1>4 DEF Hashed, Collected
<1>8. Paired'
  BY <1>1, <1>4, <1>5, <1>6, <1>7 DEF Paired
<1> QED BY <1>1, <1>4, <1>5, <1>8, Afterwards

\* Sending changes nothing of the message.
LEMMA SendKeeps ==
  ASSUME Inv, Send
  PROVE  Inv'
<1>1. /\ status = "signed" /\ status' = "sent" /\ msg' = msg
      /\ UNCHANGED <<call, ledger, start, clock, steps, asked>>
      /\ call.kind = "registration" => msg.pair > 0
  BY DEF Send
<1>2. Paired'
  BY <1>1 DEF Inv, Paired, Given, Held
<1> QED BY <1>1, <1>2, Afterwards DEF Held

\* While an answer is awaited nothing is built.
LEMMA EnvironmentKeeps ==
  ASSUME Inv, Tick \/ Include
  PROVE  Inv'
<1>1. /\ status = "building" /\ UNCHANGED <<call, start, status, steps, asked, msg>>
      /\ \/ clock' = clock + 1 /\ ledger' = ledger
         \/ clock' = clock /\ ledger' = [ledger EXCEPT !.used = @ + 1]
  BY DEF Tick, Include, Awaiting
<1>2. "used" \in DOMAIN ledger /\ ledger.used \in Nat /\ start.used \in Nat
      /\ start.used <= ledger.used /\ clock \in Nat
  BY DEF Inv, Typed
<1>3. /\ "used" \in DOMAIN ledger' /\ ledger'.used \in {ledger.used, ledger.used + 1}
      /\ clock' \in Nat
  BY <1>1, <1>2
<1>4. Typed'
  BY <1>1, <1>2, <1>3 DEF Inv, Typed
<1>5. Allowed' = Allowed
  BY <1>1 DEF Allowed, Calculates, Offline
<1>6. NonceTaken => NonceTaken'
  BY <1>1, <1>2, <1>3 DEF NonceTaken, Given
<1>7. StepsLeft'
  BY <1>1, <1>5, <1>6 DEF Inv, StepsLeft, Built, NonceLeft
<1>8. Silent' /\ ContextFresh' /\ Paired'
  BY <1>1 DEF Inv, Silent, Offline, ContextFresh, Built, Paired, Held
<1> QED BY <1>4, <1>7, <1>8 DEF Inv

\* The invariant holds of every call.
THEOREM Invariant == Spec => []Inv
<1>1. Inv /\ [Next]_vars => Inv'
  <2> SUFFICES ASSUME Inv, [Next]_vars PROVE Inv'
    OBVIOUS
  <2>1. CASE UNCHANGED vars
    <3>1. Allowed' = Allowed
      BY <2>1 DEF vars, Allowed, Calculates, Offline
    <3>2. Typed' /\ Silent' /\ ContextFresh' /\ Paired'
      BY <2>1 DEF vars, Inv, Typed, Silent, Offline, ContextFresh, Built, Paired, Held
    <3>3. StepsLeft'
      BY <2>1, <3>1 DEF vars, Inv, StepsLeft, NonceLeft, NonceTaken, Built, Given
    <3> QED BY <3>2, <3>3 DEF Inv
  <2> QED BY <2>1, CheckKeeps, ReadKeeps, TakeNonceKeeps, ChecksKeep, FeesKeep, SignKeeps,
             EditKeeps, FinalizeKeeps, AttachKeeps, SendKeeps, EnvironmentKeeps DEF Next
<1> QED BY <1>1, InitHolds, PTL DEF Spec

\* A text proposal comes back with its context still valid, however long the answers took and
\* whatever was given (proposal/transaction.ts:239).
THEOREM ContextStays == Spec => []ContextFresh
<1>1. Inv => ContextFresh
  BY DEF Inv
<1> QED BY <1>1, Invariant, PTL

\* A builder looks up what it was not given, during the call, and nothing else
\* (mint/transaction.ts:112, items/transaction.ts:155, shared/tx/base.ts:79).
THEOREM LookupsStay == Spec => []LookupsOfCall
<1>1. Inv => LookupsOfCall
  <2>1. Inv => OfflineSilent
    BY Recipes DEF Inv, Typed, Silent, OfflineSilent, Offline
  <2>2. Inv => NonceOfCall
    BY DEF Inv, StepsLeft, NonceTaken, NonceOfCall
  <2> QED BY <2>1, <2>2 DEF LookupsOfCall
<1> QED BY <1>1, Invariant, PTL

\* The second signature of a registration goes with the operator's: it covers the one the message
\* has, and is over the hash whenever that is of what the operator signed, whatever was changed,
\* signed and hashed again in between (sign/finalize.ts:71, validator-ops/transaction.ts:403).
THEOREM PairsMatch == Spec => []RegistrationPaired
<1>1. ASSUME Inv, call.kind = "registration"
      PROVE  /\ Given(msg.of) =>
                  /\ msg.of.sig = msg.hash.sig
                  /\ msg.hash.body = msg.hash.sig => msg.of = msg.hash
             /\ status = "sent" => Given(msg.of)
  <2>1. /\ Given(msg.of) => Hashed(msg) /\ Collected(msg)
        /\ status = "sent" => Given(msg.of)
    BY <1>1 DEF Inv, Paired
  <2>2. Collected(msg) => msg.of.sig = msg.hash.sig
    BY DEF Collected, HashOf
  <2>3. ASSUME Hashed(msg), Collected(msg), msg.hash.body = msg.hash.sig
        PROVE  msg.of = msg.hash
    <3>1. msg.of.body = msg.hash.body
      BY <2>3 DEF Hashed, Collected
    <3> QED BY <2>3, <3>1 DEF Hashed, Collected
  <2> QED BY <2>1, <2>2, <2>3
<1>2. Inv => RegistrationPaired
  BY <1>1 DEF RegistrationPaired
<1> QED BY <1>2, Invariant, PTL

-----------------------------------------------------------------------------
(* Amounts and their digits *)

\* An amount has a digit, and none but those of the powers it reaches.
LEMMA DigitsBounds ==
  ASSUME NEW n \in Nat
  PROVE  /\ Digits(n) \in Nat /\ Digits(n) >= 1 /\ Digits(n) <= Cardinality(Powers) + 1
         /\ n < 10 => Digits(n) = 1
<1> DEFINE S == {p \in Powers : p <= n}
<1>1. IsFiniteSet(Powers) /\ S \in SUBSET Powers
  BY BuilderConstants
<1>2. IsFiniteSet(S) /\ Cardinality(S) <= Cardinality(Powers)
  BY <1>1, FS_Subset
<1>3. Cardinality(S) \in Nat /\ Cardinality(Powers) \in Nat
  BY <1>1, <1>2, FS_CardinalityType
<1>4. n < 10 => S = {}
  BY BuilderConstants
<1>5. n < 10 => Cardinality(S) = 0
  BY <1>4, FS_EmptySet
<1>6. Digits(n) = 1 + Cardinality(S)
  BY DEF Digits
<1> HIDE DEF S
<1> QED BY <1>2, <1>3, <1>5, <1>6

\* An amount less than ten times another has one digit more at the most.
LEMMA DigitsGrow ==
  ASSUME NEW n \in Nat, NEW m \in Nat, m <= 7 * n
  PROVE  Digits(m) <= Digits(n) + 1
<1> DEFINE S == {p \in Powers : p <= n}
           T == {p \in Powers : p <= m}
<1>1. \A p \in Powers : p \in Nat
  BY BuilderConstants
<1>2. IsFiniteSet(Powers) /\ S \in SUBSET Powers /\ T \in SUBSET Powers
  BY BuilderConstants
<1>3. IsFiniteSet(S) /\ IsFiniteSet(T)
  BY <1>2, FS_Subset
<1>4. \A p, q \in T \ S : p = q
  <2> SUFFICES ASSUME NEW p \in T \ S, NEW q \in T \ S, p < q PROVE FALSE
    BY <1>1
  <2>1. /\ p \in Nat /\ q \in Nat /\ p > n /\ q <= m
    BY <1>1
  <2>2. 10 * p <= q
    BY BuilderConstants
  <2> QED BY <2>1, <2>2
<1>5. \E x : T \subseteq S \cup {x}
  <2>1. CASE T \ S = {}
    BY <2>1
  <2>2. CASE T \ S # {}
    <3>1. PICK x \in T \ S : TRUE
      BY <2>2
    <3>2. T \subseteq S \cup {x}
      BY <1>4, <3>1
    <3> QED BY <3>2
  <2> QED BY <2>1, <2>2
<1>6. PICK x : T \subseteq S \cup {x}
  BY <1>5
<1>7. IsFiniteSet(S \cup {x}) /\ Cardinality(S \cup {x}) <= Cardinality(S) + 1
  <2>1. Cardinality(S) \in Nat
    BY <1>3, FS_CardinalityType
  <2> HIDE DEF S
  <2>2. IsFiniteSet(S)
    BY <1>3
  <2>3. /\ IsFiniteSet(S \cup {x})
        /\ Cardinality(S \cup {x}) = IF x \in S THEN Cardinality(S) ELSE Cardinality(S) + 1
    BY <2>2, FS_AddElement, Zenon
  <2> QED BY <2>1, <2>3
<1>8. Cardinality(T) <= Cardinality(S \cup {x})
  <2> HIDE DEF S, T
  <2> QED BY <1>6, <1>7, FS_Subset
<1>9. Cardinality(S) \in Nat /\ Cardinality(T) \in Nat /\ Cardinality(S \cup {x}) \in Nat
  BY <1>3, <1>7, FS_CardinalityType
<1>10. Digits(n) = 1 + Cardinality(S) /\ Digits(m) = 1 + Cardinality(T)
  BY DEF Digits
<1> HIDE DEF S, T
<1> QED BY <1>7, <1>8, <1>9, <1>10

\* Division by a positive number keeps the order.
LEMMA DivMonotone ==
  ASSUME NEW a \in Nat, NEW b \in Nat, NEW d \in Nat \ {0}, a >= b
  PROVE  a \div d \in Nat /\ b \div d \in Nat /\ a \div d >= b \div d
<1> DEFINE p == a \div d  q == b \div d
<1>1. /\ p \in Int /\ d * p <= a /\ a < d * p + d
  BY SMT
<1>2. /\ q \in Int /\ d * q <= b /\ b < d * q + d
  BY SMT
<1> HIDE DEF p, q
<1>3. p >= 0 /\ q >= 0
  <2>1. p < 0 => d * p + d <= 0
    <3>1. p < 0 => d * (p + 1) <= 0
      BY <1>1
    <3> QED BY <1>1, <3>1
  <2>2. q < 0 => d * q + d <= 0
    <3>1. q < 0 => d * (q + 1) <= 0
      BY <1>2
    <3> QED BY <1>2, <3>1
  <2> QED BY <1>1, <1>2, <2>1, <2>2
<1>4. p >= q
  <2> SUFFICES ASSUME p + 1 <= q PROVE FALSE
    BY <1>1, <1>2
  <2>1. d * (p + 1) <= d * q
    BY <1>1, <1>2
  <2>2. d * (p + 1) = d * p + d
    BY <1>1
  <2> QED BY <1>1, <1>2, <2>1, <2>2
<1> QED BY <1>1, <1>2, <1>3, <1>4 DEF p, q

\* The charge for further stages is at most the fee itself.
LEMMA StagesBounded ==
  ASSUME NEW x \in Nat, NEW d \in Nat \ {0}
  PROVE  (x + d - 1) \div d \in Nat /\ (x + d - 1) \div d <= x
<1> DEFINE q == (x + d - 1) \div d
<1>1. x + d - 1 \in Nat /\ q \in Nat
  BY DivMonotone
<1>2. d * q <= x + d - 1
  BY <1>1, SMT
<1> HIDE DEF q
<1>3. q <= x
  <2> SUFFICES ASSUME q >= x + 1 PROVE FALSE
    BY <1>1
  <2>1. d * q >= d * (x + 1)
    BY <1>1
  <2>2. d * (x + 1) = d * x + d
    OBVIOUS
  <2>3. d * x >= x
    OBVIOUS
  <2> QED BY <1>1, <1>2, <2>1, <2>2, <2>3
<1> QED BY <1>1, <1>3 DEF q

\* The price of a message of a size without its fee, with the digits of that price and five
\* percent.
Surcharged(price, size) == (price * (size + Digits(price * (size + 1))) * 105) \div 100

\* Such a price is an amount.
LEMMA SurchargedType ==
  ASSUME NEW price \in Nat, NEW size \in Nat
  PROVE  Surcharged(price, size) \in Nat
<1> DEFINE d == Digits(price * (size + 1))
           x == (price * (size + d)) * 105
<1>1. d \in Nat
  <2>1. price * (size + 1) \in Nat
    OBVIOUS
  <2> QED BY <2>1, DigitsBounds
<1>2. Surcharged(price, size) = x \div 100
  BY DEF Surcharged
<1> HIDE DEF d
<1>3. x \in Nat
  BY <1>1
<1> HIDE DEF x
<1> QED BY <1>2, <1>3, DivMonotone

\* The five percent make up for the digits of the fee, also when it is doubled for further
\* stages or has the digits of its gas.
LEMMA FivePercent ==
  ASSUME NEW price \in Nat, NEW size \in Nat, NEW gas \in Nat, NEW fee \in Nat,
         size > Cardinality(Powers), size >= 20 * Digits(gas),
         fee <= 2 * (gas + Surcharged(price, size))
  PROVE  Surcharged(price, size) >= price * (size + Digits(fee))
<1> DEFINE first == price * (size + 1)
           est == Surcharged(price, size)
<1>0. first \in Nat /\ first = price * (size + 1) /\ fee <= 2 * (gas + est)
  OBVIOUS
<1> HIDE DEF first
<1> DEFINE d == Digits(first)  e == Digits(fee)  g == Digits(gas)  p == Cardinality(Powers)
<1>1. /\ d \in Nat /\ d >= 1 /\ d <= p + 1
      /\ e \in Nat /\ e >= 1
      /\ g \in Nat /\ g >= 1
      /\ p \in Nat
  BY <1>0, DigitsBounds, BuilderConstants, FS_CardinalityType
<1>2. gas <= first /\ fee <= 7 * first => e <= d + 1
  BY <1>0, DigitsGrow
<1>3. gas >= first /\ fee <= 7 * gas => e <= g + 1
  BY <1>0, DigitsGrow
<1>4. est = (price * (size + d) * 105) \div 100
  BY DEF Surcharged, first
<1>5. size > p /\ size >= 20 * g
  OBVIOUS
<1> HIDE DEF d, e, g, p, est
<1> DEFINE x == price * (size + d)
<1>6. x \in Nat /\ est \in Nat /\ 100 * est <= 105 * x /\ 105 * x < 100 * est + 100
  <2>1. x \in Nat
    BY <1>1
  <2>2. est = (x * 105) \div 100
    BY <1>4
  <2> HIDE DEF x
  <2>3. x * 105 \in Nat
    BY <2>1
  <2>4. est \in Nat
    BY <2>2, <2>3, DivMonotone
  <2> QED BY <2>1, <2>2, <2>4
<1>7. x <= 2 * first
  <2>1. size + d <= 2 * (size + 1)
    BY <1>1, <1>5
  <2>2. price * (size + d) <= price * (2 * (size + 1))
    BY <2>1, <1>1
  <2>3. price * (2 * (size + 1)) = 2 * first
    BY <1>0
  <2> QED BY <2>2, <2>3
<1>8. 20 * (e - d) <= size + d
  <2>1. 2 * (gas + est) <= 2 * gas + 5 * first
    <3> HIDE DEF x
    <3> QED BY <1>0, <1>6, <1>7
  <2>2. CASE gas <= first
    <3>1. fee <= 7 * first
      BY <1>0, <1>6, <2>1, <2>2
    <3> QED BY <1>1, <1>2, <1>5, <2>2, <3>1
  <2>3. CASE gas > first
    <3>1. fee <= 7 * gas
      BY <1>0, <1>6, <2>1, <2>3
    <3> QED BY <1>0, <1>1, <1>3, <1>5, <2>3, <3>1
  <2> QED BY <1>0, <2>2, <2>3
<1>9. 100 * (price * (size + e)) <= 105 * x
  <2>1. 100 * (size + e) <= 105 * (size + d)
    BY <1>1, <1>8
  <2>2. price * (100 * (size + e)) <= price * (105 * (size + d))
    BY <1>1, <2>1
  <2>3. /\ price * (100 * (size + e)) = 100 * (price * (size + e))
        /\ price * (105 * (size + d)) = 105 * (price * (size + d))
    BY <1>1
  <2> QED BY <2>2, <2>3
<1>10. price * (size + e) \in Nat
  BY <1>1
<1>11. est >= price * (size + e)
  <2> DEFINE y == price * (size + e)
  <2>1. y \in Nat /\ 100 * y <= 105 * x
    BY <1>9, <1>10
  <2> HIDE DEF x, y
  <2>2. est >= y
    BY <1>6, <2>1
  <2> QED BY <2>2 DEF y
<1> QED BY <1>11 DEF e, est

-----------------------------------------------------------------------------
(* The automatic fee *)

\* What comes before the fee.
Front == Reads \cup {"nonce", "dates"}

\* Where a call whose fee is calculated ends: a proposal that has a snapshot with its stages.
LEMMA Endings ==
  ASSUME call.kind \in Kinds, Builder.valid, ~Given(call.fee)
  PROVE  IF call.kind = "governance"
         THEN Builder.finish = <<"stage">> /\ Given(call.in.governance)
         ELSE Builder.finish \in {<<>>, <<"context">>, <<"empty">>, <<"schedule">>}
<1>1. CASE call.kind = "mint"
  <2>1. Builder = Mint(call.in)
    BY <1>1 DEF Builder
  <2> QED BY <1>1, <2>1 DEF Mint, Standard, Plain
<1>2. CASE call.kind = "revoke"
  <2>1. Builder = Revoke(call.in)
    BY <1>2 DEF Builder
  <2> QED BY <1>2, <2>1 DEF Revoke, Standard, Plain
<1>3. CASE call.kind = "allowance"
  <2>1. Builder = Allowance(call.in)
    BY <1>3 DEF Builder
  <2> QED BY <1>3, <2>1 DEF Allowance, Standard, Plain
<1>4. CASE call.kind = "compliance"
  <2>1. Builder = Compliance(call.in)
    BY <1>4 DEF Builder
  <2> QED BY <1>4, <2>1 DEF Compliance, Standard, Plain
<1>5. CASE call.kind = "expenseRatio"
  <2>1. Builder = ExpenseRatio(call.in)
    BY <1>5 DEF Builder
  <2> QED BY <1>5, <2>1 DEF ExpenseRatio, Standard, Plain
<1>6. CASE call.kind = "delegated"
  <2>1. Builder = Delegated(call.in)
    BY <1>6 DEF Builder
  <2> QED BY <1>6, <2>1 DEF Delegated, Standard, Plain
<1>7. CASE call.kind = "registration"
  <2>1. Builder = Registration(call.in)
    BY <1>7 DEF Builder
  <2> QED BY <1>7, <2>1 DEF Registration, Standard, Plain
<1>8. CASE call.kind = "governance"
  <2>1. Builder = Governance(call.in)
    BY <1>8 DEF Builder
  <2>2. Given(call.in.governance)
    BY <2>1 DEF Governance, Standard, Plain
  <2>3. Builder.finish = <<"stage">>
    BY <2>1, <2>2 DEF Governance, Standard, Plain
  <2> QED BY <1>8, <2>2, <2>3
<1>9. CASE call.kind = "heartbeat"
  <2>1. Builder = Heartbeat
    BY <1>9 DEF Builder
  <2> QED BY <1>9, <2>1 DEF Heartbeat, Standard, Plain
<1>10. CASE call.kind = "text"
  <2>1. Builder = TextProposal(call.in)
    BY <1>10 DEF Builder
  <2>2. Builder.finish = <<"context">>
    BY <2>1 DEF TextProposal, Plain
  <2> QED BY <1>10, <2>2
<1>11. CASE call.kind = "vote"
  <2>1. Builder = Vote(call.in)
    BY <1>11 DEF Builder
  <2>2. Builder.finish = <<>>
    BY <2>1 DEF Vote, Plain
  <2> QED BY <1>11, <2>2
<1>12. CASE call.kind = "cancel"
  <2>1. Builder = Cancel(call.in)
    BY <1>12 DEF Builder
  <2> QED BY <1>12, <2>1 DEF Cancel, Plain
<1>13. CASE call.kind = "deploy"
  <2>1. Builder = Deploy(call.in)
    BY <1>13 DEF Builder
  <2> QED BY <1>13, <2>1 DEF Deploy, Plain
<1>14. CASE call.kind = "execute"
  <2>1. Builder = Execute(call.in)
    BY <1>14 DEF Builder
  <2> QED BY <1>14, <2>1 DEF Execute, Plain
<1>15. CASE call.kind = "itemMint"
  <2>1. Builder = ItemMint(call.in)
    BY <1>15 DEF Builder
  <2> QED BY <1>15, <2>1 DEF ItemMint, Always, Plain
<1>16. CASE call.kind = "nft"
  <2>1. Builder = Nft(call.in)
    BY <1>16 DEF Builder
  <2> QED BY <1>16, <2>1 DEF Nft, Always, Plain
<1>17. CASE call.kind = "create"
  <2>1. Builder = Create(call.in)
    BY <1>17 DEF Builder
  <2> QED BY <1>17, <2>1 DEF Create, Always, Plain
<1>18. CASE call.kind = "update"
  <2>1. Builder = Update(call.in)
    BY <1>18 DEF Builder
  <2> QED BY <1>18, <2>1 DEF Update, Always, Plain
<1>19. CASE call.kind = "burnSbt"
  <2>1. Builder = BurnSbt
    BY <1>19 DEF Builder
  <2> QED BY <1>19, <2>1 DEF BurnSbt, Always, Plain
<1> QED BY <1>1, <1>2, <1>3, <1>4, <1>5, <1>6, <1>7, <1>8, <1>9, <1>10, <1>11, <1>12, <1>13, <1>14, <1>15, <1>16, <1>17, <1>18, <1>19 DEF Kinds

\* The fee is still to be calculated, after everything else but one step at the end.
AheadOfFee(s) ==
  \E j \in 1..Len(s) :
    /\ s[j] = "fee" /\ j + 1 >= Len(s)
    /\ \A i \in 1..Len(s) : i < j => s[i] \in Front
    /\ \A i \in 1..Len(s) : i > j => s[i] \in Finishes

\* Taking a step away.
LEMMA FeeMoves ==
  ASSUME NEW S, NEW s \in Seq(S), AheadOfFee(s)
  PROVE  /\ Head(s) \in Front \cup {"fee"}
         /\ Head(s) # "fee" => AheadOfFee(Tail(s))
         /\ Head(s) = "fee" =>
              /\ ~\E i \in 1..Len(s) : s[i] = "nonce"
              /\ Tail(s) # <<>> => Len(Tail(s)) = 1 /\ Tail(s)[1] \in Finishes
<1>1. PICK j \in 1..Len(s) :
        /\ s[j] = "fee" /\ j + 1 >= Len(s)
        /\ \A i \in 1..Len(s) : i < j => s[i] \in Front
        /\ \A i \in 1..Len(s) : i > j => s[i] \in Finishes
  BY DEF AheadOfFee
<1>2. /\ Len(s) \in Nat /\ Len(s) > 0 /\ s # <<>> /\ Head(s) = s[1]
      /\ Tail(s) \in Seq(S) /\ Len(Tail(s)) = Len(s) - 1
      /\ \A i \in 1..Len(s) - 1 : Tail(s)[i] = s[i + 1]
  BY <1>1
<1>3. "fee" \notin Front /\ "fee" \notin Finishes /\ "nonce" \notin Finishes
  BY DEF Front, Reads, Finishes
<1>4. Head(s) \in Front \cup {"fee"}
  BY <1>1, <1>2
<1>5. ASSUME Head(s) # "fee" PROVE AheadOfFee(Tail(s))
  <2>1. j > 1
    BY <1>1, <1>2, <1>5
  <2>2. /\ j - 1 \in 1..Len(Tail(s)) /\ Tail(s)[j - 1] = "fee" /\ j - 1 + 1 >= Len(Tail(s))
    BY <1>1, <1>2, <2>1
  <2>3. ASSUME NEW i \in 1..Len(Tail(s))
        PROVE  /\ i < j - 1 => Tail(s)[i] \in Front
               /\ i > j - 1 => Tail(s)[i] \in Finishes
    <3>1. i + 1 \in 1..Len(s) /\ Tail(s)[i] = s[i + 1]
      BY <1>2, <2>3
    <3> QED BY <1>1, <3>1
  <2> QED BY <2>2, <2>3 DEF AheadOfFee
<1>6. ASSUME Head(s) = "fee"
      PROVE  /\ ~\E i \in 1..Len(s) : s[i] = "nonce"
             /\ Tail(s) # <<>> => Len(Tail(s)) = 1 /\ Tail(s)[1] \in Finishes
  <2>1. j = 1
    <3>1. 1 < j => s[1] \in Front
      BY <1>1, <1>2
    <3> QED BY <1>1, <1>2, <1>3, <1>6, <3>1
  <2>2. ~\E i \in 1..Len(s) : s[i] = "nonce"
    <3> SUFFICES ASSUME NEW i \in 1..Len(s), s[i] = "nonce" PROVE FALSE
      OBVIOUS
    <3>1. i > 1
      BY <1>1, <2>1
    <3> QED BY <1>1, <1>3, <2>1, <3>1
  <2>3. Tail(s) # <<>> => Len(Tail(s)) > 0
    BY <1>2
  <2>4. Tail(s) # <<>> => Len(Tail(s)) = 1 /\ Tail(s)[1] \in Finishes
    <3> SUFFICES ASSUME Tail(s) # <<>> PROVE Len(Tail(s)) = 1 /\ Tail(s)[1] \in Finishes
      OBVIOUS
    <3>1. Len(s) = 2 /\ Len(Tail(s)) = 1
      BY <1>1, <1>2, <2>1, <2>3
    <3>2. Tail(s)[1] = s[2]
      BY <1>2, <3>1
    <3> QED BY <1>1, <2>1, <3>1, <3>2
  <2> QED BY <2>2, <2>4
<1> QED BY <1>4, <1>5, <1>6

\* A call whose fee is not given begins with the fee ahead, and ends with the stages if it is a
\* proposal.
LEMMA FeeFirst ==
  ASSUME call.kind \in Kinds, Builder.valid, ~Given(call.fee)
  PROVE  /\ AheadOfFee(Steps)
         /\ Steps[Len(Steps)] = "stage" <=> call.kind = "governance"
<1> DEFINE before == IF Offline THEN <<>> ELSE Builder.before
           after  == IF Offline THEN <<>> ELSE Builder.after
           checks == Builder.checks
           finish == Builder.finish
           front  == before \o <<"nonce">> \o checks \o after
<1>1. Steps = (front \o <<"fee">>) \o finish
  BY DEF Steps, NeedsFee
<1>2. /\ before \in Seq(Front) /\ checks \in Seq(Front) /\ after \in Seq(Front)
      /\ <<"nonce">> \in Seq(Front)
  <2>1. Reads \subseteq Front /\ {"dates"} \subseteq Front /\ "nonce" \in Front
    BY DEF Front
  <2> HIDE DEF Front, Reads
  <2>2. \A S : S \subseteq Front => \A q \in Seq(S) : q \in Seq(Front)
    OBVIOUS
  <2>3. <<>> \in Seq(Front) /\ <<"nonce">> \in Seq(Front)
    BY <2>1
  <2> QED BY <2>1, <2>2, <2>3, Recipes
<1>3. IF call.kind = "governance" THEN finish = <<"stage">>
      ELSE finish \in {<<>>, <<"context">>, <<"empty">>, <<"schedule">>}
  BY Endings
<1> HIDE DEF before, after, checks, finish
<1>4. front \in Seq(Front)
  <2>1. \A p, q \in Seq(Front) : p \o q \in Seq(Front)
    OBVIOUS
  <2> QED BY <1>2, <2>1
<1> HIDE DEF front
<1>5. PICK k \in Nat : k = Len(front)
  BY <1>4
<1>6. \A i \in 1..k : front[i] \in Front
  BY <1>4, <1>5
<1>7. CASE finish = <<>>
  <2>1. Steps = front \o <<"fee">>
    <3>1. front \o <<"fee">> \in Seq(Front \cup {"fee"})
      BY <1>4
    <3> QED BY <1>1, <1>7, <3>1
  <2>2. /\ Len(Steps) = k + 1 /\ Steps[k + 1] = "fee"
        /\ \A i \in 1..k : Steps[i] = front[i]
    BY <1>4, <1>5, <2>1
  <2>3. AheadOfFee(Steps)
    <3>1. \A i \in 1..Len(Steps) : i < k + 1 => Steps[i] \in Front
      BY <1>6, <2>2
    <3>2. k + 1 \in 1..Len(Steps) /\ \A i \in 1..Len(Steps) : ~(i > k + 1)
      BY <2>2
    <3> QED BY <2>2, <3>1, <3>2 DEF AheadOfFee
  <2>4. call.kind # "governance"
    BY <1>3, <1>7
  <2> QED BY <2>2, <2>3, <2>4
<1>8. ASSUME NEW x \in Finishes, finish = <<x>>
      PROVE  AheadOfFee(Steps) /\ Steps[Len(Steps)] = x
  <2>1. front \o <<"fee">> \in Seq(Front \cup {"fee"})
    BY <1>4
  <2>2. /\ Len(Steps) = k + 2 /\ Steps[k + 1] = "fee" /\ Steps[k + 2] = x
        /\ \A i \in 1..k : Steps[i] = front[i]
    BY <1>1, <1>4, <1>5, <1>8, <2>1
  <2>3. AheadOfFee(Steps)
    <3>1. \A i \in 1..Len(Steps) : i < k + 1 => Steps[i] \in Front
      BY <1>6, <2>2
    <3>2. k + 1 \in 1..Len(Steps) /\ \A i \in 1..Len(Steps) : i > k + 1 => Steps[i] = x
      BY <2>2
    <3> QED BY <1>8, <2>2, <3>1, <3>2 DEF AheadOfFee
  <2> QED BY <2>2, <2>3
<1>9. CASE finish # <<>>
  <2>1. PICK x \in Finishes : finish = <<x>> /\ (x = "stage" <=> call.kind = "governance")
    BY <1>3, <1>9 DEF Finishes
  <2> QED BY <1>8, <2>1
<1> QED BY <1>7, <1>9

\* What calculateBaseFee makes of a message with its placeholders.
AutoFee == Surcharged(ledger.price, call.payload + Placeholder)

\* The fee that goes out: with its gas, and for every stage.
FinalFee ==
  IF call.kind = "governance" THEN StageFee(call.gas + AutoFee) ELSE call.gas + AutoFee

\* What the cases say of sizes and prices.
Sized ==
  /\ call.payload \in Nat /\ call.gas \in Nat
  /\ call.payload > Cardinality(Powers) /\ call.payload >= 20 * Digits(call.gas)
  /\ call.kind = "governance" /\ Given(call.in.governance) => call.in.governance.stages \in Nat
  /\ "price" \in DOMAIN ledger /\ ledger.price \in Nat

\* The fee is ahead, its placeholder in the message as soon as there is one; or it is
\* calculated, with one step left.
Charging ==
  /\ steps[Len(steps)] = "stage" <=> call.kind = "governance"
  /\ call.kind = "governance" => Given(call.in.governance)
  /\ \/ AheadOfFee(steps) /\ (NonceLeft \/ (msg.fee = 1 /\ msg.pair = Placeholder))
     \/ /\ Len(steps) = 1 /\ steps[1] \in Finishes
        /\ msg.fee = call.gas + AutoFee /\ msg.pair = Placeholder

Charged ==
  /\ call.kind = "governance" => Given(call.in.governance)
  /\ msg.fee = FinalFee /\ msg.pair \in {0, Placeholder}
  /\ status = "sent" => msg.pair = Placeholder

FeeInv ==
  /\ Sized
  /\ ~Given(call.fee) => /\ status = "building" => Charging
                         /\ Built => Charged

\* The fee depends on the call and the price alone.
LEMMA FeesUnchanged ==
  ASSUME UNCHANGED call, ledger'.price = ledger.price
  PROVE  AutoFee' = AutoFee /\ FinalFee' = FinalFee /\ Placeholder' = Placeholder
<1>1. Placeholder' = Placeholder
  BY DEF Placeholder, SignatureLength
<1>2. AutoFee' = AutoFee
  BY <1>1 DEF AutoFee
<1> QED BY <1>1, <1>2 DEF FinalFee, StageFee, Divisor

\* A message with its placeholders is charged the automatic fee.
LEMMA EstimatedIsAuto ==
  ASSUME Sized, Shaped(msg), msg.fee = 1, msg.pair = Placeholder
  PROVE  Estimated(msg) = AutoFee
<1>1. Digits(1) = 1
  BY DigitsBounds
<1> DEFINE first == Price(Size(msg))  q == [msg EXCEPT !.fee = first]
<1>2. Size(msg) = call.payload + Placeholder + 1
  BY <1>1 DEF Size
<1>3. q = Message(msg.body, msg.nonce, msg.time, first, msg.pair, msg.hash, msg.of)
  BY Updates
<1>4. q.fee = first /\ q.pair = Placeholder
  BY <1>3, Fields
<1>5. Size(q) = call.payload + Placeholder + Digits(first)
  BY <1>4 DEF Size
<1>6. Estimated(msg) = (Price(Size(q)) * 105) \div 100
  BY DEF Estimated
<1> HIDE DEF q
<1> QED BY <1>2, <1>5, <1>6 DEF AutoFee, Surcharged, Price

\* An answer, or a check that passes, leaves the message as it is.
LEMMA FeeWaits ==
  ASSUME Inv, FeeInv, ~Given(call.fee), NEW x \in Front \ {"nonce"}, At(x), Advance,
         UNCHANGED <<call, ledger, msg>>
  PROVE  FeeInv'
<1>1. /\ status = "building" /\ steps # <<>> /\ Head(steps) = x /\ steps' = Tail(steps)
      /\ steps \in Seq(Allowed) /\ Charging
      /\ status' = IF Tail(steps) = <<>> THEN "built" ELSE "building"
  BY DEF At, Advance, Inv, StepsLeft, FeeInv
<1>2. Placeholder' = Placeholder /\ AutoFee' = AutoFee
  BY FeesUnchanged
<1>3. x \notin Finishes /\ x # "fee"
  BY DEF Front, Reads, Finishes
<1>4. AheadOfFee(steps) /\ (NonceLeft \/ (msg.fee = 1 /\ msg.pair = Placeholder))
  BY <1>1, <1>3 DEF Charging
<1>5. AheadOfFee(steps')
  BY <1>1, <1>3, <1>4, FeeMoves
<1>6. NonceLeft => \E i \in 1..Len(steps') : steps'[i] = "nonce"
  <2>1. Head(steps) # "nonce"
    BY <1>1
  <2>2. \A y : (\E i \in 1..Len(steps) : steps[i] = y)
                 => Head(steps) = y \/ \E i \in 1..Len(Tail(steps)) : Tail(steps)[i] = y
    BY <1>1, Rest, Zenon
  <2> QED BY <1>1, <2>1, <2>2, Zenon DEF NonceLeft
<1>7. steps' # <<>> /\ steps'[Len(steps')] = steps[Len(steps)]
  <2>1. PICK j \in 1..Len(steps') : TRUE
    BY <1>5 DEF AheadOfFee
  <2>2. steps' # <<>>
    BY <2>1, EmptySeq
  <2> QED BY <1>1, <2>2, Rest
<1>8. Charging'
  BY <1>1, <1>2, <1>4, <1>5, <1>6, <1>7 DEF Charging, NonceLeft, Given
<1> QED BY <1>1, <1>7, <1>8 DEF FeeInv, Sized, Given, Built

\* The message is made with the placeholder of its fee and of its second signature.
LEMMA FeePlaced ==
  ASSUME Inv, FeeInv, ~Given(call.fee), TakeNonce, ~Fail
  PROVE  FeeInv'
<1>1. /\ status = "building" /\ steps # <<>> /\ Head(steps) = "nonce" /\ steps' = Tail(steps)
      /\ steps \in Seq(Allowed) /\ Charging
      /\ status' = IF Tail(steps) = <<>> THEN "built" ELSE "building"
      /\ UNCHANGED <<call, ledger>>
  BY DEF TakeNonce, At, Advance, Inv, StepsLeft, FeeInv
<1>2. Placeholder' = Placeholder /\ AutoFee' = AutoFee
  BY <1>1, FeesUnchanged
<1>3. AheadOfFee(steps)
  BY <1>1 DEF Charging, Finishes
<1>4. AheadOfFee(steps')
  BY <1>1, <1>3, FeeMoves
<1>5. msg'.fee = 1 /\ msg'.pair = Placeholder
  <2> DEFINE nonce == IF Given(call.nonce) THEN call.nonce ELSE NextNonce
             time == clock
             pair == Placeholder
  <2>1. msg' = [Blank EXCEPT !.nonce = nonce, !.fee = 1, !.time = time, !.pair = pair]
    BY DEF TakeNonce
  <2> HIDE DEF nonce, time, pair
  <2>2. msg' = Message(0, nonce, time, 1, pair, None, None)
    BY <2>1 DEF Blank, Message
  <2> QED BY <2>2, Fields DEF pair
<1>6. steps' # <<>> /\ steps'[Len(steps')] = steps[Len(steps)]
  <2>1. PICK j \in 1..Len(steps') : TRUE
    BY <1>4 DEF AheadOfFee
  <2>2. steps' # <<>>
    BY <2>1, EmptySeq
  <2> QED BY <1>1, <2>2, Rest
<1>7. Charging'
  BY <1>1, <1>2, <1>4, <1>5, <1>6 DEF Charging, Given
<1> QED BY <1>1, <1>6, <1>7 DEF FeeInv, Sized, Given, Built

\* The fee is calculated with everything in place.
LEMMA FeeCalculated ==
  ASSUME Inv, FeeInv, ~Given(call.fee), CalculateFee, ~Fail
  PROVE  FeeInv'
<1>1. /\ status = "building" /\ steps # <<>> /\ Head(steps) = "fee" /\ steps' = Tail(steps)
      /\ steps \in Seq(Allowed) /\ Charging /\ Sized /\ Shaped(msg)
      /\ status' = IF Tail(steps) = <<>> THEN "built" ELSE "building"
      /\ UNCHANGED <<call, ledger>>
      /\ msg' = [msg EXCEPT !.fee = call.gas + Estimated(msg)]
  BY DEF CalculateFee, At, Advance, Inv, StepsLeft, FeeInv, Paired
<1>2. Placeholder' = Placeholder /\ AutoFee' = AutoFee /\ FinalFee' = FinalFee
  BY <1>1, FeesUnchanged
<1>3. AheadOfFee(steps) /\ (NonceLeft \/ (msg.fee = 1 /\ msg.pair = Placeholder))
  BY <1>1 DEF Charging, Finishes
<1>4. /\ ~NonceLeft
      /\ steps' # <<>> => Len(steps') = 1 /\ steps'[1] \in Finishes
  BY <1>1, <1>3, FeeMoves DEF NonceLeft
<1>5. msg.fee = 1 /\ msg.pair = Placeholder
  BY <1>3, <1>4
<1>6. msg' = [msg EXCEPT !.fee = call.gas + AutoFee]
  BY <1>1, <1>5, EstimatedIsAuto
<1>7. msg'.fee = call.gas + AutoFee /\ msg'.pair = Placeholder
  <2> DEFINE fee == call.gas + AutoFee
  <2>1. msg' = Message(msg.body, msg.nonce, msg.time, fee, msg.pair, msg.hash, msg.of)
    BY <1>1, <1>6, Updates
  <2> HIDE DEF fee
  <2>2. msg'.fee = fee /\ msg'.pair = msg.pair
    BY <2>1, Fields
  <2> QED BY <1>5, <2>2 DEF fee
<1>8. CASE steps' = <<>>
  <2>1. steps[Len(steps)] = "fee"
    BY <1>1, <1>8, Rest
  <2>2. call.kind # "governance"
    BY <1>1, <2>1 DEF Charging
  <2>3. Charged'
    BY <1>1, <1>2, <1>7, <1>8, <2>2 DEF Charged, FinalFee
  <2> QED BY <1>1, <1>8, <2>3 DEF FeeInv, Sized, Given, Built
<1>9. CASE steps' # <<>>
  <2>1. steps'[Len(steps')] = steps[Len(steps)]
    BY <1>1, <1>9, Rest
  <2>2. Charging'
    BY <1>1, <1>2, <1>4, <1>7, <1>9, <2>1 DEF Charging, Given
  <2> QED BY <1>1, <1>9, <2>2 DEF FeeInv, Sized, Given, Built
<1> QED BY <1>8, <1>9

\* The last step: a proposal is charged for its stages, a registration loses its placeholder.
LEMMA FeeFinished ==
  ASSUME Inv, FeeInv, ~Given(call.fee), NEW x \in Finishes, At(x), Advance,
         UNCHANGED <<call, ledger>>,
         \/ x = "stage" /\ msg' = [msg EXCEPT !.fee = StageFee(@)]
         \/ x = "empty" /\ msg' = [msg EXCEPT !.pair = 0]
         \/ x \in {"context", "schedule"} /\ msg' = msg
  PROVE  FeeInv'
<1>1. /\ status = "building" /\ steps # <<>> /\ Head(steps) = x /\ steps' = Tail(steps)
      /\ steps \in Seq(Allowed) /\ Charging /\ Sized /\ Shaped(msg)
      /\ status' = IF Tail(steps) = <<>> THEN "built" ELSE "building"
  BY DEF At, Advance, Inv, StepsLeft, FeeInv, Paired
<1>2. Placeholder' = Placeholder /\ FinalFee' = FinalFee
  BY FeesUnchanged
<1>3. ~AheadOfFee(steps)
  <2>1. x \notin Front /\ x # "fee"
    BY DEF Front, Reads, Finishes
  <2> QED BY <1>1, <2>1, FeeMoves
<1>4. Len(steps) = 1 /\ msg.fee = call.gas + AutoFee /\ msg.pair = Placeholder
  BY <1>1, <1>3 DEF Charging
<1>5. steps[Len(steps)] = x /\ steps' = <<>> /\ status' = "built"
  <2>1. Len(Tail(steps)) = 0 /\ steps[1] = x
    BY <1>1, <1>4
  <2>2. Tail(steps) = <<>>
    BY <1>1, <2>1
  <2> QED BY <1>1, <1>4, <2>1, <2>2
<1>6. /\ x = "stage" <=> call.kind = "governance"
      /\ call.kind = "governance" => Given(call.in.governance)
  BY <1>1, <1>5 DEF Charging
<1>7. /\ msg'.fee = IF x = "stage" THEN StageFee(msg.fee) ELSE msg.fee
      /\ msg'.pair = IF x = "empty" THEN 0 ELSE msg.pair
  <2>1. CASE x = "stage"
    <3> DEFINE fee == StageFee(msg.fee)
    <3>1. msg' = [msg EXCEPT !.fee = fee]
      BY <2>1
    <3> HIDE DEF fee
    <3>2. msg' = Message(msg.body, msg.nonce, msg.time, fee, msg.pair, msg.hash, msg.of)
      BY <1>1, <3>1, Updates
    <3>3. msg'.fee = fee /\ msg'.pair = msg.pair
      BY <3>2, Fields
    <3> QED BY <2>1, <3>3 DEF fee
  <2>2. CASE x = "empty"
    <3>1. msg' = Message(msg.body, msg.nonce, msg.time, msg.fee, 0, msg.hash, msg.of)
      BY <1>1, <2>2, Updates
    <3> QED BY <2>2, <3>1, Fields
  <2>3. CASE x \notin {"stage", "empty"}
    BY <2>3
  <2> QED BY <2>1, <2>2, <2>3
<1>8. Charged'
  BY <1>2, <1>4, <1>5, <1>6, <1>7 DEF Charged, FinalFee, Given
<1> QED BY <1>1, <1>5, <1>8 DEF FeeInv, Sized, Given, Built

\* In the hands of the application only the second signature changes, and it is sent in full.
LEMMA FeeHeld ==
  ASSUME Inv, FeeInv, ~Given(call.fee), Sign \/ Edit \/ Finalize \/ Attach \/ Send
  PROVE  FeeInv'
<1>1. /\ Held /\ Shaped(msg) /\ UNCHANGED <<call, ledger, steps>> /\ Charged /\ Sized
      /\ status' \in {"built", "signed", "sent"}
  BY DEF Sign, Edit, Finalize, Attach, Send, Inv, Paired, Held, FeeInv, Built
<1>2. Placeholder' = Placeholder /\ FinalFee' = FinalFee
  BY <1>1, FeesUnchanged
<1>3. /\ msg'.fee = msg.fee
      /\ msg'.pair \in {0, Placeholder}
      /\ status' = "sent" => msg'.pair = Placeholder
  <2>1. CASE Sign
    <3> DEFINE h == HashOf(msg.body, msg.body)
    <3>1. CASE call.kind = "registration"
      <4>1. PICK q : q = [msg EXCEPT !.pair = 0, !.of = None] /\ msg' = [q EXCEPT !.hash = h]
        BY <2>1, <3>1 DEF Sign, Cleared
      <4>2. q = Message(msg.body, msg.nonce, msg.time, msg.fee, 0, msg.hash, None)
        BY <1>1, <4>1, PairUpdated
      <4>3. Shaped(q) /\ q.fee = msg.fee /\ q.pair = 0
        BY <4>2, Fields
      <4>4. msg' = Message(q.body, q.nonce, q.time, q.fee, q.pair, h, q.of)
        BY <4>1, <4>3, Updates
      <4>5. msg'.fee = q.fee /\ msg'.pair = q.pair
        BY <4>4, Fields
      <4> QED BY <2>1, <4>3, <4>5 DEF Sign
    <3>2. CASE call.kind # "registration"
      <4>1. msg' = [msg EXCEPT !.hash = h]
        BY <2>1, <3>2 DEF Sign, Cleared
      <4>2. msg' = Message(msg.body, msg.nonce, msg.time, msg.fee, msg.pair, h, msg.of)
        BY <1>1, <4>1, Updates
      <4>3. msg'.fee = msg.fee /\ msg'.pair = msg.pair
        BY <4>2, Fields
      <4> QED BY <1>1, <2>1, <4>3 DEF Sign, Charged
    <3> QED BY <3>1, <3>2
  <2>2. CASE Edit
    <3>1. msg' = Message(msg.body + 1, msg.nonce, msg.time, msg.fee, msg.pair, msg.hash, msg.of)
      BY <1>1, <2>2, Updates DEF Edit
    <3>2. msg'.fee = msg.fee /\ msg'.pair = msg.pair
      BY <3>1, Fields
    <3>3. status' # "sent"
      BY <1>1, <2>2 DEF Edit, Held
    <3> QED BY <1>1, <3>2, <3>3 DEF Charged
  <2>3. CASE Finalize
    <3>1. msg' = Message(msg.body, msg.nonce, msg.time, msg.fee, msg.pair,
                         HashOf(msg.body, Signature), msg.of)
      BY <1>1, <2>3, Updates DEF Finalize
    <3>2. msg'.fee = msg.fee /\ msg'.pair = msg.pair
      BY <3>1, Fields
    <3>3. status' # "sent"
      BY <1>1, <2>3 DEF Finalize, Held
    <3> QED BY <1>1, <3>2, <3>3 DEF Charged
  <2>4. CASE Attach
    <3>1. msg' = [msg EXCEPT !.pair = SignatureLength, !.of = msg.hash]
      BY <2>4 DEF Attach
    <3>2. msg' = Message(msg.body, msg.nonce, msg.time, msg.fee, SignatureLength, msg.hash, msg.hash)
      BY <1>1, <3>1, PairUpdated
    <3>3. msg'.fee = msg.fee /\ msg'.pair = SignatureLength
      BY <3>2, Fields
    <3>4. SignatureLength = Placeholder
      BY <2>4 DEF Attach, Placeholder
    <3> QED BY <3>3, <3>4
  <2>5. CASE Send
    <3>1. msg' = msg /\ (call.kind = "registration" => msg.pair > 0)
      BY <2>5 DEF Send
    <3>2. call.kind # "registration" => Placeholder = 0
      BY DEF Placeholder
    <3> QED BY <1>1, <3>1, <3>2 DEF Charged
  <2> QED BY <2>1, <2>2, <2>3, <2>4, <2>5
<1>4. Charged'
  BY <1>1, <1>2, <1>3 DEF Charged, Given
<1> QED BY <1>1, <1>4 DEF FeeInv, Sized, Given, Built

\* While an answer is awaited no price changes.
LEMMA FeeElsewhere ==
  ASSUME Inv, FeeInv, Tick \/ Include
  PROVE  FeeInv'
<1>1. /\ status = "building" /\ UNCHANGED <<call, status, steps, msg>>
      /\ ledger' = ledger \/ ledger' = [ledger EXCEPT !.used = @ + 1]
  BY DEF Tick, Include, Awaiting
<1>2. "price" \in DOMAIN ledger /\ ledger.price \in Nat
  BY DEF FeeInv, Sized
<1>3. "price" \in DOMAIN ledger' /\ ledger'.price = ledger.price
  BY <1>1, <1>2
<1>4. Placeholder' = Placeholder /\ AutoFee' = AutoFee
  BY <1>1, <1>3, FeesUnchanged
<1>5. Sized'
  BY <1>1, <1>3 DEF FeeInv, Sized, Given
<1>6. Charging => Charging'
  BY <1>1, <1>4 DEF Charging, NonceLeft, Given
<1> QED BY <1>1, <1>5, <1>6 DEF FeeInv, Given, Built

\* The checks on the input put the fee ahead.
LEMMA FeeSetUp ==
  ASSUME Inv, FeeInv, Check
  PROVE  FeeInv'
<1>1. /\ UNCHANGED <<call, ledger, msg>> /\ Sized /\ call.kind \in Kinds /\ status = "called"
  BY DEF Check, FeeInv, Inv, Typed
<1>2. CASE Builder.valid /\ ~Given(call.fee)
  <2>1. status' = "building" /\ steps' = Steps
    BY <1>2 DEF Check
  <2>2. /\ AheadOfFee(Steps)
        /\ Steps[Len(Steps)] = "stage" <=> call.kind = "governance"
        /\ call.kind = "governance" => Given(call.in.governance)
    BY <1>1, <1>2, FeeFirst, Endings
  <2>3. \E i \in 1..Len(Steps) : Steps[i] = "nonce"
    BY <1>1, FirstSteps
  <2>4. Charging'
    BY <1>1, <2>1, <2>2, <2>3 DEF Charging, NonceLeft, Given
  <2> QED BY <1>1, <2>1, <2>4 DEF FeeInv, Sized, Given, Built
<1>3. CASE ~Builder.valid
  <2>1. status' = "failed"
    BY <1>3 DEF Check
  <2> QED BY <1>1, <2>1 DEF FeeInv, Sized, Given, Built
<1>4. CASE Given(call.fee)
  BY <1>1, <1>4 DEF FeeInv, Sized, Given
<1> QED BY <1>2, <1>3, <1>4

\* What fails is never sent, and a fee that is given is not ours to judge.
LEMMA FeeExempt ==
  ASSUME FeeInv, UNCHANGED <<call, ledger>>, status' = "failed" \/ Given(call.fee)
  PROVE  FeeInv'
BY DEF FeeInv, Sized, Given, Built

\* Every step keeps it.
LEMMA FeeStep ==
  ASSUME Inv, FeeInv, [Next]_vars
  PROVE  FeeInv'
<1>1. CASE Tick \/ Include
  BY <1>1, FeeElsewhere
<1>2. CASE Check
  BY <1>2, FeeSetUp
<1>3. CASE Read \/ CheckDates
  <2>1. PICK x \in Front \ {"nonce"} :
          /\ At(x) /\ (Fail \/ (Advance /\ UNCHANGED msg))
          /\ UNCHANGED <<call, ledger>>
    BY <1>3 DEF Read, CheckDates, Front, Reads
  <2>2. CASE Fail
    BY <2>1, <2>2, FeeExempt DEF Fail
  <2> QED BY <2>1, <2>2, FeeWaits, FeeExempt
<1>4. CASE TakeNonce
  <2>1. UNCHANGED <<call, ledger>>
    BY <1>4 DEF TakeNonce
  <2> QED BY <1>4, <2>1, FeePlaced, FeeExempt DEF Fail
<1>5. CASE CalculateFee
  <2>1. UNCHANGED <<call, ledger>>
    BY <1>5 DEF CalculateFee
  <2> QED BY <1>5, <2>1, FeeCalculated, FeeExempt DEF Fail
<1>6. CASE ApplyStageFee \/ EmptySignature \/ CheckContext \/ CheckSchedule
  <2>1. PICK x \in Finishes :
          /\ At(x) /\ UNCHANGED <<call, ledger>>
          /\ \/ Fail
             \/ /\ Advance
                /\ \/ x = "stage" /\ msg' = [msg EXCEPT !.fee = StageFee(@)]
                   \/ x = "empty" /\ msg' = [msg EXCEPT !.pair = 0]
                   \/ x \in {"context", "schedule"} /\ msg' = msg
    BY <1>6 DEF ApplyStageFee, EmptySignature, CheckContext, CheckSchedule, Finishes
  <2>2. CASE Fail
    BY <2>1, <2>2, FeeExempt DEF Fail
  <2>3. CASE Given(call.fee)
    BY <2>1, <2>3, FeeExempt
  <2> QED BY <2>1, <2>2, <2>3, FeeFinished
<1>7. CASE Sign \/ Edit \/ Finalize \/ Attach \/ Send
  <2>1. UNCHANGED <<call, ledger>>
    BY <1>7 DEF Sign, Edit, Finalize, Attach, Send
  <2> QED BY <1>7, <2>1, FeeHeld, FeeExempt
<1>8. CASE UNCHANGED vars
  <2>1. UNCHANGED <<call, ledger, status, steps, msg>>
    BY <1>8 DEF vars
  <2>2. Placeholder' = Placeholder /\ AutoFee' = AutoFee /\ FinalFee' = FinalFee
    BY <2>1, FeesUnchanged
  <2>3. (Charging => Charging') /\ (Charged => Charged')
    BY <2>1, <2>2 DEF Charging, Charged, NonceLeft, Given
  <2> QED BY <2>1, <2>3 DEF FeeInv, Sized, Given, Built
<1> QED BY <1>1, <1>2, <1>3, <1>4, <1>5, <1>6, <1>7, <1>8 DEF Next

\* What the cases give of sizes and prices.
LEMMA FeeStart == Init => FeeInv
<1> SUFFICES ASSUME Init PROVE FeeInv
  OBVIOUS
<1>1. PICK group \in Cases : call \in group.calls /\ ledger \in group.ledgers
  BY DEF Init
<1>2. Sized
  BY <1>1, CasesAssumption, SizeAssumption DEF Sized, Given
<1>3. status = "called"
  BY DEF Init
<1> QED BY <1>2, <1>3 DEF FeeInv, Built

\* What goes out costs no more than its fee.
LEMMA Affordable ==
  ASSUME FeeInv, status = "sent", ~Given(call.fee)
  PROVE  msg.fee >= call.gas + Cost(msg)
<1>1. /\ Sized /\ msg.fee = FinalFee /\ msg.pair = Placeholder
      /\ call.kind = "governance" => call.in.governance.stages \in Nat
  BY DEF FeeInv, Built, Charged, Sized
<1> DEFINE size == call.payload + Placeholder
           due == Price(Size(msg))
<1>2. /\ size \in Nat /\ size >= call.payload
  BY <1>1 DEF Sized, Placeholder, SignatureLength
<1>3. /\ call.gas \in Nat /\ ledger.price \in Nat /\ call.payload \in Nat
      /\ call.payload > Cardinality(Powers) /\ call.payload >= 20 * Digits(call.gas)
  BY <1>1 DEF Sized
<1>4. /\ size > Cardinality(Powers) /\ size >= 20 * Digits(call.gas)
  <2> HIDE DEF size
  <2>1. Cardinality(Powers) \in Nat /\ Digits(call.gas) \in Nat
    BY <1>3, BuilderConstants, FS_CardinalityType, DigitsBounds
  <2> QED BY <1>2, <1>3, <2>1
<1>6. AutoFee = Surcharged(ledger.price, size)
  BY DEF AutoFee
<1>7. AutoFee \in Nat
  <2> HIDE DEF size
  <2> QED BY <1>2, <1>3, <1>6, SurchargedType
<1> DEFINE whole == call.gas + AutoFee
<1>8. whole \in Nat
  BY <1>3, <1>7
<1>9. PICK d \in Nat \ {0} :
        call.kind = "governance" =>
          \/ \A x : StageFee(x) = x
          \/ \A x : StageFee(x) = x + (x + d - 1) \div d
  <2>1. CASE call.kind = "governance"
    <3>1. Divisor \in Nat \ {0}
      BY <1>1, <2>1 DEF Divisor
    <3>2. \/ \A x : StageFee(x) = x
          \/ \A x : StageFee(x) = x + (x + Divisor - 1) \div Divisor
      BY DEF StageFee
    <3> QED BY <3>1, <3>2
  <2>2. CASE call.kind # "governance"
    BY <2>2
  <2> QED BY <2>1, <2>2
<1>10. msg.fee \in Nat /\ msg.fee <= 2 * whole
  <2> HIDE DEF whole
  <2>1. (whole + d - 1) \div d \in Nat /\ (whole + d - 1) \div d <= whole
    BY <1>8, StagesBounded
  <2>2. CASE call.kind = "governance"
    <3>1. msg.fee = StageFee(whole)
      BY <1>1, <2>2 DEF FinalFee, whole
    <3> QED BY <1>8, <1>9, <2>1, <2>2, <3>1
  <2>3. CASE call.kind # "governance"
    <3>1. msg.fee = whole
      BY <1>1, <2>3 DEF FinalFee, whole
    <3> QED BY <1>8, <3>1
  <2> QED BY <2>2, <2>3
<1>11. AutoFee >= ledger.price * (size + Digits(msg.fee))
  <2> HIDE DEF size
  <2>1. msg.fee <= 2 * (call.gas + Surcharged(ledger.price, size))
    BY <1>6, <1>10
  <2> QED BY <1>2, <1>3, <1>4, <1>6, <1>10, <2>1, FivePercent
<1>12. due \in Nat /\ whole >= call.gas + due
  <2>1. due = ledger.price * (size + Digits(msg.fee))
    BY <1>1 DEF Price, Size
  <2>2. Digits(msg.fee) \in Nat
    BY <1>10, DigitsBounds
  <2> HIDE DEF size, due
  <2>3. due \in Nat
    BY <1>2, <1>3, <2>1, <2>2
  <2> QED BY <1>3, <1>7, <1>11, <2>1, <2>3
<1>13. CASE call.kind # "governance"
  <2>1. msg.fee = whole /\ Cost(msg) = due
    BY <1>1, <1>13 DEF FinalFee, Cost
  <2> QED BY <1>12, <2>1
<1>14. CASE call.kind = "governance"
  <2>1. msg.fee = StageFee(whole) /\ Cost(msg) = StageFee(due)
    BY <1>1, <1>14 DEF FinalFee, Cost
  <2> HIDE DEF whole, due
  <2>2. whole + d - 1 \in Nat /\ due + d - 1 \in Nat /\ whole + d - 1 >= due + d - 1
    BY <1>3, <1>8, <1>12
  <2>3. /\ (whole + d - 1) \div d \in Nat /\ (due + d - 1) \div d \in Nat
        /\ (whole + d - 1) \div d >= (due + d - 1) \div d
    BY <2>2, DivMonotone
  <2>4. \/ StageFee(whole) = whole /\ StageFee(due) = due
        \/ /\ StageFee(whole) = whole + (whole + d - 1) \div d
           /\ StageFee(due) = due + (due + d - 1) \div d
    BY <1>9, <1>14
  <2> QED BY <1>3, <1>8, <1>12, <2>1, <2>3, <2>4
<1> QED BY <1>13, <1>14

\* An automatic fee covers the message that is sent, with the signature that was not in it yet
\* and the stages that come later (validator-ops/transaction.ts:343, proposal/governance.ts:141).
THEOREM FeeSuffices == Spec => []FeeCoversFinal
<1>1. Inv /\ FeeInv /\ [Next]_vars => FeeInv'
  BY FeeStep
<1>2. FeeInv => FeeCoversFinal
  BY Affordable DEF FeeCoversFinal
<1> QED BY <1>1, <1>2, FeeStart, Invariant, PTL DEF Spec

-----------------------------------------------------------------------------
(* The slots of createCoinTXN *)

\* The instance counts as this module does.
LEMMA SameCardinality == \A S : Coin!Cardinality(S) = Cardinality(S)
  BY DEF Coin!Cardinality, Cardinality

\* Consecutive indices, in order.
LEMMA Consecutive ==
  ASSUME NEW a \in Nat, NEW b \in Nat, a <= b + 1
  PROVE  Coin!InOrder(a..b) = [j \in 1..b - a + 1 |-> a + j - 1]
<1>1. Cardinality(a..b) = b - a + 1
  BY FS_Interval
<1>2. ASSUME NEW i \in a..b
      PROVE  Cardinality({k \in a..b : k < i}) = i - a
  <2>1. {k \in a..b : k < i} = a..i - 1
    OBVIOUS
  <2>2. Cardinality(a..i - 1) = i - a
    <3>1. a \in Int /\ i - 1 \in Int /\ (a > i - 1 => i = a)
      OBVIOUS
    <3>2. Cardinality(a..i - 1) = IF a > i - 1 THEN 0 ELSE i - 1 - a + 1
      BY <3>1, FS_Interval
    <3> QED BY <3>1, <3>2
  <2> QED BY <2>1, <2>2
<1>3. \A i \in a..b : Cardinality({k \in a..b : k < i}) = i - a
  BY <1>2
<1> DEFINE jth(j) == CHOOSE i \in a..b : Coin!Cardinality({k \in a..b : k < i}) = j - 1
<1>4. Coin!InOrder(a..b) = [j \in 1..Coin!Cardinality(a..b) |-> jth(j)]
  BY DEF Coin!InOrder
<1>5. ASSUME NEW j \in 1..b - a + 1
      PROVE  jth(j) = a + j - 1
  <2>1. a + j - 1 \in a..b
    OBVIOUS
  <2>2. \A i \in a..b : Coin!Cardinality({k \in a..b : k < i}) = j - 1 <=> i = a + j - 1
    BY <1>3, SameCardinality
  <2> QED BY <2>1, <2>2
<1>6. Coin!Cardinality(a..b) = b - a + 1
  BY <1>1, SameCardinality
<1> HIDE DEF jth
<1> QED BY <1>4, <1>5, <1>6

\* A nonce a wallet came to in the course of the call.
CurrentNonce(w, n) == n \in coinStart[w] + 1 .. used[w] + 1

CoinTyped ==
  /\ inputs \in Seq(Input) /\ Len(inputs) > 0
  /\ used \in [Wallet -> Nat] /\ coinStart \in [Wallet -> Nat]
  /\ \A w \in Wallet : coinStart[w] <= used[w]
  /\ pc \in {"check", "nonces", "assemble", "fees", "sign", "signed", "failed"}

\* Every input has a key or a granter, once it was checked.
InputsNamed ==
  pc \notin {"check", "failed"} =>
    \A i \in DOMAIN inputs : inputs[i].key # {} \/ inputs[i].granter # {}

NoncesCurrent ==
  \A i \in 1..Len(nonces) : CurrentNonce(Coin!Address(inputs[i]), nonces[i])

GivenNonces == [i \in DOMAIN inputs |-> Coin!The(inputs[i].nonce)]

\* The nonces that were read are current; those of a transaction are, or all are the given ones.
NoncesRead ==
  /\ pc = "check" => nonces = <<>>
  /\ pc = "nonces" =>
       /\ nonces \in Seq(Nat) /\ Len(nonces) < Len(inputs) /\ NoncesCurrent
       /\ ~Coin!AllInputsHaveNonces
  /\ pc \in {"assemble", "fees", "sign", "signed"} =>
       /\ nonces \in Seq(Nat) /\ Len(nonces) = Len(inputs)
       /\ Coin!AllInputsHaveNonces => nonces = GivenNonces
       /\ ~Coin!AllInputsHaveNonces => NoncesCurrent

\* What was assembled was balanced, and signed by the inputs' own keys.
Signable ==
  /\ pc \in {"fees", "sign", "signed"} => Coin!Balanced /\ Coin!FeesShared
  /\ pc \in {"fees", "sign"} => txn = Coin!Assembled
  /\ pc = "signed" =>
       /\ txn = [Coin!Assembled EXCEPT !.signers = Coin!SignerKeys]
       /\ Coin!SignerKeys = <<>> \/ Coin!SlotsFilled

CoinInv == CoinTyped /\ InputsNamed /\ NoncesRead /\ Signable

\* An input of the call names its wallet.
LEMMA InputType ==
  ASSUME CoinTyped, NEW i \in DOMAIN inputs
  PROVE  /\ inputs[i].key \in SUBSET Wallet /\ inputs[i].granter \in SUBSET Wallet
         /\ inputs[i].nonce \in SUBSET Nat
         /\ inputs[i].key # {} => Coin!Address(inputs[i]) = Coin!The(inputs[i].key)
         /\ inputs[i].key # {} \/ inputs[i].granter # {} => Coin!Address(inputs[i]) \in Wallet
<1>1. inputs[i] \in Input
  BY DEF CoinTyped
<1>2. /\ inputs[i].key \in SUBSET Wallet /\ inputs[i].granter \in SUBSET Wallet
      /\ inputs[i].nonce \in SUBSET Nat
  BY <1>1, CoinAssumption DEF Coin!CoinConstants
<1>3. inputs[i].key # {} => Coin!Address(inputs[i]) = Coin!The(inputs[i].key)
  BY DEF Coin!Address
<1>4. \A S : S # {} => Coin!The(S) \in S
  BY DEF Coin!The
<1>5. inputs[i].key # {} \/ inputs[i].granter # {} => Coin!Address(inputs[i]) \in Wallet
  BY <1>2, <1>4 DEF Coin!Address
<1> QED BY <1>2, <1>3, <1>5

\* The state of the call that the parts of a transaction are made of.
CallState == <<inputs, total, coinStart, nonces>>

\* While these stay, so does what is made of them.
LEMMA PartsStay ==
  ASSUME UNCHANGED CallState
  PROVE  /\ (Coin!Balanced)' = Coin!Balanced /\ (Coin!FeesShared)' = Coin!FeesShared
         /\ (Coin!Assembled)' = Coin!Assembled /\ (Coin!SignerKeys)' = Coin!SignerKeys
         /\ (Coin!AllInputsHaveNonces)' = Coin!AllInputsHaveNonces
         /\ GivenNonces' = GivenNonces
<1>1. /\ inputs' = inputs /\ total' = total /\ nonces' = nonces
  BY DEF CallState
<1>2. (Coin!IsAllowance)' = Coin!IsAllowance
  BY <1>1 DEF Coin!IsAllowance, Coin!Indices
<1>3. (Coin!Transferring)' = Coin!Transferring /\ (Coin!KeyInputs)' = Coin!KeyInputs
  BY <1>1, <1>2 DEF Coin!Transferring, Coin!KeyInputs, Coin!Indices
<1>4. (Coin!BalanceInputs)' = Coin!BalanceInputs
  BY <1>1, <1>2 DEF Coin!BalanceInputs
<1>5. (Coin!Balanced)' = Coin!Balanced
  BY <1>1, <1>4 DEF Coin!Balanced
<1>6. (Coin!FeesShared)' = Coin!FeesShared
  BY <1>1, <1>3 DEF Coin!FeesShared
<1>7. (Coin!Assembled)' = Coin!Assembled
  BY <1>1, <1>2, <1>3 DEF Coin!Assembled, Coin!Transfer, Coin!Indices
<1>8. (Coin!SignerKeys)' = Coin!SignerKeys
  BY <1>1 DEF Coin!SignerKeys, Coin!Indices
<1>9. (Coin!AllInputsHaveNonces)' = Coin!AllInputsHaveNonces
  BY <1>1 DEF Coin!AllInputsHaveNonces, Coin!Indices
<1>10. GivenNonces' = GivenNonces
  BY <1>1 DEF GivenNonces
<1> QED BY <1>5, <1>6, <1>7, <1>8, <1>9, <1>10

\* The state a call starts in.
LEMMA CoinStart == Coin!Init => CoinInv
<1> SUFFICES ASSUME Coin!Init PROVE CoinInv
  OBVIOUS
<1>1. PICK n \in 1..MaxInput : inputs \in [1..n -> Input]
  BY DEF Coin!Init
<1>2. MaxInput \in Nat /\ MaxUsed \in Nat
  BY CoinAssumption DEF Coin!CoinConstants
<1>3. n \in Nat /\ n > 0
  BY <1>1, <1>2
<1>4. inputs \in Seq(Input) /\ Len(inputs) > 0
  BY <1>1, <1>3
<1>5. /\ used \in [Wallet -> Nat] /\ coinStart = used
      /\ \A w \in Wallet : coinStart[w] <= used[w]
  <2>1. used \in [Wallet -> 0..MaxUsed] /\ coinStart = used
    BY DEF Coin!Init
  <2>2. \A w \in Wallet : used[w] \in Nat /\ used[w] <= used[w]
    BY <1>2, <2>1
  <2> QED BY <2>1, <2>2
<1>6. pc = "check" /\ nonces = <<>>
  BY DEF Coin!Init
<1> QED BY <1>4, <1>5, <1>6 DEF CoinInv, CoinTyped, InputsNamed, NoncesRead, Signable

\* A call that fails claims nothing more.
LEMMA FailKeeps == CoinInv /\ Coin!Fail => CoinInv'
<1> SUFFICES ASSUME CoinInv, Coin!Fail PROVE CoinInv'
  OBVIOUS
<1>1. pc' = "failed" /\ UNCHANGED <<inputs, total, used, coinStart, nonces, txn>>
  BY DEF Coin!Fail, Coin!Goto
<1> QED BY <1>1 DEF CoinInv, CoinTyped, InputsNamed, NoncesRead, Signable

\* The inputs are checked, and given nonces taken over.
LEMMA CheckInputsKeeps == CoinInv /\ Coin!Check => CoinInv'
<1> SUFFICES ASSUME CoinInv, Coin!Check, ~Coin!Fail PROVE CoinInv'
  BY FailKeeps
<1>1. /\ pc = "check" /\ pc' \in {"assemble", "nonces"}
      /\ ~\E i \in DOMAIN inputs : inputs[i].key = {} /\ inputs[i].granter = {}
      /\ UNCHANGED <<inputs, total, used, coinStart, txn>>
  BY DEF Coin!Check, Coin!Goto, Coin!Indices
<1>2. CoinTyped' /\ InputsNamed' /\ Signable'
  BY <1>1 DEF CoinInv, CoinTyped, InputsNamed, Signable
<1>3. DOMAIN inputs = 1..Len(inputs) /\ Len(inputs) \in Nat /\ Len(inputs) > 0
  BY DEF CoinInv, CoinTyped
<1>4. CASE Coin!AllInputsHaveNonces
  <2>1. /\ nonces' = [i \in DOMAIN inputs |-> Coin!The(inputs[i].nonce)]
        /\ pc' = "assemble"
    BY <1>4, <1>1 DEF Coin!Check, Coin!Goto, Coin!Fail, Coin!Indices
  <2>2. (Coin!AllInputsHaveNonces)'
    BY <1>1, <1>4 DEF Coin!AllInputsHaveNonces, Coin!Indices
  <2>3. \A i \in DOMAIN inputs : Coin!The(inputs[i].nonce) \in Nat
    <3>1. \A S : S # {} => Coin!The(S) \in S
      BY DEF Coin!The
    <3>2. \A i \in DOMAIN inputs : inputs[i].nonce \in SUBSET Nat /\ inputs[i].nonce # {}
      BY <1>4, InputType DEF CoinInv, Coin!AllInputsHaveNonces, Coin!Indices
    <3> QED BY <3>1, <3>2
  <2>4. nonces' \in Seq(Nat) /\ Len(nonces') = Len(inputs)
    BY <1>3, <2>1, <2>3
  <2>5. nonces' = GivenNonces'
    BY <1>1, <2>1 DEF GivenNonces
  <2> QED BY <1>1, <1>2, <2>1, <2>2, <2>4, <2>5 DEF CoinInv, NoncesRead
<1>5. CASE ~Coin!AllInputsHaveNonces
  <2>1. pc' = "nonces" /\ nonces' = nonces
    BY <1>5, <1>1 DEF Coin!Check, Coin!Goto, Coin!Fail
  <2>2. nonces' = <<>>
    BY <1>1, <2>1 DEF CoinInv, NoncesRead
  <2>3. nonces' \in Seq(Nat) /\ Len(nonces') < Len(inputs') /\ NoncesCurrent'
    BY <1>1, <1>3, <2>2 DEF NoncesCurrent
  <2>4. ~(Coin!AllInputsHaveNonces)'
    BY <1>1, <1>5 DEF Coin!AllInputsHaveNonces, Coin!Indices
  <2> QED BY <1>2, <2>1, <2>3, <2>4 DEF CoinInv, NoncesRead
<1> QED BY <1>4, <1>5

\* The next nonce of an input's wallet is read.
LEMMA FetchNonceKeeps == CoinInv /\ Coin!FetchNonce => CoinInv'
<1> SUFFICES ASSUME CoinInv, Coin!FetchNonce, ~Coin!Fail PROVE CoinInv'
  BY FailKeeps
<1> DEFINE w == Coin!Address(inputs[Len(nonces) + 1])
<1>1. /\ pc = "nonces" /\ UNCHANGED <<inputs, total, used, coinStart, txn>>
      /\ nonces' = Append(nonces, used[w] + 1)
      /\ pc' = IF Len(nonces') = Len(inputs) THEN "assemble" ELSE "nonces"
  BY DEF Coin!FetchNonce, Coin!Goto, Coin!NextNonce
<1>2. /\ nonces \in Seq(Nat) /\ Len(nonces) \in Nat /\ Len(nonces) < Len(inputs)
      /\ NoncesCurrent
  BY <1>1 DEF CoinInv, NoncesRead
<1>3. CoinTyped' /\ InputsNamed' /\ Signable'
  BY <1>1 DEF CoinInv, CoinTyped, InputsNamed, Signable
<1>4. DOMAIN inputs = 1..Len(inputs) /\ Len(inputs) \in Nat
  BY DEF CoinInv, CoinTyped
<1>5. w \in Wallet
  <2>1. Len(nonces) + 1 \in DOMAIN inputs
    BY <1>2, <1>4
  <2>2. inputs[Len(nonces) + 1].key # {} \/ inputs[Len(nonces) + 1].granter # {}
    BY <1>1, <2>1 DEF CoinInv, InputsNamed
  <2> QED BY <2>1, <2>2, InputType DEF CoinInv
<1>6. used[w] \in Nat /\ coinStart[w] \in Nat /\ coinStart[w] <= used[w]
  BY <1>5 DEF CoinInv, CoinTyped
<1>7. /\ nonces' \in Seq(Nat) /\ Len(nonces') = Len(nonces) + 1
      /\ \A i \in 1..Len(nonces) : nonces'[i] = nonces[i]
      /\ nonces'[Len(nonces) + 1] = used[w] + 1
  BY <1>1, <1>2, <1>6, AppendProperties
<1>8. NoncesCurrent'
  <2>1. CurrentNonce(w, used[w] + 1)
    BY <1>6 DEF CurrentNonce
  <2>2. \A i \in 1..Len(nonces) : CurrentNonce(Coin!Address(inputs[i]), nonces[i])
    BY <1>2 DEF NoncesCurrent
  <2>3. ASSUME NEW i \in 1..Len(nonces')
        PROVE  CurrentNonce(Coin!Address(inputs[i]), nonces'[i])
    <3>1. CASE i \in 1..Len(nonces)
      BY <1>7, <2>2, <3>1
    <3>2. CASE i = Len(nonces) + 1
      BY <1>7, <2>1, <3>2
    <3> QED BY <1>2, <1>7, <3>1, <3>2
  <2>4. \A v, n : CurrentNonce(v, n)' <=> CurrentNonce(v, n)
    BY <1>1 DEF CurrentNonce
  <2> QED BY <1>1, <2>3, <2>4 DEF NoncesCurrent, CurrentNonce, Coin!Address
<1> HIDE DEF w
<1>9. NoncesRead'
  <2>1. Len(nonces') \in Nat /\ Len(nonces') <= Len(inputs)
    BY <1>2, <1>4, <1>7
  <2>2. \/ pc' = "assemble" /\ Len(nonces') = Len(inputs)
        \/ pc' = "nonces" /\ Len(nonces') < Len(inputs)
    <3>1. Len(nonces') = Len(inputs) \/ Len(nonces') < Len(inputs)
      BY <1>4, <2>1
    <3>2. pc' = IF Len(nonces') = Len(inputs) THEN "assemble" ELSE "nonces"
      BY <1>1
    <3> QED BY <3>1, <3>2
  <2>3. nonces' \in Seq(Nat) /\ inputs' = inputs
    BY <1>1, <1>7
  <2>4. ~(Coin!AllInputsHaveNonces)'
    BY <1>1 DEF CoinInv, NoncesRead, Coin!AllInputsHaveNonces, Coin!Indices
  <2> QED BY <1>8, <2>2, <2>3, <2>4 DEF NoncesRead
<1> QED BY <1>3, <1>9 DEF CoinInv

\* The slots and the transfers are made of balanced inputs.
LEMMA AssembleKeeps == CoinInv /\ Coin!Assemble => CoinInv'
<1> SUFFICES ASSUME CoinInv, Coin!Assemble, ~Coin!Fail PROVE CoinInv'
  BY FailKeeps
<1>1. /\ pc = "assemble" /\ pc' = "fees" /\ txn' = Coin!Assembled
      /\ Coin!Balanced /\ Coin!FeesShared
      /\ UNCHANGED <<inputs, total, used, coinStart, nonces>>
  BY DEF Coin!Assemble, Coin!Goto
<1>2. CoinTyped' /\ InputsNamed'
  BY <1>1 DEF CoinInv, CoinTyped, InputsNamed
<1>3. UNCHANGED CallState
  BY <1>1 DEF CallState
<1>4. NoncesRead'
  BY <1>1, <1>3, PartsStay DEF CoinInv, NoncesRead, NoncesCurrent, CurrentNonce, Coin!Address
<1>5. Signable'
  BY <1>1, <1>3, PartsStay DEF Signable
<1> QED BY <1>2, <1>4, <1>5 DEF CoinInv

\* The fees come to what was assembled.
LEMMA CalculateFeesKeeps == CoinInv /\ Coin!CalculateFees => CoinInv'
<1> SUFFICES ASSUME CoinInv, Coin!CalculateFees, ~Coin!Fail PROVE CoinInv'
  BY FailKeeps
<1>1. /\ pc = "fees" /\ pc' = "sign"
      /\ UNCHANGED <<inputs, total, used, coinStart, nonces, txn>>
  BY DEF Coin!CalculateFees, Coin!Goto
<1>2. CoinTyped' /\ InputsNamed'
  BY <1>1 DEF CoinInv, CoinTyped, InputsNamed
<1>3. UNCHANGED CallState
  BY <1>1 DEF CallState
<1>4. NoncesRead'
  BY <1>1, <1>3, PartsStay DEF CoinInv, NoncesRead, NoncesCurrent, CurrentNonce, Coin!Address
<1>5. Signable'
  BY <1>1, <1>3, PartsStay DEF CoinInv, Signable
<1> QED BY <1>2, <1>4, <1>5 DEF CoinInv

\* The keys sign slots that are filled.
LEMMA SignInputsKeeps == CoinInv /\ Coin!Sign => CoinInv'
<1> SUFFICES ASSUME CoinInv, Coin!Sign, ~Coin!Fail PROVE CoinInv'
  BY FailKeeps
<1>1. /\ pc = "sign" /\ pc' = "signed"
      /\ txn' = [txn EXCEPT !.signers = Coin!SignerKeys]
      /\ Coin!SignerKeys = <<>> \/ Coin!SlotsFilled
      /\ UNCHANGED <<inputs, total, used, coinStart, nonces>>
  BY DEF Coin!Sign, Coin!Goto
<1>2. CoinTyped' /\ InputsNamed'
  BY <1>1 DEF CoinInv, CoinTyped, InputsNamed
<1>3. UNCHANGED CallState
  BY <1>1 DEF CallState
<1>4. NoncesRead'
  BY <1>1, <1>3, PartsStay DEF CoinInv, NoncesRead, NoncesCurrent, CurrentNonce, Coin!Address
<1>5. txn = Coin!Assembled /\ Coin!Balanced /\ Coin!FeesShared
  BY <1>1 DEF CoinInv, Signable
<1>6. txn'.keys = txn.keys /\ txn'.nonces = txn.nonces
  BY <1>1, <1>5 DEF Coin!Assembled
<1>7. (Coin!SlotsFilled)' <=> Coin!SlotsFilled
  BY <1>6 DEF Coin!SlotsFilled
<1>8. Signable'
  BY <1>1, <1>3, <1>5, <1>7, PartsStay DEF Signable
<1> QED BY <1>2, <1>4, <1>8 DEF CoinInv

\* What the chain includes leaves every nonce current.
LEMMA IncludeKeeps == CoinInv /\ Coin!Include => CoinInv'
<1> SUFFICES ASSUME CoinInv, Coin!Include PROVE CoinInv'
  OBVIOUS
<1>1. PICK v \in Wallet : used' = [used EXCEPT ![v] = @ + 1]
  BY DEF Coin!Include
<1>2. UNCHANGED <<inputs, total, coinStart, pc, nonces, txn>>
  BY DEF Coin!Include
<1>3. /\ used' \in [Wallet -> Nat]
      /\ \A w \in Wallet : coinStart[w] \in Nat /\ coinStart[w] <= used[w] /\ used[w] <= used'[w]
  BY <1>1 DEF CoinInv, CoinTyped
<1>4. \A w \in Wallet : coinStart[w] <= used'[w]
  BY <1>3 DEF CoinInv, CoinTyped
<1>5. CoinTyped' /\ InputsNamed'
  BY <1>2, <1>3, <1>4 DEF CoinInv, CoinTyped, InputsNamed
<1>6. UNCHANGED CallState
  BY <1>2 DEF CallState
<1>7. ASSUME NoncesCurrent, nonces \in Seq(Nat), Len(nonces) <= Len(inputs),
             pc \notin {"check", "failed"}
      PROVE  NoncesCurrent'
  <2> SUFFICES ASSUME NEW i \in 1..Len(nonces)
               PROVE  CurrentNonce(Coin!Address(inputs[i]), nonces[i])'
    BY <1>2 DEF NoncesCurrent
  <2> DEFINE w == Coin!Address(inputs[i])
  <2>1. i \in DOMAIN inputs
    BY <1>7 DEF CoinInv, CoinTyped
  <2>2. w \in Wallet
    BY <1>7, <2>1, InputType DEF CoinInv, InputsNamed
  <2>3. nonces[i] \in coinStart[w] + 1 .. used[w] + 1
    BY <1>7 DEF NoncesCurrent, CurrentNonce
  <2>4. w' = w
    BY <1>2 DEF Coin!Address
  <2> HIDE DEF w
  <2>5. coinStart[w] \in Nat /\ used[w] \in Nat /\ used'[w] \in Nat /\ used[w] <= used'[w]
    BY <1>3, <2>2 DEF CoinInv, CoinTyped
  <2>6. nonces[i] \in coinStart[w] + 1 .. used'[w] + 1
    BY <2>3, <2>5
  <2> QED BY <1>2, <2>4, <2>6 DEF CurrentNonce, w
<1>8. NoncesRead'
  BY <1>2, <1>6, <1>7, PartsStay DEF CoinInv, CoinTyped, NoncesRead
<1>9. (Coin!SlotsFilled)' <=> Coin!SlotsFilled
  BY <1>2 DEF Coin!SlotsFilled
<1>10. Signable'
  BY <1>2, <1>6, <1>9, PartsStay DEF CoinInv, Signable
<1> QED BY <1>5, <1>8, <1>10 DEF CoinInv

\* The invariant holds of every step of a call.
LEMMA CoinStep == CoinInv /\ [Coin!Next]_coinVars => CoinInv'
<1> SUFFICES ASSUME CoinInv, UNCHANGED coinVars PROVE CoinInv'
  BY CheckInputsKeeps, FetchNonceKeeps, AssembleKeeps, CalculateFeesKeeps, SignInputsKeeps,
     IncludeKeeps DEF Coin!Next
<1>1. UNCHANGED <<inputs, total, used, coinStart, pc, nonces, txn>>
  BY DEF coinVars
<1>2. UNCHANGED CallState /\ ((Coin!SlotsFilled)' <=> Coin!SlotsFilled)
  BY <1>1 DEF CallState, Coin!SlotsFilled
<1>3. CoinTyped' /\ InputsNamed'
  BY <1>1 DEF CoinInv, CoinTyped, InputsNamed
<1>4. NoncesRead'
  BY <1>1, <1>2, PartsStay DEF CoinInv, NoncesRead, NoncesCurrent, CurrentNonce, Coin!Address
<1>5. Signable'
  BY <1>1, <1>2, PartsStay DEF CoinInv, Signable
<1> QED BY <1>3, <1>4, <1>5 DEF CoinInv

\* Wallets that sign for themselves have a slot and a transfer each.
LEMMA OwnInputs ==
  ASSUME CoinInv, pc = "signed", \A i \in DOMAIN inputs : inputs[i].granter = {}
  PROVE  CoinSound
<1> DEFINE N == Len(inputs)
<1>1. DOMAIN inputs = 1..N /\ N \in Nat /\ N > 0
  BY DEF CoinInv, CoinTyped
<1>2. ~Coin!IsAllowance
  BY DEF Coin!IsAllowance, Coin!Indices
<1>3. \A i \in 1..N : inputs[i].key # {}
  BY <1>1 DEF CoinInv, InputsNamed
<1>4. /\ {i \in Coin!Indices : ~(Coin!IsAllowance /\ inputs[i].key # {})} = 1..N
      /\ {i \in Coin!Indices : inputs[i].key # {}} = 1..N
      /\ {i \in Coin!Indices : inputs[i].granter = {}} = 1..N
  BY <1>1, <1>2, <1>3 DEF Coin!Indices
<1> HIDE DEF N
<1>5. Coin!InOrder(1..N) = [j \in 1..N |-> j]
  <2>1. Coin!InOrder(1..N) = [j \in 1..N - 1 + 1 |-> 1 + j - 1]
    BY <1>1, Consecutive
  <2>2. N - 1 + 1 = N /\ \A j \in 1..N : 1 + j - 1 = j
    BY <1>1
  <2> QED BY <2>1, <2>2
<1>6. Coin!Transferring = [j \in 1..N |-> j] /\ Coin!KeyInputs = [j \in 1..N |-> j]
  BY <1>4, <1>5 DEF Coin!Transferring, Coin!KeyInputs
<1>7. Coin!SignerKeys = [j \in 1..N |-> Coin!The(inputs[j].key)]
  BY <1>4, <1>5 DEF Coin!SignerKeys
<1>8. /\ txn.keys = [j \in 1..N |-> Coin!The(inputs[j].key)]
      /\ txn.nonces = nonces /\ txn.granters = <<>> /\ txn.granterNonces = <<>>
      /\ txn.transfers = [j \in 1..N |-> Coin!Transfer(j)]
      /\ txn.signers = Coin!SignerKeys
  <2>1. txn = [Coin!Assembled EXCEPT !.signers = Coin!SignerKeys]
    BY DEF CoinInv, Signable
  <2>2. /\ Coin!Assembled.keys = [j \in 1..N |-> Coin!The(inputs[j].key)]
        /\ Coin!Assembled.nonces = nonces /\ Coin!Assembled.granters = <<>>
        /\ Coin!Assembled.granterNonces = <<>>
        /\ Coin!Assembled.transfers = [j \in 1..N |-> Coin!Transfer(j)]
    BY <1>2, <1>6 DEF Coin!Assembled
  <2>3. "signers" \in DOMAIN Coin!Assembled
    BY DEF Coin!Assembled
  <2> QED BY <2>1, <2>2, <2>3
<1>9. Coin!Conserved
  <2>1. [j \in DOMAIN txn.transfers |-> txn.transfers[j].amount]
          = [i \in DOMAIN Coin!BalanceInputs |-> Coin!The(Coin!BalanceInputs[i].amount)]
    BY <1>1, <1>2, <1>8 DEF Coin!BalanceInputs, Coin!Transfer
  <2>2. [j \in DOMAIN txn.transfers |-> txn.transfers[j].percent]
          = [j \in DOMAIN Coin!Transferring |-> Coin!Percent(inputs[Coin!Transferring[j]])]
    BY <1>6, <1>8 DEF Coin!Transfer
  <2>3. Coin!Balanced /\ Coin!FeesShared
    BY DEF CoinInv, Signable
  <2> QED BY <2>1, <2>2, <2>3 DEF Coin!Conserved, Coin!Balanced, Coin!FeesShared
<1>10. /\ nonces \in Seq(Nat) /\ Len(nonces) = N
       /\ Coin!AllInputsHaveNonces => nonces = GivenNonces
       /\ ~Coin!AllInputsHaveNonces => NoncesCurrent
  BY DEF CoinInv, NoncesRead, N
<1>11. Len(txn.keys) = N /\ DOMAIN txn.keys = 1..N
  BY <1>1, <1>8
<1>12. ASSUME NoncesCurrent, NEW i \in 1..N
       PROVE  txn.nonces[i] \in coinStart[txn.keys[i]] + 1 .. used[txn.keys[i]] + 1
  <2>1. txn.keys[i] = Coin!Address(inputs[i])
    BY <1>1, <1>3, <1>8, InputType DEF CoinInv
  <2> QED BY <1>8, <1>10, <1>12, <2>1 DEF NoncesCurrent, CurrentNonce
<1>13. txn.nonces \o txn.granterNonces = nonces
  BY <1>8, <1>10
<1>14. Coin!AllInputsHaveNonces =>
         txn.nonces \o txn.granterNonces = [i \in Coin!Indices |-> Coin!The(inputs[i].nonce)]
  BY <1>10, <1>13 DEF GivenNonces, Coin!Indices
<1>15. ~Coin!AllInputsHaveNonces => \A i \in DOMAIN txn.keys :
         txn.nonces[i] \in coinStart[txn.keys[i]] + 1 .. used[txn.keys[i]] + 1
  BY <1>10, <1>11, <1>12
<1>16. /\ txn.signers = txn.keys /\ Len(txn.nonces) = Len(txn.keys)
       /\ Len(txn.granterNonces) = Len(txn.granters) /\ DOMAIN txn.granters = {}
  BY <1>7, <1>8, <1>10, <1>11
<1>17. Coin!SlotsAligned
  BY <1>14, <1>15, <1>16 DEF Coin!SlotsAligned
<1> QED BY <1>9, <1>17 DEF CoinSound

\* One authorizer before the grants it spends has the only key; the grants transfer.
LEMMA Grants ==
  ASSUME CoinInv, pc = "signed", inputs[1].granter = {}, Len(inputs) > 1,
         \A i \in DOMAIN inputs \ {1} : inputs[i].granter # {}
  PROVE  CoinSound
<1> DEFINE N == Len(inputs)
           addresses == [i \in Coin!Indices |-> Coin!Address(inputs[i])]
<1>1. DOMAIN inputs = 1..N /\ N \in Nat /\ N > 1
  BY DEF CoinInv, CoinTyped
<1>2. Coin!IsAllowance
  <2>1. 2 \in DOMAIN inputs \ {1}
    BY <1>1
  <2> QED BY <2>1 DEF Coin!IsAllowance, Coin!Indices
<1>3. 1 \in DOMAIN inputs /\ inputs[1].key # {}
  BY <1>1 DEF CoinInv, InputsNamed
<1>4. Coin!InOrder({1}) = [j \in 1..1 |-> j]
  <2>1. Coin!InOrder(1..1) = [j \in 1..1 - 1 + 1 |-> 1 + j - 1]
    <3>1. \A a, b \in Nat : a <= b + 1 => Coin!InOrder(a..b) = [j \in 1..b - a + 1 |-> a + j - 1]
      BY Consecutive
    <3>2. 1 \in Nat /\ 1 <= 1 + 1
      OBVIOUS
    <3> QED BY <3>1, <3>2, Zenon
  <2>2. 1..1 = {1} /\ 1 - 1 + 1 = 1 /\ \A j \in 1..1 : 1 + j - 1 = j
    OBVIOUS
  <2> QED BY <2>1, <2>2
<1>5. /\ Coin!SignerKeys = [j \in 1..1 |-> Coin!The(inputs[j].key)]
      /\ Coin!SignerKeys # <<>>
  <2>1. {i \in Coin!Indices : inputs[i].granter = {}} = {1}
    BY <1>3 DEF Coin!Indices
  <2>2. Coin!SignerKeys = [j \in 1..1 |-> Coin!The(inputs[j].key)]
    BY <1>4, <2>1 DEF Coin!SignerKeys
  <2>3. 1 \in DOMAIN Coin!SignerKeys
    BY <2>2
  <2> QED BY <2>2, <2>3
<1>6. txn = [Coin!Assembled EXCEPT !.signers = Coin!SignerKeys] /\ Coin!SlotsFilled
  BY <1>5 DEF CoinInv, Signable
<1>7. /\ Coin!Assembled.keys
            = [j \in DOMAIN Coin!KeyInputs |-> Coin!The(inputs[Coin!KeyInputs[j]].key)]
      /\ Coin!Assembled.nonces = <<Head(nonces)>>
      /\ Coin!Assembled.granters = Tail(addresses)
      /\ Coin!Assembled.granterNonces = Tail(nonces)
      /\ Coin!Assembled.transfers
            = [j \in DOMAIN Coin!Transferring |-> Coin!Transfer(Coin!Transferring[j])]
      /\ DOMAIN Coin!Assembled
            = {"keys", "nonces", "granters", "granterNonces", "transfers", "signers"}
  BY <1>2 DEF Coin!Assembled
<1> HIDE DEF N, addresses
<1>0. /\ txn.keys = Coin!Assembled.keys /\ txn.nonces = Coin!Assembled.nonces
      /\ txn.granters = Coin!Assembled.granters
      /\ txn.granterNonces = Coin!Assembled.granterNonces
      /\ txn.transfers = Coin!Assembled.transfers /\ txn.signers = Coin!SignerKeys
  BY <1>6, <1>7
<1>8. Len(txn.keys) = 1
  <2>1. Len(txn.nonces) = Len(txn.keys)
    BY <1>6 DEF Coin!SlotsFilled
  <2> QED BY <1>0, <1>7, <2>1
<1>9. {i \in Coin!Indices : inputs[i].key # {}} = {1}
  <2> DEFINE S == {i \in Coin!Indices : inputs[i].key # {}}
  <2>1. IsFiniteSet(S)
    <3>1. S \subseteq 1..N /\ IsFiniteSet(1..N)
      BY <1>1, FS_Interval DEF Coin!Indices
    <3> QED BY <3>1, FS_Subset
  <2>2. Cardinality(S) \in Nat /\ DOMAIN Coin!KeyInputs = 1..Cardinality(S)
    BY <2>1, FS_CardinalityType, SameCardinality DEF Coin!KeyInputs, Coin!InOrder
  <2>3. Len(txn.keys) = Cardinality(S)
    BY <1>0, <1>7, <2>2
  <2>4. 1 \in S
    BY <1>3 DEF Coin!Indices
  <2> HIDE DEF S
  <2>5. PICK x : S = {x}
    BY <1>8, <2>1, <2>3, FS_Singleton
  <2> QED BY <2>4, <2>5 DEF S
<1>10. Coin!KeyInputs = [j \in 1..1 |-> j]
  BY <1>4, <1>9 DEF Coin!KeyInputs
<1>11. Coin!Transferring = [j \in 1..N - 1 |-> j + 1]
  <2>1. {i \in Coin!Indices : ~(Coin!IsAllowance /\ inputs[i].key # {})} = 2..N
    <3>1. \A i \in 1..N : inputs[i].key # {} <=> i = 1
      BY <1>1, <1>9 DEF Coin!Indices
    <3>2. \A i \in 1..N : i \in 2..N <=> i # 1
      BY <1>1
    <3>3. 2..N \subseteq 1..N
      BY <1>1
    <3> QED BY <1>1, <1>2, <3>1, <3>2, <3>3 DEF Coin!Indices
  <2>2. Coin!InOrder(2..N) = [j \in 1..N - 2 + 1 |-> 2 + j - 1]
    BY <1>1, Consecutive
  <2>3. N - 2 + 1 = N - 1 /\ \A j \in 1..N - 1 : 2 + j - 1 = j + 1
    BY <1>1
  <2> QED BY <2>1, <2>2, <2>3 DEF Coin!Transferring
<1>12. /\ txn.keys = [j \in 1..1 |-> Coin!The(inputs[j].key)] /\ txn.nonces = <<Head(nonces)>>
       /\ txn.granters = Tail(addresses) /\ txn.granterNonces = Tail(nonces)
       /\ txn.transfers = [j \in 1..N - 1 |-> Coin!Transfer(j + 1)]
       /\ txn.signers = Coin!SignerKeys
  BY <1>0, <1>7, <1>10, <1>11
<1>13. Coin!Conserved
  <2>1. Coin!BalanceInputs = Tail(inputs)
    BY <1>1, <1>2 DEF Coin!BalanceInputs, N
  <2>2. DOMAIN Tail(inputs) = 1..N - 1 /\ \A j \in 1..N - 1 : Tail(inputs)[j] = inputs[j + 1]
    BY <1>1 DEF CoinInv, CoinTyped, N
  <2>3. [j \in DOMAIN txn.transfers |-> txn.transfers[j].amount]
          = [i \in DOMAIN Coin!BalanceInputs |-> Coin!The(Coin!BalanceInputs[i].amount)]
    <3>1. \A j \in 1..N - 1 : txn.transfers[j].amount = Coin!The(Tail(inputs)[j].amount)
      <4>1. \A i : Coin!Transfer(i).amount = Coin!The(inputs[i].amount)
        BY DEF Coin!Transfer
      <4>2. \A j \in 1..N - 1 : txn.transfers[j] = Coin!Transfer(j + 1)
        BY <1>12
      <4> QED BY <2>2, <4>1, <4>2
    <3>2. DOMAIN txn.transfers = 1..N - 1
      BY <1>12
    <3> QED BY <2>1, <2>2, <3>1, <3>2
  <2>4. [j \in DOMAIN txn.transfers |-> txn.transfers[j].percent]
          = [j \in DOMAIN Coin!Transferring |-> Coin!Percent(inputs[Coin!Transferring[j]])]
    BY <1>11, <1>12 DEF Coin!Transfer
  <2>5. Coin!Balanced /\ Coin!FeesShared
    BY DEF CoinInv, Signable
  <2> QED BY <2>3, <2>4, <2>5 DEF Coin!Conserved, Coin!Balanced, Coin!FeesShared
<1>14. /\ nonces \in Seq(Nat) /\ Len(nonces) = N
       /\ Coin!AllInputsHaveNonces => nonces = GivenNonces
       /\ ~Coin!AllInputsHaveNonces => NoncesCurrent
  BY DEF CoinInv, NoncesRead, N
<1>15. /\ Head(nonces) = nonces[1]
       /\ Len(Tail(nonces)) = N - 1 /\ \A j \in 1..N - 1 : Tail(nonces)[j] = nonces[j + 1]
  BY <1>1, <1>14
<1>16. DOMAIN addresses = 1..N /\ \A i \in 1..N : addresses[i] = Coin!Address(inputs[i])
  BY <1>1 DEF addresses, Coin!Indices
<1>17. /\ Len(Tail(addresses)) = N - 1 /\ DOMAIN Tail(addresses) = 1..N - 1
       /\ \A j \in 1..N - 1 : Tail(addresses)[j] = Coin!Address(inputs[j + 1])
  <2>1. addresses \in Seq({Coin!Address(inputs[i]) : i \in 1..N}) /\ Len(addresses) = N
    BY <1>1, <1>16 DEF addresses
  <2>2. /\ Len(Tail(addresses)) = N - 1 /\ DOMAIN Tail(addresses) = 1..N - 1
        /\ \A j \in 1..N - 1 : Tail(addresses)[j] = addresses[j + 1]
    BY <1>1, <2>1
  <2>3. \A j \in 1..N - 1 : j + 1 \in 1..N
    BY <1>1
  <2> QED BY <1>16, <2>2, <2>3
<1>18. ASSUME NoncesCurrent
       PROVE  nonces[1] \in coinStart[Coin!The(inputs[1].key)] + 1 .. used[Coin!The(inputs[1].key)] + 1
  <2>1. Coin!The(inputs[1].key) = Coin!Address(inputs[1]) /\ 1 \in 1..N
    BY <1>1, <1>3, InputType DEF CoinInv
  <2> QED BY <1>14, <1>18, <2>1 DEF NoncesCurrent, CurrentNonce
<1>19. ASSUME NoncesCurrent, NEW j \in 1..N - 1
       PROVE  Tail(nonces)[j] \in coinStart[Tail(addresses)[j]] + 1 .. used[Tail(addresses)[j]] + 1
  <2>1. j + 1 \in 1..N
    BY <1>1
  <2> QED BY <1>14, <1>15, <1>17, <1>19, <2>1 DEF NoncesCurrent, CurrentNonce
<1>20. txn.signers = txn.keys /\ Len(txn.nonces) = Len(txn.keys)
  BY <1>5, <1>12
<1>21. Len(txn.granterNonces) = Len(txn.granters)
  BY <1>12, <1>15, <1>17
<1>22. ASSUME NoncesCurrent, NEW i \in DOMAIN txn.keys
       PROVE  txn.nonces[i] \in coinStart[txn.keys[i]] + 1 .. used[txn.keys[i]] + 1
  <2>1. i = 1
    BY <1>12
  <2> QED BY <1>12, <1>15, <1>18, <1>22, <2>1
<1>23. ASSUME NoncesCurrent, NEW i \in DOMAIN txn.granters
       PROVE  txn.granterNonces[i] \in coinStart[txn.granters[i]] + 1 .. used[txn.granters[i]] + 1
  BY <1>12, <1>17, <1>19, <1>23
<1>24. txn.nonces \o txn.granterNonces = nonces
  <2>1. <<Head(nonces)>> \o Tail(nonces) = nonces
    BY <1>1, <1>14
  <2> QED BY <1>12, <2>1
<1>25. Coin!AllInputsHaveNonces =>
         txn.nonces \o txn.granterNonces = [i \in Coin!Indices |-> Coin!The(inputs[i].nonce)]
  BY <1>14, <1>24 DEF GivenNonces, Coin!Indices
<1>26. ~Coin!AllInputsHaveNonces =>
         /\ \A i \in DOMAIN txn.keys :
              txn.nonces[i] \in coinStart[txn.keys[i]] + 1 .. used[txn.keys[i]] + 1
         /\ \A i \in DOMAIN txn.granters :
              txn.granterNonces[i] \in coinStart[txn.granters[i]] + 1 .. used[txn.granters[i]] + 1
  BY <1>14, <1>22, <1>23
<1>27. Coin!SlotsAligned
  BY <1>20, <1>21, <1>25, <1>26 DEF Coin!SlotsAligned
<1> QED BY <1>13, <1>27 DEF CoinSound

\* In the order the guides give, the slots line up and the amounts and fees add up.
LEMMA CoinInvSound == CoinInv => CoinSound
<1> SUFFICES ASSUME CoinInv, pc = "signed", Coin!Ordered PROVE CoinSound
  BY DEF CoinSound, Coin!Conserved, Coin!SlotsAligned
<1>1. CASE \A i \in DOMAIN inputs : inputs[i].granter = {}
  BY <1>1, OwnInputs
<1>2. CASE /\ inputs[1].granter = {} /\ \A i \in DOMAIN inputs \ {1} : inputs[i].granter # {}
           /\ ~\A i \in DOMAIN inputs : inputs[i].granter = {}
  <2>1. DOMAIN inputs = 1..Len(inputs) /\ Len(inputs) \in Nat /\ Len(inputs) > 0
    BY DEF CoinInv, CoinTyped
  <2>2. Len(inputs) > 1
    BY <1>2, <2>1
  <2> QED BY <1>2, <2>2, Grants
<1> QED BY <1>1, <1>2 DEF Coin!Ordered, Coin!Indices

-----------------------------------------------------------------------------
(* A calculation of fees by itself *)

MsgFields == {"fee", "feeId", "contractFee", "contractFeeId", "interfaceFee"}

FeeTyped ==
  /\ \E group \in FeeCases : feeCall \in group.calls /\ feeLedger \in group.ledgers
  /\ DOMAIN info \subseteq DOMAIN feeLedger.token
  /\ \A id \in DOMAIN info : info[id] = feeLedger.token[id]
  /\ DOMAIN feeMsg = MsgFields
  /\ feePc \in {"start", "fees", "baseFee", "balances", "done", "rejected"}

\* Until the base fee is known a digit stands for it, and the fee is for automatic ones only.
Pending ==
  /\ feePc \in {"start", "fees"} => feeMsg = Fee!NoFees
  /\ feePc = "baseFee" => ~Fee!ManualBase /\ feeMsg.fee = 1

\* Every recipient without the token is counted or still to be looked up.
Counted ==
  feePc = "balances" =>
    /\ ~Fee!ManualBase /\ without \in Nat /\ todo \subseteq Fee!Recipients
    /\ without + Cardinality(todo \ feeLedger.holders)
         >= Cardinality(Fee!Recipients \ feeLedger.holders) + Fee!Unconditional
    /\ feeMsg.fee \in Nat /\ feeMsg.fee >= Fee!NodePrice(Fee!Size(Fee!NoFees))

\* The percentage is in the message from the first of the fees on.
Percentage ==
  /\ Fee!ChargesContractFee /\ ~Fee!ManualContractFee /\ ~Fee!NoContractFee
  /\ Fee!Schedule.type = "PERCENTAGE"

Placed ==
  feePc \in {"baseFee", "balances", "done"} /\ Percentage =>
    /\ Fee!Priced
    /\ feeMsg.contractFee = Fee!Overestimated(Fee!PercentageInto(Fee!PayIn), feeCall.over)

BalancesPaid == feePc = "done" => Fee!NewBalancesPaid

\* What a message is sized by before its fee is known.
Unpriced(m) == [fee |-> 1, contractFee |-> m.contractFee, interfaceFee |-> m.interfaceFee]

Corrected == Fee!Overestimated(Fee!SizedParts(Fee!Size(Unpriced(feeMsg))), feeCall.over)

\* An automatic fee is that of the message with a fee of one digit, corrected once, or more.
LongEnough ==
  feePc \in {"balances", "done"} /\ ~Fee!ManualBase => feeMsg.fee \in Nat /\ feeMsg.fee >= Corrected

FeesInv == FeeTyped /\ Pending /\ Counted /\ Placed /\ BalancesPaid /\ LongEnough

LEMMA FeeCardinality == \A S : Fee!Cardinality(S) = Cardinality(S)
<1> QED BY DEF Fee!Cardinality, Cardinality

LEMMA FeeFinite == \A S : Fee!IsFiniteSet(S) <=> IsFiniteSet(S)
<1> QED BY DEF Fee!IsFiniteSet, IsFiniteSet

\* A quotient and its remainder.
LEMMA DivFacts ==
  ASSUME NEW a \in Nat, NEW d \in Nat \ {0}
  PROVE  a \div d \in Nat /\ d * (a \div d) <= a /\ a < d * (a \div d) + d
<1>1. a \div d \in Nat
  BY DivMonotone
<1> QED BY <1>1, SMT

LEMMA ProductType ==
  /\ \A a, b \in Nat : a * b \in Nat
  /\ \A a, b \in Nat \ {0} : a * b \in Nat \ {0}
<1> QED BY SMT

\* A margin takes nothing away, and gives no more than its share.
LEMMA OverestimatedBounds ==
  ASSUME NEW n \in Nat, NEW over \in Nat
  PROVE  /\ Fee!Overestimated(n, over) \in Nat /\ Fee!Overestimated(n, over) >= n
         /\ 100 * Fee!Overestimated(n, over) <= n * (100 + over)
         /\ n * (100 + over) < 100 * Fee!Overestimated(n, over) + 100
<1> DEFINE t == n * (100 + over)
           r == t \div 100
<1>1. t \in Nat /\ t >= 100 * n
  <2>1. n * over \in Nat
    BY ProductType
  <2>2. t = 100 * n + n * over
    BY SMT
  <2> QED BY <2>1, <2>2
<1> HIDE DEF t
<1>2. r \in Nat /\ 100 * r <= t /\ t < 100 * r + 100
  BY <1>1, DivFacts
<1> HIDE DEF r
<1>3. r >= n
  BY <1>1, <1>2
<1> QED BY <1>2, <1>3 DEF r, t, Fee!Overestimated

LEMMA CountOfDigits == \A n : Fee!Digits(n) \in Nat \ {0}
<1> SUFFICES ASSUME NEW n PROVE Fee!Digits(n) \in Nat \ {0}
  OBVIOUS
<1> DEFINE S == {k \in 1..Fee!MaxDecimals : n >= Fee!Pow10[k]}
<1>1. IsFiniteSet(1..8)
  <2>1. 1 \in Int /\ 8 \in Int
    OBVIOUS
  <2> QED BY <2>1, FS_Interval, Zenon
<1>2. S \subseteq 1..8
  BY DEF Fee!MaxDecimals
<1>3. Cardinality(S) \in Nat
  <2> HIDE DEF S
  <2> QED BY <1>1, <1>2, FS_Subset, FS_CardinalityType
<1>4. Fee!Digits(n) = 1 + Cardinality(S)
  BY FeeCardinality DEF Fee!Digits
<1> HIDE DEF S
<1> QED BY <1>3, <1>4

\* What a calculation reckons with.
LEMMA CaseFacts ==
  ASSUME FeeTyped
  PROVE  /\ feeCall.over \in Nat /\ feeCall.payload \in Nat /\ feeCall.premints \in Nat
         /\ feeCall.amount \in Nat /\ feeCall.gas \in Nat \union {None}
         /\ IsFiniteSet(feeCall.recipients)
         /\ IsFiniteSet(DOMAIN feeCall.keys) /\ DOMAIN feeCall.keys # {}
         /\ feeLedger.byteFee \in Nat /\ feeLedger.keyFee \in Nat /\ feeLedger.walletFee \in Nat
         /\ feeCall.known \union {Native} \subseteq DOMAIN feeLedger.token
         /\ feeCall.baseId \in DOMAIN feeLedger.token \union {None}
         /\ feeLedger.token[Native].decimals \in 0..8
         /\ \A id \in DOMAIN feeLedger.token :
              /\ feeLedger.token[id].rate \in (Nat \ {0}) \union {None}
              /\ feeLedger.token[id].decimals \in (0..8) \union {None}
              /\ feeLedger.token[id].fees # None => feeLedger.token[id].fees.fee \in Nat
<1>1. PICK group \in FeeCases : feeCall \in group.calls /\ feeLedger \in group.ledgers
  BY DEF FeeTyped
<1>2. /\ feeCall.over \in Nat /\ feeCall.payload \in Nat
      /\ feeCall.premints \in Nat /\ feeCall.amount \in Nat
      /\ feeCall.gas \in Nat \union {None} /\ Fee!IsFiniteSet(feeCall.recipients)
      /\ Fee!IsFiniteSet(DOMAIN feeCall.keys) /\ DOMAIN feeCall.keys # {}
      /\ feeCall.known \union {Native} \subseteq DOMAIN feeLedger.token
      /\ {feeCall.baseId, feeCall.contract, feeCall.payIn} \subseteq DOMAIN feeLedger.token \union {None}
      /\ feeLedger.byteFee \in Nat /\ feeLedger.keyFee \in Nat /\ feeLedger.walletFee \in Nat
      /\ feeLedger.token[Native].decimals # None
      /\ \A id \in DOMAIN feeLedger.token :
           /\ feeLedger.token[id].rate \in (Nat \ {0}) \union {None}
           /\ feeLedger.token[id].decimals \in (0..Fee!MaxDecimals) \union {None}
           /\ feeLedger.token[id].fees # None => feeLedger.token[id].fees.fee \in Nat
  BY <1>1, FeeAssumption, Zenon DEF Fee!CasesConstants
<1> QED BY <1>2, FeeFinite DEF Fee!MaxDecimals

LEMMA PowersPositive == \A d \in 0..8 : Fee!Pow10[d] \in Nat \ {0}
<1> SUFFICES ASSUME NEW d \in 0..8 PROVE Fee!Pow10[d] \in Nat \ {0}
  OBVIOUS
<1>1. Fee!Pow10[d] =
        <<1, 10, 100, 1000, 10000, 100000, 1000000, 10000000, 100000000>>[d + 1]
  BY DEF Fee!Pow10, Fee!MaxDecimals
<1>2. d \in {0, 1, 2, 3, 4, 5, 6, 7, 8}
  OBVIOUS
<1> QED BY <1>1, <1>2

\* Nothing is divided by zero.
LEMMA DivisorsPositive ==
  ASSUME FeeTyped
  PROVE  /\ \A id : Fee!Pow10[Fee!DecimalsOf(id)] \in Nat \ {0}
         /\ \A id : Fee!RateOf(id) \in (Nat \ {0}) \union {None}
         /\ \A id : Fee!UsdRate(Fee!RateOf(id), id) \in Nat \ {0}
         /\ Fee!GasRate \in Nat \ {0}
<1>1. \A id \in DOMAIN info :
        /\ info[id].rate \in (Nat \ {0}) \union {None} /\ info[id].decimals \in (0..8) \union {None}
  BY CaseFacts DEF FeeTyped
<1>2. \A id : Fee!DecimalsOf(id) \in 0..8
  BY <1>1, CaseFacts DEF Fee!DecimalsOf, Fee!NativeDecimals
<1>3. \A id : Fee!RateOf(id) \in (Nat \ {0}) \union {None}
  BY <1>1 DEF Fee!RateOf
<1>4. \A id : Fee!UsdRate(Fee!RateOf(id), id) \in Nat \ {0}
  BY <1>3, FeeAssumption DEF Fee!UsdRate, Fee!FeeConstants
<1> QED BY <1>2, <1>3, <1>4, PowersPositive DEF Fee!GasRate

LEMMA PartsFacts ==
  ASSUME FeeTyped, NEW a \in Nat, NEW b \in Nat, a >= b
  PROVE  Fee!PartsOf(a) \in Nat /\ Fee!PartsOf(b) \in Nat /\ Fee!PartsOf(a) >= Fee!PartsOf(b)
<1> DEFINE m == Fee!Multiplier(Fee!Base)
           p == Fee!Pow10[Fee!DecimalsOf(Fee!Base)]
           d == Fee!UsdRate(Fee!RateOf(Fee!Base), Fee!Base)
<1>1. m \in Nat /\ p \in Nat /\ d \in Nat \ {0}
  BY DivisorsPositive DEF Fee!Multiplier
<1>2. Fee!PartsOf(a) = (a * m * p) \div d /\ Fee!PartsOf(b) = (b * m * p) \div d
  BY DEF Fee!PartsOf
<1> HIDE DEF m, p, d
<1>3. PICK e \in Nat : a = b + e
  <2>1. a - b \in Nat /\ a = b + (a - b)
    OBVIOUS
  <2> QED BY <2>1
<1>4. a * m = b * m + e * m /\ a * m \in Nat /\ b * m \in Nat /\ e * m \in Nat
  BY <1>1, <1>3, ProductType
<1>5. a * m * p = b * m * p + e * m * p /\ a * m * p \in Nat /\ b * m * p \in Nat /\ e * m * p \in Nat
  BY <1>1, <1>4, ProductType
<1>6. a * m * p >= b * m * p
  BY <1>5
<1> QED BY <1>1, <1>2, <1>5, <1>6, DivMonotone

LEMMA NodePriceFacts ==
  ASSUME FeeTyped, NEW a \in Nat, NEW b \in Nat, a >= b
  PROVE  Fee!NodePrice(a) \in Nat /\ Fee!NodePrice(b) \in Nat /\ Fee!NodePrice(a) >= Fee!NodePrice(b)
<1> DEFINE p == feeLedger.byteFee  k == feeLedger.keyFee
<1>1. p \in Nat /\ k \in Nat
  BY CaseFacts
<1>2. Fee!NodePrice(a) = Fee!PartsOf(a * p + k) /\ Fee!NodePrice(b) = Fee!PartsOf(b * p + k)
  BY DEF Fee!NodePrice
<1> HIDE DEF p, k
<1>3. PICK e \in Nat : a = b + e
  <2>1. a - b \in Nat /\ a = b + (a - b)
    OBVIOUS
  <2> QED BY <2>1
<1>4. a * p = b * p + e * p /\ a * p \in Nat /\ b * p \in Nat /\ e * p \in Nat
  BY <1>1, <1>3, ProductType
<1>5. a * p + k \in Nat /\ b * p + k \in Nat /\ a * p + k >= b * p + k
  BY <1>1, <1>4
<1> QED BY <1>2, <1>5, PartsFacts

LEMMA SizeFacts ==
  ASSUME FeeTyped
  PROVE  /\ Fee!Size(Fee!NoFees) \in Nat
         /\ feeMsg.fee = 1 => /\ Fee!Size(feeMsg) \in Nat
                              /\ Fee!Size(feeMsg) >= Fee!Size(Fee!NoFees)
<1> DEFINE rest == Fee!SignaturesSize(feeCall.keys) + Fee!HashOverhead
                     + IF feeCall.keys = <<"ED448">> THEN 1 ELSE 0
<1>1. Fee!SignaturesSize(feeCall.keys) \in Nat
  <2> DEFINE long == {i \in DOMAIN feeCall.keys : feeCall.keys[i] = "ED448"}
             short == DOMAIN feeCall.keys \ long
  <2>1. long \subseteq DOMAIN feeCall.keys /\ short \subseteq DOMAIN feeCall.keys
    OBVIOUS
  <2>2. Fee!SignaturesSize(feeCall.keys)
          = Fee!Cardinality(long) * (114 + 2) + Fee!Cardinality(short) * (64 + 2)
    BY DEF Fee!SignaturesSize, Fee!SignatureSize, Fee!SignatureOverhead
  <2> HIDE DEF long, short
  <2>3. Cardinality(long) \in Nat /\ Cardinality(short) \in Nat
    BY <2>1, CaseFacts, FS_Subset, FS_CardinalityType
  <2> QED BY <2>2, <2>3, FeeCardinality
<1>2. rest \in Nat
  BY <1>1 DEF Fee!HashOverhead
<1> HIDE DEF rest
<1>3. \A n : Fee!FieldSize(n) \in Nat
  BY CountOfDigits DEF Fee!FieldSize
<1>4. /\ feeMsg.fee = 1 =>
           Fee!Size(feeMsg) = feeCall.payload + Fee!FieldSize(1) + Fee!FieldSize(feeMsg.contractFee)
                              + Fee!FieldSize(feeMsg.interfaceFee) + rest
      /\ Fee!Size(Fee!NoFees) = feeCall.payload + Fee!FieldSize(1) + rest
  <2>1. Fee!FieldSize(None) = 0
    BY DEF Fee!FieldSize
  <2>2. /\ Fee!NoFees.fee = 1 /\ Fee!NoFees.contractFee = None /\ Fee!NoFees.interfaceFee = None
    BY DEF Fee!NoFees
  <2> DEFINE s == Fee!SignaturesSize(feeCall.keys)  h == Fee!HashOverhead
             one == IF feeCall.keys = <<"ED448">> THEN 1 ELSE 0
  <2>3. s \in Nat /\ h \in Nat /\ one \in Nat /\ rest = s + h + one
    BY <1>1 DEF Fee!HashOverhead, rest
  <2>4. \A m : Fee!Size(m) = feeCall.payload + Fee!FieldSize(m.fee) + Fee!FieldSize(m.contractFee)
                              + Fee!FieldSize(m.interfaceFee) + s + h + one
    BY DEF Fee!Size
  <2> HIDE DEF s, h, one
  <2>5. feeCall.payload \in Nat
    BY CaseFacts
  <2>6. /\ feeMsg.fee = 1 =>
             Fee!Size(feeMsg) = feeCall.payload + Fee!FieldSize(1) + Fee!FieldSize(feeMsg.contractFee)
                                + Fee!FieldSize(feeMsg.interfaceFee) + s + h + one
        /\ Fee!Size(Fee!NoFees) = feeCall.payload + Fee!FieldSize(1) + 0 + 0 + s + h + one
    BY <2>1, <2>2, <2>4
  <2> QED BY <1>3, <2>3, <2>5, <2>6
<1> QED BY <1>2, <1>3, <1>4, CaseFacts

\* The fee of a message is that of its length at least, and so with the margin and the gas.
LEMMA BaseFeeCovers ==
  ASSUME FeeTyped, NEW s \in Nat
  PROVE  LET fee == Fee!Overestimated(Fee!SizedParts(s), feeCall.over) + Fee!GasParts
         IN /\ fee \in Nat /\ fee >= Fee!NodePrice(s)
            /\ fee >= Fee!Overestimated(Fee!SizedParts(s), feeCall.over)
<1> DEFINE first == Fee!AtLeastOnePart(Fee!NodePrice(s), s * feeLedger.byteFee + feeLedger.keyFee)
           d == Fee!Digits(first)
<1>1. Fee!NodePrice(s) \in Nat
  BY NodePriceFacts
<1>2. first \in Nat /\ first >= Fee!NodePrice(s)
  BY <1>1 DEF Fee!AtLeastOnePart
<1>3. d \in Nat \ {0}
  BY CountOfDigits
<1>4. Fee!SizedParts(s) = IF d = 1 THEN first ELSE Fee!NodePrice(s + d - 1)
  BY DEF Fee!SizedParts
<1> HIDE DEF first, d
<1>5. s + d - 1 \in Nat /\ s + d - 1 >= s
  BY <1>3
<1>6. Fee!NodePrice(s + d - 1) \in Nat /\ Fee!NodePrice(s + d - 1) >= Fee!NodePrice(s)
  BY <1>5, NodePriceFacts
<1>7. Fee!SizedParts(s) \in Nat /\ Fee!SizedParts(s) >= Fee!NodePrice(s)
  BY <1>1, <1>2, <1>4, <1>6
<1>8. /\ Fee!Overestimated(Fee!SizedParts(s), feeCall.over) \in Nat
      /\ Fee!Overestimated(Fee!SizedParts(s), feeCall.over) >= Fee!SizedParts(s)
  BY <1>7, CaseFacts, OverestimatedBounds
<1>9. Fee!GasParts \in Nat
  <2> DEFINE m == Fee!Multiplier(Fee!Base)
             p == Fee!Pow10[Fee!DecimalsOf(Fee!Base)]
             g == feeCall.gas
  <2>1. m \in Nat /\ p \in Nat /\ Fee!GasRate \in Nat \ {0}
    BY DivisorsPositive DEF Fee!Multiplier
  <2>2. Fee!GasParts = IF g = None \/ g = 0 THEN 0
                       ELSE Fee!AtLeastOnePart((g * m * p) \div Fee!GasRate, g)
    BY DEF Fee!GasParts
  <2>3. g \in Nat \union {None}
    BY CaseFacts
  <2> HIDE DEF m, p, g
  <2>4. CASE g \in Nat
    <3>1. g * m \in Nat
      BY <2>1, <2>4, ProductType
    <3>2. g * m * p \in Nat
      BY <2>1, <3>1, ProductType
    <3>3. (g * m * p) \div Fee!GasRate \in Nat
      BY <2>1, <3>2, DivFacts
    <3> QED BY <2>2, <3>3 DEF Fee!AtLeastOnePart
  <2> QED BY <2>2, <2>3, <2>4
<1> QED BY <1>1, <1>7, <1>8, <1>9

\* What a step of the calculation that keeps its inputs and its map keeps.
LEMMA SameCalculation ==
  ASSUME UNCHANGED <<feeCall, feeLedger, info>>
  PROVE  /\ Fee!ManualBase' = Fee!ManualBase /\ Fee!Recipients' = Fee!Recipients
         /\ Fee!Unconditional' = Fee!Unconditional
         /\ Fee!ChargesNewBalances' = Fee!ChargesNewBalances
         /\ (Fee!NodePrice(Fee!Size(Fee!NoFees)))' = Fee!NodePrice(Fee!Size(Fee!NoFees))
         /\ Percentage' = Percentage /\ Fee!Priced' = Fee!Priced
         /\ (Fee!Overestimated(Fee!PercentageInto(Fee!PayIn), feeCall.over))'
              = Fee!Overestimated(Fee!PercentageInto(Fee!PayIn), feeCall.over)
         /\ (Fee!Surcharge(Cardinality(Fee!Recipients \ feeLedger.holders) + Fee!Unconditional))'
              = Fee!Surcharge(Cardinality(Fee!Recipients \ feeLedger.holders) + Fee!Unconditional)
<1>1. Fee!ManualBase' = Fee!ManualBase /\ Fee!Recipients' = Fee!Recipients
  BY DEF Fee!ManualBase, Fee!Recipients
<1>2. Fee!Unconditional' = Fee!Unconditional
  BY DEF Fee!Unconditional
<1>3. Fee!ChargesNewBalances' = Fee!ChargesNewBalances
  BY <1>1, <1>2 DEF Fee!ChargesNewBalances
<1>4. Fee!Base' = Fee!Base
  BY DEF Fee!Base
<1>5. \A id : Fee!DecimalsOf(id)' = Fee!DecimalsOf(id) /\ Fee!RateOf(id)' = Fee!RateOf(id)
  BY DEF Fee!DecimalsOf, Fee!RateOf, Fee!NativeDecimals
<1>6. \A n : Fee!PartsOf(n)' = Fee!PartsOf(n)
  BY <1>4, <1>5 DEF Fee!PartsOf
<1>7. (Fee!NodePrice(Fee!Size(Fee!NoFees)))' = Fee!NodePrice(Fee!Size(Fee!NoFees))
  <2>1. (Fee!Size(Fee!NoFees))' = Fee!Size(Fee!NoFees)
    BY DEF Fee!Size
  <2> QED BY <1>6, <2>1 DEF Fee!NodePrice
<1>8. Percentage' = Percentage /\ Fee!PayIn' = Fee!PayIn
  BY DEF Percentage, Fee!ChargesContractFee, Fee!ManualContractFee, Fee!NoContractFee,
         Fee!Schedule, Fee!PayIn
<1>9. Fee!Priced' = Fee!Priced
  BY <1>5, <1>8 DEF Fee!Priced, Fee!SameTokenPercentage, Fee!Schedule, Fee!Convertible,
                    Fee!HasDecimals, Fee!NeedsPayRate
<1>10. (Fee!PercentageInto(Fee!PayIn))' = Fee!PercentageInto(Fee!PayIn)
  BY <1>5, <1>8 DEF Fee!PercentageInto, Fee!Schedule
<1>11. (Fee!Surcharge(Cardinality(Fee!Recipients \ feeLedger.holders) + Fee!Unconditional))'
         = Fee!Surcharge(Cardinality(Fee!Recipients \ feeLedger.holders) + Fee!Unconditional)
  BY <1>1, <1>2, <1>6 DEF Fee!Surcharge
<1> QED BY <1>1, <1>2, <1>3, <1>7, <1>8, <1>9, <1>10, <1>11 DEF Fee!Overestimated

\* The powers below an amount are the first ones.
LEMMA DigitsOf ==
  ASSUME NEW n \in Nat
  PROVE  /\ Fee!Digits(n) \in 1..9
         /\ Fee!Digits(n) >= 2 => n >= Fee!Pow10[Fee!Digits(n) - 1]
         /\ Fee!Digits(n) <= 8 => n < Fee!Pow10[Fee!Digits(n)]
<1> DEFINE p == Fee!Pow10
<1>1. /\ p[1] = 10 /\ p[2] = 100 /\ p[3] = 1000 /\ p[4] = 10000 /\ p[5] = 100000
      /\ p[6] = 1000000 /\ p[7] = 10000000 /\ p[8] = 100000000
  BY DEF Fee!Pow10, Fee!MaxDecimals
<1> HIDE DEF p
<1>2. PICK m \in 0..8 : \A k \in 1..8 : n >= p[k] <=> k <= m
  <2>1. \A k \in 1..8 : k \in {1, 2, 3, 4, 5, 6, 7, 8}
    OBVIOUS
  <2>2. CASE n < 10
    <3>1. \A k \in 1..8 : n >= p[k] <=> k <= 0
      BY <1>1, <2>1, <2>2
    <3> QED BY <3>1
  <2>3. CASE n >= 10 /\ n < 100
    <3>1. \A k \in 1..8 : n >= p[k] <=> k <= 1
      BY <1>1, <2>1, <2>3
    <3> QED BY <3>1
  <2>4. CASE n >= 100 /\ n < 1000
    <3>1. \A k \in 1..8 : n >= p[k] <=> k <= 2
      BY <1>1, <2>1, <2>4
    <3> QED BY <3>1
  <2>5. CASE n >= 1000 /\ n < 10000
    <3>1. \A k \in 1..8 : n >= p[k] <=> k <= 3
      BY <1>1, <2>1, <2>5
    <3> QED BY <3>1
  <2>6. CASE n >= 10000 /\ n < 100000
    <3>1. \A k \in 1..8 : n >= p[k] <=> k <= 4
      BY <1>1, <2>1, <2>6
    <3> QED BY <3>1
  <2>7. CASE n >= 100000 /\ n < 1000000
    <3>1. \A k \in 1..8 : n >= p[k] <=> k <= 5
      BY <1>1, <2>1, <2>7
    <3> QED BY <3>1
  <2>8. CASE n >= 1000000 /\ n < 10000000
    <3>1. \A k \in 1..8 : n >= p[k] <=> k <= 6
      BY <1>1, <2>1, <2>8
    <3> QED BY <3>1
  <2>9. CASE n >= 10000000 /\ n < 100000000
    <3>1. \A k \in 1..8 : n >= p[k] <=> k <= 7
      BY <1>1, <2>1, <2>9
    <3> QED BY <3>1
  <2>10. CASE n >= 100000000
    <3>1. \A k \in 1..8 : n >= p[k] <=> k <= 8
      BY <1>1, <2>1, <2>10
    <3> QED BY <3>1
  <2> QED BY <2>2, <2>3, <2>4, <2>5, <2>6, <2>7, <2>8, <2>9, <2>10
<1>3. {k \in 1..Fee!MaxDecimals : n >= Fee!Pow10[k]} = 1..m
  BY <1>2 DEF Fee!MaxDecimals, p
<1>4. Cardinality(1..m) = m
  <2>1. 1 \in Int /\ m \in Int
    OBVIOUS
  <2>2. Cardinality(1..m) = IF 1 > m THEN 0 ELSE m - 1 + 1
    BY <2>1, FS_Interval, Zenon
  <2> QED BY <2>2
<1>5. Fee!Digits(n) = 1 + m
  BY <1>3, <1>4, FeeCardinality DEF Fee!Digits
<1>6. m >= 1 => n >= p[m]
  BY <1>2
<1>7. m <= 7 => n < p[m + 1]
  <2>1. \A k \in 1..8 : p[k] \in Nat
    BY PowersPositive DEF p
  <2> QED BY <1>2, <2>1
<1>8. 1 + m - 1 = m /\ 1 + m = m + 1
  OBVIOUS
<1> QED BY <1>5, <1>6, <1>7, <1>8 DEF p

\* The price of a message with some bytes more, by a share of its price: it has a hundred.
LEMMA Growth ==
  ASSUME NEW c \in Nat, NEW h \in Nat, NEW d \in Nat \ {0}, NEW y \in Nat, y >= 101, NEW j \in Nat,
         NEW n \in Nat, NEW v \in Nat, n = (y * c + h) \div d, v = ((y + j) * c + h) \div d
  PROVE  /\ 101 * v < (101 + j) * (n + 1)
         /\ j = 1 => v <= n + c \div d + 1
<1> DEFINE t == y * c  u == j * c
<1>1. t \in Nat /\ u \in Nat /\ (y + j) * c = t + u
  BY ProductType
<1>2. 101 * c <= t
  <2>1. PICK e \in Nat : y = 101 + e
    <3>1. y - 101 \in Nat /\ y = 101 + (y - 101)
      OBVIOUS
    <3> QED BY <3>1
  <2>2. t = 101 * c + e * c /\ e * c \in Nat
    BY <2>1, ProductType
  <2> QED BY <2>2
<1>3. n = (t + h) \div d /\ v = (t + u + h) \div d
  BY <1>1
<1> HIDE DEF t
<1>4. t + h < d * n + d
  BY <1>1, <1>3, DivFacts
<1>5. d * v <= t + u + h
  <2> HIDE DEF u
  <2>1. t + u + h \in Nat
    BY <1>1
  <2> QED BY <1>3, <2>1, DivFacts
<1>6. 101 * v < (101 + j) * (n + 1)
  <2>1. 101 * c < d * (n + 1)
    BY <1>1, <1>2, <1>4
  <2> DEFINE w == d * (n + 1)
  <2>2. w \in Nat /\ w = d * n + d
    BY ProductType
  <2>3. j * (101 * c) <= j * w
    <3>1. PICK e \in Nat : w = 101 * c + e
      <4>1. w - 101 * c \in Nat /\ w = 101 * c + (w - 101 * c)
        BY <2>1, <2>2
      <4> QED BY <4>1
    <3> HIDE DEF w
    <3>2. j * w = j * (101 * c) + j * e /\ j * e \in Nat /\ j * (101 * c) \in Nat
      BY <3>1, ProductType
    <3> QED BY <3>2
  <2>4. 101 * u = j * (101 * c)
    OBVIOUS
  <2> HIDE DEF w, u
  <2>5. d * v < w + u
    BY <1>1, <1>4, <1>5, <2>2
  <2> DEFINE a == d * v  b == j * w
  <2>6. a \in Nat /\ b \in Nat
    BY <2>2, ProductType
  <2>7. 101 * a < 101 * w + b
    <3> HIDE DEF a, b
    <3>1. a < w + u /\ 101 * u <= b
      BY <2>3, <2>4, <2>5 DEF a, b
    <3> QED BY <1>1, <2>2, <2>6, <3>1
  <2>8. 101 * a = d * (101 * v) /\ 101 * w + b = d * ((101 + j) * (n + 1))
    BY DEF w
  <2> DEFINE left == 101 * v  right == (101 + j) * (n + 1)
  <2>9. left \in Nat /\ right \in Nat /\ d * left < d * right
    BY <2>7, <2>8, ProductType
  <2> HIDE DEF left, right
  <2>10. left < right
    <3> SUFFICES ASSUME left >= right PROVE FALSE
      BY <2>9
    <3>1. PICK e \in Nat : left = right + e
      <4>1. left - right \in Nat /\ left = right + (left - right)
        BY <2>9
      <4> QED BY <4>1
    <3>2. d * left = d * right + d * e /\ d * e \in Nat /\ d * right \in Nat
      BY <2>9, <3>1, ProductType
    <3> QED BY <2>9, <3>2
  <2> QED BY <2>10 DEF left, right
<1>7. ASSUME j = 1 PROVE v <= n + c \div d + 1
  <2> DEFINE q == c \div d
  <2>1. q \in Nat /\ c < d * q + d
    BY DivFacts
  <2>2. u = c
    BY <1>7
  <2> HIDE DEF q, u
  <2> DEFINE r == n + q + 1
  <2>3. d * v < d * n + d + d * q + d
    BY <1>1, <1>4, <1>5, <2>1, <2>2
  <2>4. d * v < d * (r + 1)
    BY <2>1, <2>3
  <2> SUFFICES ASSUME v >= r + 1 PROVE FALSE
    BY <2>1 DEF q
  <2>5. r + 1 \in Nat
    BY <2>1
  <2> HIDE DEF r
  <2>6. PICK e \in Nat : v = (r + 1) + e
    <3>1. v - (r + 1) \in Nat /\ v = (r + 1) + (v - (r + 1))
      BY <2>5
    <3> QED BY <3>1
  <2> DEFINE g == r + 1
  <2>7. g \in Nat /\ v = g + e /\ d * v < d * g
    BY <2>4, <2>5, <2>6
  <2> HIDE DEF g
  <2>8. d * v = d * g + d * e /\ d * e \in Nat /\ d * g \in Nat
    BY <2>7, ProductType
  <2> QED BY <2>7, <2>8
<1> QED BY <1>6, <1>7

\* The digits of a fee are counted once: the fee of the corrected message, with a margin of two
\* percent, is enough for the digits it has itself, and without one it is a byte short at most.
LEMMA OnceIsEnough ==
  ASSUME NEW D \in 1..8, NEW j \in 1..8, D + j <= 9, NEW over \in Nat, NEW f \in Nat, NEW q \in Nat,
         NEW first \in Nat, NEW one \in Nat, NEW n \in Nat, NEW v \in Nat, NEW step \in Nat,
         one <= first, first < Fee!Pow10[D], f >= Fee!Pow10[D + j - 1],
         q >= n, f >= q, q * (100 + over) < 100 * f + 100,
         101 * n < (101 + (D - 1)) * (one + 1),
         D = 1 => n = one,
         101 * v < (101 + j) * (n + 1),
         j = 1 => v <= n + step + 1
  PROVE  f + (IF over < 2 THEN step + 1 ELSE 0) >= v
<1> DEFINE P == Fee!Pow10[D]
<1>1. /\ P \in Nat /\ P >= 10 /\ f >= P /\ (D # 1 => P >= 100) /\ (D = 1 => P = 10)
      /\ j >= 2 => f >= 10 * P
  <2> DEFINE p == Fee!Pow10
  <2>1. /\ p[1] = 10 /\ p[2] = 100 /\ p[3] = 1000 /\ p[4] = 10000 /\ p[5] = 100000
        /\ p[6] = 1000000 /\ p[7] = 10000000 /\ p[8] = 100000000
    BY DEF Fee!Pow10, Fee!MaxDecimals
  <2> HIDE DEF p
  <2>2. \A k \in 1..8 : k \in {1, 2, 3, 4, 5, 6, 7, 8}
    OBVIOUS
  <2>3. \A k \in 1..8 : p[k] \in Nat /\ p[k] >= 10 /\ (k # 1 => p[k] >= 100)
    BY <2>1, <2>2
  <2>4. \A k \in 1..7 : p[k + 1] = 10 * p[k]
    BY <2>1, <2>2
  <2>5. \A i, k \in 1..8 : i <= k => p[i] <= p[k]
    BY <2>1, <2>2
  <2>6. D + j - 1 \in 1..8 /\ D <= D + j - 1
    OBVIOUS
  <2>7. f >= p[D + j - 1] /\ p[D + j - 1] \in Nat /\ p[D] \in Nat
    BY <2>3, <2>6 DEF p
  <2>8. p[D] <= p[D + j - 1]
    BY <2>5, <2>6
  <2>9. f >= p[D]
    BY <2>7, <2>8
  <2>10. ASSUME j >= 2 PROVE f >= 10 * p[D]
    <3>1. D \in 1..7 /\ D + 1 \in 1..8 /\ D + 1 <= D + j - 1
      BY <2>10
    <3>2. p[D + 1] = 10 * p[D]
      BY <2>4, <3>1
    <3>3. p[D + 1] <= p[D + j - 1]
      BY <2>5, <2>6, <3>1
    <3> QED BY <2>7, <3>2, <3>3
  <2>11. D = 1 => p[D] = 10
    BY <2>1
  <2> QED BY <2>3, <2>7, <2>9, <2>10, <2>11 DEF p
<1> HIDE DEF P
<1>2. one + 1 <= P
  BY <1>1 DEF P
<1>3. 101 * n < 108 * P
  <2>1. D \in {1, 2, 3, 4, 5, 6, 7, 8}
    OBVIOUS
  <2>2. (101 + (D - 1)) * (one + 1) <= 108 * (one + 1)
    BY <2>1
  <2> DEFINE w == (101 + (D - 1)) * (one + 1)
  <2>3. w \in Nat /\ 101 * n < w /\ w <= 108 * (one + 1)
    BY <2>2, ProductType
  <2> HIDE DEF w
  <2> QED BY <1>1, <1>2, <2>3
<1>4. CASE j >= 2
  <2>1. j \in {2, 3, 4, 5, 6, 7, 8}
    BY <1>4
  <2>2. (101 + j) * (n + 1) <= 109 * (n + 1)
    BY <2>1
  <2> DEFINE w == (101 + j) * (n + 1)
  <2>3. w \in Nat /\ 101 * v < w /\ w <= 109 * (n + 1)
    BY <2>2, ProductType
  <2> HIDE DEF w
  <2>4. v <= 10 * P
    BY <1>1, <1>3, <2>3
  <2> QED BY <1>1, <1>4, <2>4
<1>5. CASE j = 1 /\ over < 2
  BY <1>5
<1>6. CASE j = 1 /\ over >= 2
  <2>1. 101 * v < 102 * (n + 1)
    BY <1>6
  <2>2. 102 * n < 100 * f + 100
    <3>1. PICK e \in Nat : over = 2 + e
      <4>1. over - 2 \in Nat /\ over = 2 + (over - 2)
        BY <1>6
      <4> QED BY <4>1
    <3>2. q * (100 + over) = 102 * q + q * e /\ q * e \in Nat
      BY <3>1, ProductType
    <3> QED BY <3>2
  <2>3. D = 1 => n <= 9
    BY <1>1, <1>2
  <2> SUFFICES ASSUME v >= f + 1 PROVE FALSE
    BY <1>6
  <2>4. 101 * (f + 1) < 102 * (n + 1)
    BY <2>1
  <2>5. n <= 99
    BY <2>2, <2>4
  <2>6. f <= 99
    BY <2>4, <2>5
  <2>7. D = 1
    BY <1>1, <2>6
  <2> QED BY <1>1, <2>3, <2>4, <2>7
<1> QED BY <1>4, <1>5, <1>6

\* With the digits of the fee itself, whatever surcharge is added to it.
LEMMA LengthCovered ==
  ASSUME FeeTyped, NEW s \in Nat, s >= 101, NEW f \in Nat,
         f >= Fee!Overestimated(Fee!SizedParts(s), feeCall.over)
  PROVE  f + (IF feeCall.over < 2 THEN Fee!PartsOf(feeLedger.byteFee) + 1 ELSE 0)
           >= Fee!NodePrice(s - 1 + Fee!Digits(f))
<1> DEFINE over == feeCall.over
           step == Fee!PartsOf(feeLedger.byteFee)
           one == Fee!NodePrice(s)
           first == Fee!AtLeastOnePart(one, s * feeLedger.byteFee + feeLedger.keyFee)
           D == Fee!Digits(first)
           E == Fee!Digits(f)
           y == s + D - 1
           n == Fee!NodePrice(y)
           q == Fee!SizedParts(s)
           m == Fee!Multiplier(Fee!Base)
           p == Fee!Pow10[Fee!DecimalsOf(Fee!Base)]
           d == Fee!UsdRate(Fee!RateOf(Fee!Base), Fee!Base)
           b == feeLedger.byteFee
           k == feeLedger.keyFee
           c == b * m * p
           h == k * m * p
<1>1. over \in Nat /\ b \in Nat /\ k \in Nat
  BY CaseFacts
<1>2. m \in Nat /\ p \in Nat /\ d \in Nat \ {0}
  BY DivisorsPositive DEF Fee!Multiplier
<1>3. /\ \A x \in Nat : Fee!NodePrice(x) = ((x * b + k) * m * p) \div d
      /\ step = (b * m * p) \div d
  BY DEF Fee!NodePrice, Fee!PartsOf
<1>4. one \in Nat /\ step \in Nat
  BY <1>1, NodePriceFacts, PartsFacts
<1>5. first \in Nat /\ first >= one
  BY <1>4 DEF Fee!AtLeastOnePart
<1>6. q = IF D = 1 THEN first ELSE n
  BY DEF Fee!SizedParts
<1> HIDE DEF over, step, first, q, m, p, d, b, k
<1>7. c \in Nat /\ h \in Nat
  BY <1>1, <1>2, ProductType
<1>8. \A x \in Nat : Fee!NodePrice(x) = (x * c + h) \div d
  <2> SUFFICES ASSUME NEW x \in Nat PROVE Fee!NodePrice(x) = (x * c + h) \div d
    OBVIOUS
  <2>1. (x * b + k) * m * p = x * c + h
    BY <1>1, <1>2
  <2> QED BY <1>3, <2>1
<1>9. /\ D \in 1..9 /\ (D <= 8 => first < Fee!Pow10[D])
      /\ E \in 1..9 /\ (E >= 2 => f >= Fee!Pow10[E - 1])
  BY <1>5, DigitsOf
<1> HIDE DEF D, E, c, h
<1>10. y \in Nat /\ y >= s /\ (D = 1 => y = s)
  BY <1>9
<1>11. n \in Nat
  BY <1>10, NodePriceFacts
<1>12. D = 1 => n = one
  BY <1>10
<1>13. q \in Nat /\ q >= n
  BY <1>5, <1>6, <1>11, <1>12
<1>14. f >= q /\ q * (100 + over) < 100 * f + 100
  <2> DEFINE r == Fee!Overestimated(q, over)  t == q * (100 + over)
  <2>1. r \in Nat /\ r >= q /\ t < 100 * r + 100 /\ f >= r
    BY <1>1, <1>13, OverestimatedBounds DEF q, over
  <2>2. t \in Nat
    BY <1>1, <1>13, ProductType
  <2> HIDE DEF r, t
  <2>3. f >= q /\ t < 100 * f + 100
    BY <1>13, <2>1, <2>2
  <2> QED BY <2>3 DEF t
<1>15. CASE E <= D
  <2> DEFINE x == s - 1 + E
  <2>1. x \in Nat /\ y >= x
    BY <1>9, <1>15
  <2> HIDE DEF x, y
  <2>2. Fee!NodePrice(x) \in Nat /\ n >= Fee!NodePrice(x)
    BY <1>10, <2>1, NodePriceFacts
  <2>3. f >= Fee!NodePrice(x)
    BY <1>11, <1>13, <1>14, <2>2
  <2>4. f + (IF over < 2 THEN step + 1 ELSE 0) >= Fee!NodePrice(x)
    BY <1>4, <2>2, <2>3
  <2> QED BY <2>4 DEF x, E, over, step
<1>16. CASE E > D
  <2> DEFINE j == E - D  v == Fee!NodePrice(y + j)
  <2>1. /\ D \in 1..8 /\ j \in 1..8 /\ D + j <= 9 /\ D + j - 1 = E - 1 /\ E >= 2
        /\ y + j = s - 1 + E /\ y + j \in Nat /\ y >= 101 /\ D - 1 \in Nat /\ j \in Nat
    BY <1>9, <1>10, <1>16
  <2>2. first < Fee!Pow10[D] /\ f >= Fee!Pow10[D + j - 1]
    BY <1>9, <2>1
  <2> HIDE DEF j
  <2>3. 101 * n < (101 + (D - 1)) * (one + 1)
    <3> DEFINE g == D - 1
    <3>1. y = s + g /\ g \in Nat
      BY <2>1
    <3>2. one = (s * c + h) \div d /\ n = ((s + g) * c + h) \div d
      BY <1>8, <1>10, <3>1
    <3> HIDE DEF one, n, g
    <3> QED BY <1>2, <1>4, <1>7, <1>11, <3>1, <3>2, Growth DEF g
  <2>4. v \in Nat /\ 101 * v < (101 + j) * (n + 1) /\ (j = 1 => v <= n + step + 1)
    <3>1. n = (y * c + h) \div d /\ v = ((y + j) * c + h) \div d
      BY <1>8, <1>10, <2>1
    <3>2. v \in Nat
      BY <2>1, NodePriceFacts
    <3>3. step = c \div d
      BY <1>3 DEF c
    <3> HIDE DEF n, v, y
    <3>4. 101 * v < (101 + j) * (n + 1) /\ (j = 1 => v <= n + c \div d + 1)
      BY <1>2, <1>7, <1>10, <1>11, <2>1, <3>1, <3>2, Growth
    <3> QED BY <3>2, <3>3, <3>4
  <2> HIDE DEF one, n, v
  <2>5. f + (IF over < 2 THEN step + 1 ELSE 0) >= v
    BY <1>1, <1>4, <1>5, <1>11, <1>12, <1>13, <1>14, <2>1, <2>2, <2>3, <2>4, OnceIsEnough
  <2> QED BY <2>1, <2>5 DEF v, E, over, step
<1> QED BY <1>9, <1>15, <1>16

LEMMA PowersLarge == \A k \in 1..8 : Fee!Pow10[k] >= 10
<1> SUFFICES ASSUME NEW k \in 1..8 PROVE Fee!Pow10[k] >= 10
  OBVIOUS
<1>1. Fee!Pow10[k] =
        <<1, 10, 100, 1000, 10000, 100000, 1000000, 10000000, 100000000>>[k + 1]
  BY DEF Fee!Pow10, Fee!MaxDecimals
<1>2. k \in {1, 2, 3, 4, 5, 6, 7, 8}
  OBVIOUS
<1> QED BY <1>1, <1>2

\* A signed message has a hundred bytes and a digit of its fee.
LEMMA UnpricedSize ==
  ASSUME FeeTyped
  PROVE  /\ Fee!Size(Unpriced(feeMsg)) \in Nat /\ Fee!Size(Unpriced(feeMsg)) >= 101
         /\ feeMsg.fee = 1 => Fee!Size(feeMsg) = Fee!Size(Unpriced(feeMsg))
         /\ feeMsg.fee \in Nat =>
              Fee!Size(feeMsg) = Fee!Size(Unpriced(feeMsg)) - 1 + Fee!Digits(feeMsg.fee)
<1> DEFINE sigs == Fee!SignaturesSize(feeCall.keys)
           other == Fee!FieldSize(feeMsg.contractFee)
           third == Fee!FieldSize(feeMsg.interfaceFee)
           one == IF feeCall.keys = <<"ED448">> THEN 1 ELSE 0
           B == Unpriced(feeMsg)
<1>1. sigs \in Nat /\ sigs >= 66
  <2> DEFINE long == {i \in DOMAIN feeCall.keys : feeCall.keys[i] = "ED448"}
             short == DOMAIN feeCall.keys \ long
  <2>1. long \subseteq DOMAIN feeCall.keys /\ short \subseteq DOMAIN feeCall.keys
    OBVIOUS
  <2>2. sigs = Fee!Cardinality(long) * (114 + 2) + Fee!Cardinality(short) * (64 + 2)
    BY DEF Fee!SignaturesSize, Fee!SignatureSize, Fee!SignatureOverhead
  <2>3. long # {} \/ short # {}
    BY CaseFacts
  <2> HIDE DEF long, short, sigs
  <2>4. IsFiniteSet(long) /\ IsFiniteSet(short)
    BY <2>1, CaseFacts, FS_Subset
  <2>5. Cardinality(long) \in Nat /\ Cardinality(short) \in Nat
    BY <2>4, FS_CardinalityType
  <2>6. Cardinality(long) # 0 \/ Cardinality(short) # 0
    BY <2>3, <2>4, FS_EmptySet
  <2> QED BY <2>2, <2>5, <2>6, FeeCardinality
<1>2. feeCall.payload \in Nat /\ other \in Nat /\ third \in Nat /\ one \in Nat
  BY CaseFacts, CountOfDigits DEF Fee!FieldSize
<1>3. Fee!FieldSize(1) = 1
  <2>1. Fee!Digits(1) = 1
    <3>1. Fee!Digits(1) \in 1..9 /\ (Fee!Digits(1) >= 2 => 1 >= Fee!Pow10[Fee!Digits(1) - 1])
      BY DigitsOf
    <3> DEFINE g == Fee!Digits(1)
    <3>2. \A k \in 1..8 : Fee!Pow10[k] \in Nat /\ Fee!Pow10[k] >= 10
      BY PowersLarge, PowersPositive
    <3> HIDE DEF g
    <3>3. g >= 2 => g - 1 \in 1..8
      BY <3>1 DEF g
    <3>4. ~(g >= 2)
      BY <3>1, <3>2, <3>3 DEF g
    <3> QED BY <3>1, <3>4 DEF g
  <2>2. 1 # None
    BY FeeAssumption DEF Fee!FeeConstants
  <2> QED BY <2>1, <2>2 DEF Fee!FieldSize
<1>4. \A m : Fee!Size(m) = feeCall.payload + Fee!FieldSize(m.fee) + Fee!FieldSize(m.contractFee)
                            + Fee!FieldSize(m.interfaceFee) + sigs + 34 + one
  BY DEF Fee!Size, Fee!HashOverhead
<1>5. B.fee = 1 /\ B.contractFee = feeMsg.contractFee /\ B.interfaceFee = feeMsg.interfaceFee
  BY DEF Unpriced
<1> HIDE DEF sigs, other, third, one, B
<1>6. Fee!Size(B) = feeCall.payload + 1 + other + third + sigs + 34 + one
  BY <1>3, <1>4, <1>5 DEF other, third
<1>7. Fee!Size(feeMsg) = feeCall.payload + Fee!FieldSize(feeMsg.fee) + other + third + sigs + 34 + one
  BY <1>4 DEF other, third
<1>8. feeMsg.fee \in Nat =>
        Fee!FieldSize(feeMsg.fee) = Fee!Digits(feeMsg.fee) /\ Fee!Digits(feeMsg.fee) \in Nat
  <2>1. None \notin Nat
    BY FeeAssumption DEF Fee!FeeConstants
  <2> QED BY <2>1, CountOfDigits DEF Fee!FieldSize
<1>9. Fee!Size(B) \in Nat /\ Fee!Size(B) >= 101
  BY <1>1, <1>2, <1>6
<1>10. feeMsg.fee = 1 => Fee!Size(feeMsg) = Fee!Size(B)
  BY <1>3, <1>6, <1>7
<1>11. feeMsg.fee \in Nat => Fee!Size(feeMsg) = Fee!Size(B) - 1 + Fee!Digits(feeMsg.fee)
  BY <1>1, <1>2, <1>6, <1>7, <1>8
<1> QED BY <1>9, <1>10, <1>11 DEF B

LEMMA CorrectedType == FeeTyped => Corrected \in Nat
<1> SUFFICES ASSUME FeeTyped PROVE Corrected \in Nat
  OBVIOUS
<1> DEFINE s == Fee!Size(Unpriced(feeMsg))
<1>1. s \in Nat
  BY UnpricedSize
<1> HIDE DEF s
<1>2. Fee!SizedParts(s) \in Nat
  <2> DEFINE first == Fee!AtLeastOnePart(Fee!NodePrice(s), s * feeLedger.byteFee + feeLedger.keyFee)
  <2>1. first \in Nat
    BY <1>1, NodePriceFacts DEF Fee!AtLeastOnePart
  <2>2. Fee!Digits(first) \in Nat \ {0}
    BY CountOfDigits
  <2>3. Fee!SizedParts(s) = IF Fee!Digits(first) = 1 THEN first
                                                    ELSE Fee!NodePrice(s + Fee!Digits(first) - 1)
    BY DEF Fee!SizedParts
  <2> HIDE DEF first
  <2>4. s + Fee!Digits(first) - 1 \in Nat
    BY <1>1, <2>2
  <2> QED BY <2>1, <2>3, <2>4, NodePriceFacts
<1> QED BY <1>2, CaseFacts, OverestimatedBounds DEF Corrected, s

\* The correction is of the calculation and of the other fees.
LEMMA SameCorrection ==
  ASSUME UNCHANGED <<feeCall, feeLedger, info>>,
         feeMsg'.contractFee = feeMsg.contractFee, feeMsg'.interfaceFee = feeMsg.interfaceFee
  PROVE  Corrected' = Corrected
<1>1. Unpriced(feeMsg)' = Unpriced(feeMsg)
  BY DEF Unpriced
<1>2. Fee!Size(Unpriced(feeMsg))' = Fee!Size(Unpriced(feeMsg))
  BY <1>1 DEF Fee!Size
<1>3. Fee!Base' = Fee!Base
  BY DEF Fee!Base
<1>4. \A id : Fee!DecimalsOf(id)' = Fee!DecimalsOf(id) /\ Fee!RateOf(id)' = Fee!RateOf(id)
  BY DEF Fee!DecimalsOf, Fee!RateOf, Fee!NativeDecimals
<1>5. \A n : Fee!NodePrice(n)' = Fee!NodePrice(n)
  BY <1>3, <1>4 DEF Fee!PartsOf, Fee!NodePrice
<1>6. Fee!SizedParts(Fee!Size(Unpriced(feeMsg)))' = Fee!SizedParts(Fee!Size(Unpriced(feeMsg)))
  BY <1>2, <1>5 DEF Fee!SizedParts
<1> QED BY <1>6 DEF Corrected, Fee!Overestimated

\* A surcharge grows with the number of balances.
LEMMA SurchargeFacts ==
  ASSUME FeeTyped, NEW a \in Nat, NEW b \in Nat, a >= b
  PROVE  Fee!Surcharge(a) \in Nat /\ Fee!Surcharge(b) \in Nat /\ Fee!Surcharge(a) >= Fee!Surcharge(b)
<1> DEFINE w == feeLedger.walletFee
<1>1. w \in Nat
  BY CaseFacts
<1>2. Fee!Surcharge(a) = Fee!PartsOf(w * a) /\ Fee!Surcharge(b) = Fee!PartsOf(w * b)
  BY DEF Fee!Surcharge
<1> HIDE DEF w
<1>3. PICK e \in Nat : a = b + e
  <2>1. a - b \in Nat /\ a = b + (a - b)
    OBVIOUS
  <2> QED BY <2>1
<1>4. w * a = w * b + w * e /\ w * a \in Nat /\ w * b \in Nat /\ w * e \in Nat
  BY <1>1, <1>3, ProductType
<1>5. w * a >= w * b
  BY <1>4
<1> QED BY <1>2, <1>4, <1>5, PartsFacts

LEMMA FeesStart == Fee!Init => FeesInv
<1> SUFFICES ASSUME Fee!Init PROVE FeesInv
  OBVIOUS
<1>1. PICK group \in FeeCases : feeCall \in group.calls /\ feeLedger \in group.ledgers
  BY DEF Fee!Init
<1>2. feeCall.known \subseteq DOMAIN feeLedger.token
  BY <1>1, FeeAssumption DEF Fee!CasesConstants
<1>3. info = [id \in (IF feeCall.mapGiven THEN feeCall.known ELSE {}) |-> feeLedger.token[id]]
  BY DEF Fee!Init
<1>4. DOMAIN info \subseteq DOMAIN feeLedger.token /\ \A id \in DOMAIN info : info[id] = feeLedger.token[id]
  BY <1>2, <1>3
<1>5. feePc = "start" /\ feeMsg = Fee!NoFees
  BY DEF Fee!Init
<1>6. DOMAIN feeMsg = MsgFields
  BY <1>5 DEF Fee!NoFees, MsgFields
<1> QED BY <1>1, <1>4, <1>5, <1>6
        DEF FeesInv, FeeTyped, Pending, Counted, Placed, BalancesPaid, LongEnough, Fee!NewBalancesPaid,
            Fee!Calculated

LEMMA RejectKeeps == FeesInv /\ Fee!Reject => FeesInv'
<1> SUFFICES ASSUME FeesInv, Fee!Reject PROVE FeesInv'
  OBVIOUS
<1>1. feePc' = "rejected" /\ UNCHANGED <<feeCall, feeLedger, info, feeMsg>>
  BY DEF Fee!Reject
<1> QED BY <1>1 DEF FeesInv, FeeTyped, Pending, Counted, Placed, BalancesPaid, LongEnough,
                    Fee!NewBalancesPaid, Fee!Calculated

LEMMA TokenFetched == FeesInv /\ Fee!FetchTokenInfo => FeesInv'
<1> SUFFICES ASSUME FeesInv, Fee!FetchTokenInfo PROVE FeesInv'
  OBVIOUS
<1>1. /\ feePc = "start" /\ feePc' = "fees" /\ UNCHANGED <<feeCall, feeLedger, feeMsg>>
      /\ \/ UNCHANGED info
         \/ info' = [id \in DOMAIN info \union {Fee!Base} |->
                       IF id = Fee!Base THEN feeLedger.token[Fee!Base] ELSE info[id]]
  BY DEF Fee!FetchTokenInfo
<1>2. Fee!Base \in DOMAIN feeLedger.token
  BY CaseFacts DEF FeesInv, Fee!Base
<1>3. /\ DOMAIN info' \subseteq DOMAIN feeLedger.token
      /\ \A id \in DOMAIN info' : info'[id] = feeLedger.token[id]
  BY <1>1, <1>2 DEF FeesInv, FeeTyped
<1>4. FeeTyped'
  BY <1>1, <1>3 DEF FeesInv, FeeTyped
<1>5. Pending'
  BY <1>1 DEF FeesInv, Pending, Fee!NoFees
<1> QED BY <1>1, <1>4, <1>5 DEF FeesInv, Counted, Placed, BalancesPaid, LongEnough, Fee!NewBalancesPaid,
                                Fee!Calculated

\* A percentage that is charged has its rates, and is in the message as it was scheduled.
LEMMA PercentagePlaced ==
  ASSUME FeesInv, Percentage, ~Fee!ContractFeeFails
  PROVE  /\ Fee!Priced
         /\ Fee!WithContractFee(feeMsg) =
              [feeMsg EXCEPT !.contractFeeId = Fee!PayIn,
                             !.contractFee = Fee!Overestimated(Fee!PercentageInto(Fee!PayIn),
                                                               feeCall.over)]
<1>1. Fee!Priced
  BY DEF Percentage, Fee!ContractFeeFails, Fee!NoContractFee
<1>2. Fee!ScheduledFee = Fee!PercentageInto(Fee!PayIn)
  BY DEF Percentage, Fee!ScheduledFee
<1> QED BY <1>1, <1>2 DEF Percentage, Fee!WithContractFee, Fee!ManualContractFee

\* No other fee touches the contract's.
LEMMA FeesApart ==
  ASSUME NEW m, DOMAIN m = MsgFields, NEW fee
  PROVE  /\ DOMAIN Fee!WithContractFee(m) = MsgFields
         /\ Fee!WithContractFee(m).fee = m.fee
         /\ DOMAIN Fee!WithInterfaceFee(m) = MsgFields
         /\ Fee!WithInterfaceFee(m).fee = m.fee
         /\ Fee!WithInterfaceFee(m).contractFee = m.contractFee
         /\ DOMAIN Fee!WithBaseFee(m, fee) = MsgFields
         /\ Fee!WithBaseFee(m, fee).fee = fee
         /\ Fee!WithBaseFee(m, fee).contractFee = m.contractFee
         /\ Fee!WithBaseFee(m, fee).interfaceFee = m.interfaceFee
<1>1. /\ DOMAIN Fee!WithContractFee(m) = MsgFields /\ Fee!WithContractFee(m).fee = m.fee
  <2>1. \A a, b : LET r == [m EXCEPT !.contractFeeId = a, !.contractFee = b]
                  IN DOMAIN r = MsgFields /\ r.fee = m.fee
    BY DEF MsgFields
  <2> QED BY <2>1 DEF Fee!WithContractFee
<1>2. /\ DOMAIN Fee!WithInterfaceFee(m) = MsgFields /\ Fee!WithInterfaceFee(m).fee = m.fee
      /\ Fee!WithInterfaceFee(m).contractFee = m.contractFee
  <2>1. \A a : LET r == [m EXCEPT !.interfaceFee = a]
               IN DOMAIN r = MsgFields /\ r.fee = m.fee /\ r.contractFee = m.contractFee
    BY DEF MsgFields
  <2> QED BY <2>1 DEF Fee!WithInterfaceFee
<1>3. /\ DOMAIN Fee!WithBaseFee(m, fee) = MsgFields /\ Fee!WithBaseFee(m, fee).fee = fee
      /\ Fee!WithBaseFee(m, fee).contractFee = m.contractFee
      /\ Fee!WithBaseFee(m, fee).interfaceFee = m.interfaceFee
  BY DEF MsgFields, Fee!WithBaseFee
<1> QED BY <1>1, <1>2, <1>3

LEMMA FirstFees == FeesInv /\ Fee!CalculateFees => FeesInv'
<1> SUFFICES ASSUME FeesInv, Fee!CalculateFees PROVE FeesInv'
  OBVIOUS
<1> DEFINE charged == IF Fee!ChargesContractFee THEN Fee!WithContractFee(feeMsg) ELSE feeMsg
<1>1. CASE Fee!ChargesContractFee /\ Fee!ContractFeeFails
  BY <1>1, RejectKeeps DEF Fee!CalculateFees
<1>2. CASE ~(Fee!ChargesContractFee /\ Fee!ContractFeeFails)
  <2>1. /\ feePc = "fees" /\ UNCHANGED <<feeCall, feeLedger, info>>
        /\ \/ feeMsg' = charged /\ feePc' = "rejected"
           \/ feeMsg' = Fee!WithInterfaceFee(charged) /\ feePc' = "baseFee" /\ ~Fee!ManualBase
           \/ feeMsg' = Fee!WithInterfaceFee(charged) /\ feePc' = "rejected"
           \/ /\ feeMsg' = Fee!WithBaseFee(Fee!WithInterfaceFee(charged), Fee!ManualParts)
              /\ feePc' = "done" /\ Fee!ManualBase
    BY <1>2 DEF Fee!CalculateFees, Fee!Reject
  <2>2. feeMsg = Fee!NoFees /\ feeMsg.fee = 1 /\ DOMAIN feeMsg = MsgFields
    BY <2>1 DEF FeesInv, Pending, Fee!NoFees, FeeTyped
  <2>3. DOMAIN charged = MsgFields /\ charged.fee = 1
    BY <2>2, FeesApart
  <2>4. Percentage => /\ Fee!Priced
                      /\ charged.contractFee = Fee!Overestimated(Fee!PercentageInto(Fee!PayIn), feeCall.over)
    <3> SUFFICES ASSUME Percentage
                 PROVE  /\ Fee!Priced
                        /\ charged.contractFee =
                             Fee!Overestimated(Fee!PercentageInto(Fee!PayIn), feeCall.over)
      OBVIOUS
    <3>1. Fee!ChargesContractFee /\ ~Fee!ContractFeeFails
      BY <1>2 DEF Percentage
    <3> DEFINE o == Fee!Overestimated(Fee!PercentageInto(Fee!PayIn), feeCall.over)
    <3>2. Fee!Priced
          /\ charged = [feeMsg EXCEPT !.contractFeeId = Fee!PayIn, !.contractFee = o]
      BY <3>1, PercentagePlaced
    <3> HIDE DEF charged, o
    <3>3. charged.contractFee = o
      BY <2>2, <3>2 DEF MsgFields
    <3> QED BY <3>2, <3>3 DEF o
  <2> HIDE DEF charged
  <2> DEFINE faced == Fee!WithInterfaceFee(charged)
  <2>5. /\ DOMAIN faced = MsgFields /\ faced.fee = 1
        /\ faced.contractFee = charged.contractFee
    BY <2>3, FeesApart
  <2> DEFINE based == Fee!WithBaseFee(faced, Fee!ManualParts)
  <2>6. DOMAIN based = MsgFields /\ based.contractFee = charged.contractFee
    BY <2>5, FeesApart
  <2> HIDE DEF faced, based
  <2>7. \/ feeMsg' = charged /\ feePc' = "rejected"
        \/ feeMsg' = faced /\ feePc' = "baseFee" /\ ~Fee!ManualBase
        \/ feeMsg' = faced /\ feePc' = "rejected"
        \/ feeMsg' = based /\ feePc' = "done" /\ Fee!ManualBase
    BY <2>1 DEF faced, based
  <2>8. FeeTyped'
    BY <2>1, <2>3, <2>5, <2>6, <2>7 DEF FeesInv, FeeTyped
  <2>9. Pending' /\ Counted'
    BY <2>1, <2>5, <2>7, SameCalculation DEF Pending, Counted
  <2>10. Placed'
    BY <2>1, <2>4, <2>5, <2>6, <2>7, SameCalculation DEF Placed
  <2>11. BalancesPaid'
    BY <2>1, <2>7, SameCalculation DEF BalancesPaid, Fee!NewBalancesPaid, Fee!Calculated
  <2>12. LongEnough'
    BY <2>1, <2>7, SameCalculation DEF LongEnough
  <2> QED BY <2>8, <2>9, <2>10, <2>11, <2>12 DEF FeesInv
<1> QED BY <1>1, <1>2

LEMMA BaseFeeReceived == FeesInv /\ Fee!ReceiveBaseFee => FeesInv'
<1> SUFFICES ASSUME FeesInv, Fee!ReceiveBaseFee PROVE FeesInv'
  OBVIOUS
<1>1. CASE Fee!Reject
  BY <1>1, RejectKeeps
<1>2. CASE ~Fee!Reject
  <2> DEFINE fee == Fee!Overestimated(Fee!SizedParts(Fee!Size(feeMsg)), feeCall.over) + Fee!GasParts
  <2>1. /\ feePc = "baseFee" /\ UNCHANGED <<feeCall, feeLedger, info>>
        /\ feeMsg' = Fee!WithBaseFee(feeMsg, fee)
        /\ \/ /\ ~Fee!ChargesNewBalances \/ feeCall.needsInitialization = FALSE
              /\ feePc' = "done"
           \/ /\ Fee!ChargesNewBalances /\ feeCall.needsInitialization # FALSE
              /\ feePc' = "balances" /\ todo' = Fee!LookUps
              /\ without' = Fee!Unconditional
                   + IF feeCall.needsInitialization = TRUE THEN Fee!Cardinality(Fee!Recipients) ELSE 0
    BY <1>2 DEF Fee!ReceiveBaseFee
  <2>2. FeeTyped /\ ~Fee!ManualBase /\ feeMsg.fee = 1 /\ DOMAIN feeMsg = MsgFields
    BY <2>1 DEF FeesInv, Pending, FeeTyped
  <2>3. /\ fee \in Nat /\ fee >= Fee!NodePrice(Fee!Size(Fee!NoFees))
        /\ fee >= Fee!Overestimated(Fee!SizedParts(Fee!Size(feeMsg)), feeCall.over)
    <3>1. /\ Fee!Size(feeMsg) \in Nat /\ Fee!Size(Fee!NoFees) \in Nat
          /\ Fee!Size(feeMsg) >= Fee!Size(Fee!NoFees)
      BY <2>2, SizeFacts
    <3>2. /\ fee \in Nat /\ fee >= Fee!NodePrice(Fee!Size(feeMsg))
          /\ fee >= Fee!Overestimated(Fee!SizedParts(Fee!Size(feeMsg)), feeCall.over)
      BY <2>2, <3>1, BaseFeeCovers
    <3>3. /\ Fee!NodePrice(Fee!Size(feeMsg)) \in Nat /\ Fee!NodePrice(Fee!Size(Fee!NoFees)) \in Nat
          /\ Fee!NodePrice(Fee!Size(feeMsg)) >= Fee!NodePrice(Fee!Size(Fee!NoFees))
      BY <2>2, <3>1, NodePriceFacts
    <3> HIDE DEF fee
    <3> QED BY <3>2, <3>3
  <2> HIDE DEF fee
  <2>4. /\ DOMAIN feeMsg' = MsgFields /\ feeMsg'.fee = fee
        /\ feeMsg'.contractFee = feeMsg.contractFee /\ feeMsg'.interfaceFee = feeMsg.interfaceFee
    BY <2>1, <2>2, FeesApart
  <2>5. FeeTyped' /\ Pending'
    BY <2>1, <2>2, <2>4 DEF FeeTyped, Pending
  <2>6. Placed'
    BY <2>1, <2>4, SameCalculation DEF FeesInv, Placed
  <2>7. BalancesPaid'
    BY <2>1, SameCalculation DEF BalancesPaid, Fee!NewBalancesPaid
  <2>8. Counted'
    <3> SUFFICES ASSUME feePc' = "balances" PROVE Counted'
      BY DEF Counted
    <3>1. /\ todo' = Fee!LookUps
          /\ without' = Fee!Unconditional
               + IF feeCall.needsInitialization = TRUE THEN Fee!Cardinality(Fee!Recipients) ELSE 0
      BY <2>1
    <3>2. IsFiniteSet(Fee!Recipients) /\ Fee!Unconditional \in Nat
      BY <2>2, CaseFacts, FS_EmptySet DEF Fee!Recipients, Fee!Unconditional
    <3> DEFINE all == Cardinality(Fee!Recipients)
               empty == Cardinality(Fee!Recipients \ feeLedger.holders)
    <3>3. all \in Nat /\ empty \in Nat /\ empty <= all
      <4>1. Fee!Recipients \ feeLedger.holders \subseteq Fee!Recipients
        OBVIOUS
      <4> QED BY <3>2, <4>1, FS_Subset, FS_CardinalityType
    <3>4. CASE feeCall.needsInitialization = TRUE
      <4>1. todo' = {} /\ without' = Fee!Unconditional + all
        BY <3>1, <3>4, FeeCardinality DEF Fee!LookUps
      <4>2. todo' \ feeLedger.holders = {} /\ Cardinality({}) = 0
        BY <4>1, FS_EmptySet
      <4>3. Cardinality(todo' \ feeLedger.holders) = 0
        BY <4>2
      <4> HIDE DEF all, empty
      <4>4. without' \in Nat /\ without' + 0 >= empty + Fee!Unconditional
        BY <3>2, <3>3, <4>1
      <4> QED BY <2>1, <2>2, <2>3, <2>4, <4>1, <4>3, <4>4, SameCalculation DEF Counted, empty
    <3>5. CASE feeCall.needsInitialization # TRUE
      <4>0. Fee!LookUps = Fee!Recipients /\ without' = Fee!Unconditional + 0
        BY <3>1, <3>5, Zenon DEF Fee!LookUps
      <4>1. todo' = Fee!Recipients /\ without' = Fee!Unconditional
        BY <3>1, <3>2, <4>0
      <4>2. Cardinality(todo' \ feeLedger.holders) = empty
        BY <4>1
      <4> HIDE DEF all, empty
      <4>3. without' \in Nat /\ without' + empty >= empty + Fee!Unconditional
        BY <3>2, <3>3, <4>1
      <4> QED BY <2>1, <2>2, <2>3, <2>4, <4>1, <4>2, <4>3, SameCalculation DEF Counted, empty
    <3> QED BY <3>4, <3>5
  <2>9. LongEnough'
    <3>1. Fee!Size(feeMsg) = Fee!Size(Unpriced(feeMsg))
      BY <2>2, UnpricedSize
    <3>2. Corrected' = Corrected
      BY <2>1, <2>4, SameCorrection
    <3>3. fee >= Corrected
      BY <2>3, <3>1 DEF Corrected
    <3> QED BY <2>3, <2>4, <3>2, <3>3 DEF LongEnough
  <2> QED BY <2>5, <2>6, <2>7, <2>8, <2>9 DEF FeesInv
<1> QED BY <1>1, <1>2

\* Who has been looked up is counted, or holds the token.
LEMMA BalanceLookedUp ==
  ASSUME FeesInv, NEW a, Fee!LookUpBalance(a)
  PROVE  FeesInv'
<1>1. /\ feePc = "balances" /\ a \in todo /\ todo' = todo \ {a}
      /\ UNCHANGED <<feeCall, feeLedger, info, feeMsg, feePc>>
      /\ without' = without + 1 \/ (a \in feeLedger.holders /\ without' = without)
  BY DEF Fee!LookUpBalance
<1>2. FeeTyped' /\ Pending'
  BY <1>1 DEF FeesInv, FeeTyped, Pending
<1>3. Placed' /\ BalancesPaid' /\ LongEnough'
  <2>1. Corrected' = Corrected
    BY <1>1, SameCorrection
  <2> QED BY <1>1, <2>1, SameCalculation DEF FeesInv, Placed, BalancesPaid, LongEnough
<1>4. Counted'
  <2> DEFINE left == todo \ feeLedger.holders
             after == todo' \ feeLedger.holders
             empty == Cardinality(Fee!Recipients \ feeLedger.holders)
  <2>1. /\ without \in Nat /\ todo \subseteq Fee!Recipients
        /\ without + Cardinality(left) >= empty + Fee!Unconditional
    BY <1>1 DEF FeesInv, Counted
  <2>2. IsFiniteSet(Fee!Recipients) /\ Fee!Unconditional \in Nat
    BY CaseFacts, FS_EmptySet DEF FeesInv, Fee!Recipients, Fee!Unconditional
  <2>3. IsFiniteSet(left) /\ Cardinality(left) \in Nat /\ empty \in Nat
    <3>1. left \subseteq Fee!Recipients /\ Fee!Recipients \ feeLedger.holders \subseteq Fee!Recipients
      BY <2>1
    <3> QED BY <2>2, <3>1, FS_Subset, FS_CardinalityType
  <2>4. CASE a \in feeLedger.holders
    <3>1. after = left
      BY <1>1, <2>4
    <3>2. without' \in Nat /\ without' >= without
      BY <1>1, <2>1
    <3> HIDE DEF left, after, empty
    <3>3. without' + Cardinality(after) >= empty + Fee!Unconditional
      BY <2>1, <2>2, <2>3, <3>1, <3>2
    <3> QED BY <1>1, <2>1, <3>2, <3>3, SameCalculation DEF FeesInv, Counted, after, empty
  <2>5. CASE a \notin feeLedger.holders
    <3>1. after = left \ {a} /\ a \in left /\ without' = without + 1
      BY <1>1, <2>5
    <3> HIDE DEF left, after, empty
    <3>2. Cardinality(after) = Cardinality(left) - 1
      BY <2>3, <3>1, FS_RemoveElement
    <3>3. without' \in Nat /\ without' + Cardinality(after) >= empty + Fee!Unconditional
      BY <2>1, <2>2, <2>3, <3>1, <3>2
    <3> QED BY <1>1, <2>1, <3>3, SameCalculation DEF FeesInv, Counted, after, empty
  <2> QED BY <2>4, <2>5
<1> QED BY <1>2, <1>3, <1>4 DEF FeesInv

LEMMA SurchargeAdded == FeesInv /\ Fee!AddSurcharge => FeesInv'
<1> SUFFICES ASSUME FeesInv, Fee!AddSurcharge PROVE FeesInv'
  OBVIOUS
<1>1. /\ feePc = "balances" /\ todo = {} /\ feePc' = "done"
      /\ feeMsg' = [feeMsg EXCEPT !.fee = @ + Fee!Surcharge(without)]
      /\ UNCHANGED <<feeCall, feeLedger, info, without>>
  BY DEF Fee!AddSurcharge
<1>2. DOMAIN feeMsg = MsgFields
  BY DEF FeesInv, FeeTyped
<1>3. /\ DOMAIN feeMsg' = MsgFields /\ feeMsg'.contractFee = feeMsg.contractFee
      /\ feeMsg'.interfaceFee = feeMsg.interfaceFee
      /\ feeMsg'.fee = feeMsg.fee + Fee!Surcharge(without)
  BY <1>1, <1>2 DEF MsgFields
<1>4. FeeTyped' /\ Pending' /\ Counted'
  BY <1>1, <1>3 DEF FeesInv, FeeTyped, Pending, Counted
<1>5. Placed'
  BY <1>1, <1>3, SameCalculation DEF FeesInv, Placed
<1>6. BalancesPaid'
  <2> DEFINE empty == Cardinality(Fee!Recipients \ feeLedger.holders) + Fee!Unconditional
             price == Fee!NodePrice(Fee!Size(Fee!NoFees))
  <2>1. /\ without \in Nat /\ without + Cardinality(todo \ feeLedger.holders) >= empty
        /\ feeMsg.fee \in Nat /\ feeMsg.fee >= price
    BY <1>1 DEF FeesInv, Counted
  <2>2. Cardinality(todo \ feeLedger.holders) = 0
    <3>1. todo \ feeLedger.holders = {} /\ Cardinality({}) = 0
      BY <1>1, FS_EmptySet
    <3> QED BY <3>1
  <2>3. empty \in Nat
    <3>1. IsFiniteSet(Fee!Recipients) /\ Fee!Unconditional \in Nat
      BY CaseFacts, FS_EmptySet DEF FeesInv, Fee!Recipients, Fee!Unconditional
    <3>2. Cardinality(Fee!Recipients \ feeLedger.holders) \in Nat
      <4>1. Fee!Recipients \ feeLedger.holders \subseteq Fee!Recipients
        OBVIOUS
      <4> QED BY <3>1, <4>1, FS_Subset, FS_CardinalityType
    <3> QED BY <3>1, <3>2
  <2>4. price \in Nat
    <3> QED BY SizeFacts, NodePriceFacts DEF FeesInv
  <2>5. Fee!Surcharge(without) \in Nat /\ Fee!Surcharge(empty) \in Nat
        /\ Fee!Surcharge(without) >= Fee!Surcharge(empty)
    <3> HIDE DEF empty
    <3> QED BY <2>1, <2>2, <2>3, SurchargeFacts DEF FeesInv
  <2>6. feeMsg'.fee >= price + Fee!Surcharge(empty)
    <3> HIDE DEF empty, price
    <3> QED BY <1>3, <2>1, <2>4, <2>5
  <2>7. price' = price /\ (Fee!Surcharge(empty))' = Fee!Surcharge(empty)
    BY <1>1, SameCalculation
  <2> QED BY <2>6, <2>7, FeeCardinality DEF BalancesPaid, Fee!NewBalancesPaid
<1>7. LongEnough'
  <2>1. Corrected' = Corrected
    BY <1>1, <1>3, SameCorrection
  <2>2. Fee!ManualBase' = Fee!ManualBase
    BY <1>1, SameCalculation
  <2>3. ASSUME ~Fee!ManualBase PROVE feeMsg'.fee \in Nat /\ feeMsg'.fee >= Corrected
    <3>1. feeMsg.fee \in Nat /\ feeMsg.fee >= Corrected
      BY <1>1, <2>3 DEF FeesInv, LongEnough
    <3>2. without \in Nat
      BY <1>1 DEF FeesInv, Counted
    <3>3. Fee!Surcharge(without) \in Nat
      BY <3>2, SurchargeFacts DEF FeesInv
    <3>4. Corrected \in Nat
      BY CorrectedType DEF FeesInv
    <3> QED BY <1>3, <3>1, <3>3, <3>4
  <2> QED BY <2>1, <2>2, <2>3 DEF LongEnough
<1> QED BY <1>4, <1>5, <1>6, <1>7 DEF FeesInv

LEMMA FeesStep == FeesInv /\ [Fee!Next]_(Fee!vars) => FeesInv'
<1> SUFFICES ASSUME FeesInv, [Fee!Next]_(Fee!vars) PROVE FeesInv'
  OBVIOUS
<1>1. CASE UNCHANGED Fee!vars
  <2>1. UNCHANGED <<feeCall, feeLedger, info, feeMsg, feePc, todo, without>>
    BY <1>1 DEF Fee!vars
  <2>2. FeeTyped' /\ Pending'
    BY <2>1, SameCalculation DEF FeesInv, FeeTyped, Pending
  <2>0. Corrected' = Corrected
    BY <2>1, SameCorrection
  <2>3. Counted' /\ Placed' /\ LongEnough'
    BY <2>0, <2>1, SameCalculation DEF FeesInv, Counted, Placed, LongEnough
  <2>4. BalancesPaid'
    BY <2>1, SameCalculation, FeeCardinality
       DEF FeesInv, BalancesPaid, Fee!NewBalancesPaid, Fee!Calculated
  <2> QED BY <2>2, <2>3, <2>4 DEF FeesInv
<1>2. CASE Fee!BaseFeeFails
  BY <1>2, RejectKeeps DEF Fee!BaseFeeFails
<1>3. CASE \E a \in Fee!Recipients : Fee!LookUpBalance(a)
  BY <1>3, BalanceLookedUp
<1> QED BY <1>1, <1>2, <1>3, TokenFetched, FirstFees, BaseFeeReceived, SurchargeAdded
        DEF Fee!Next

\* A quotient that is made one rather than nothing, with a margin: what it is worth.
RoundedSound(worth, unit, over, r) ==
  /\ (r + 1) * unit > worth
  /\ worth > 0 => r >= 1
  /\ r * 100 * unit <= (100 + over) * (IF worth < unit /\ worth > 0 THEN unit ELSE worth)

LEMMA RoundedUp ==
  ASSUME NEW worth \in Nat, NEW unit \in Nat \ {0}, NEW over \in Nat, NEW fee \in Nat, NEW r,
         fee = IF worth \div unit = 0 /\ worth > 0 THEN 1 ELSE worth \div unit,
         r = Fee!Overestimated(fee, over)
  PROVE  RoundedSound(worth, unit, over, r)
<1> DEFINE q == worth \div unit
           most == IF worth < unit /\ worth > 0 THEN unit ELSE worth
<1>1. r \in Nat /\ r >= fee /\ 100 * r <= fee * (100 + over)
  <2>1. /\ Fee!Overestimated(fee, over) \in Nat /\ Fee!Overestimated(fee, over) >= fee
        /\ 100 * Fee!Overestimated(fee, over) <= fee * (100 + over)
    BY OverestimatedBounds, Zenon
  <2> QED BY <2>1, Zenon
<1>2. q \in Nat /\ unit * q <= worth /\ worth < unit * q + unit
  BY DivFacts
<1>3. fee = (IF q = 0 /\ worth > 0 THEN 1 ELSE q) /\ fee >= q
  BY <1>2
<1> HIDE DEF q
<1>4. (r + 1) * unit > worth
  <2>1. PICK e \in Nat : r = q + e
    <3>1. r - q \in Nat /\ r = q + (r - q)
      BY <1>1, <1>2, <1>3
    <3> QED BY <3>1
  <2>2. (r + 1) * unit = unit * q + unit * e + unit /\ unit * q \in Nat /\ unit * e \in Nat
    BY <1>2, <2>1, ProductType
  <2> QED BY <1>2, <2>2
<1>5. worth > 0 => r >= 1
  BY <1>1, <1>2, <1>3
<1>6. fee * unit <= most
  <2>1. CASE q = 0 /\ worth > 0
    <3>1. fee = 1 /\ unit * q = 0
      BY <1>3, <2>1
    <3>2. worth < unit
      BY <1>2, <3>1
    <3> QED BY <2>1, <3>1, <3>2
  <2>2. CASE q = 0 /\ worth = 0
    BY <1>3, <2>2
  <2>3. CASE q # 0
    <3>1. fee = q /\ fee * unit = unit * q
      BY <1>2, <1>3, <2>3
    <3>2. unit * q >= unit
      <4>1. PICK e \in Nat : q = 1 + e
        <5>1. q - 1 \in Nat /\ q = 1 + (q - 1)
          BY <1>2, <2>3
        <5> QED BY <5>1
      <4>2. unit * q = unit + unit * e /\ unit * e \in Nat
        BY <4>1, ProductType
      <4> QED BY <4>2
    <3>3. ~(worth < unit)
      BY <1>2, <3>2, ProductType
    <3> QED BY <1>2, <3>1, <3>3
  <2> QED BY <1>2, <2>1, <2>2, <2>3
<1>7. r * 100 * unit <= (100 + over) * most
  <2> DEFINE c == 100 + over
  <2>1. c \in Nat /\ most \in Nat /\ fee * unit \in Nat /\ fee * c \in Nat
    BY ProductType
  <2> HIDE DEF c, most
  <2>2. PICK e \in Nat : fee * c = 100 * r + e
    <3>1. fee * c - 100 * r \in Nat /\ fee * c = 100 * r + (fee * c - 100 * r)
      BY <1>1, <2>1 DEF c
    <3> QED BY <3>1
  <2>3. PICK g \in Nat : most = fee * unit + g
    <3>1. most - fee * unit \in Nat /\ most = fee * unit + (most - fee * unit)
      BY <1>6, <2>1
    <3> QED BY <3>1
  <2>4. c * most = c * (fee * unit) + c * g /\ c * g \in Nat
    BY <2>1, <2>3, ProductType
  <2>5. c * (fee * unit) = (fee * c) * unit
    BY <2>1
  <2>6. (fee * c) * unit = r * 100 * unit + e * unit /\ e * unit \in Nat /\ r * 100 * unit \in Nat
    BY <1>1, <2>2, ProductType
  <2> DEFINE x == r * 100 * unit  y == c * (fee * unit)
  <2>7. y = x + e * unit /\ x \in Nat /\ e * unit \in Nat /\ c * most = y + c * g
    BY <2>4, <2>5, <2>6
  <2> HIDE DEF x, y
  <2>8. x <= c * most
    BY <2>4, <2>7
  <2> QED BY <2>8 DEF x, c
<1> QED BY <1>4, <1>5, <1>7 DEF RoundedSound

LEMMA FeesInvCovers == FeesInv => FeeCoversSize
<1> SUFFICES ASSUME FeesInv, feePc = "done", ~Fee!ManualBase PROVE FeeCoversSize
  BY DEF FeeCoversSize, Fee!FeeCoversSize, Fee!Calculated
<1> DEFINE s == Fee!Size(Unpriced(feeMsg))
<1>1. FeeTyped /\ s \in Nat /\ s >= 101
  BY UnpricedSize DEF FeesInv
<1>2. /\ feeMsg.fee \in Nat
      /\ feeMsg.fee >= Fee!Overestimated(Fee!SizedParts(s), feeCall.over)
  BY DEF FeesInv, LongEnough, Corrected
<1>3. Fee!Size(feeMsg) = s - 1 + Fee!Digits(feeMsg.fee)
  BY <1>1, <1>2, UnpricedSize
<1> HIDE DEF s
<1>4. feeMsg.fee + (IF feeCall.over < 2 THEN Fee!PartsOf(feeLedger.byteFee) + 1 ELSE 0)
        >= Fee!NodePrice(s - 1 + Fee!Digits(feeMsg.fee))
  BY <1>1, <1>2, LengthCovered
<1> QED BY <1>3, <1>4 DEF FeeCoversSize, Fee!FeeCoversSize

LEMMA FeesInvSound == FeesInv => ChargesSound
<1> SUFFICES ASSUME FeesInv PROVE Fee!NewBalancesPaid /\ Fee!PercentageSound
  BY DEF ChargesSound, Fee!ChargesSound
<1>1. Fee!NewBalancesPaid
  BY DEF FeesInv, BalancesPaid, Fee!NewBalancesPaid, Fee!Calculated
<1>2. Fee!PercentageSound
  <2> SUFFICES ASSUME feePc = "done", Percentage PROVE Fee!PercentageSound
    BY DEF Fee!PercentageSound, Percentage
  <2> DEFINE foreign == Fee!PayIn # feeCall.contract
             moved == feeCall.amount * Fee!Schedule.fee
             rate == Fee!RateOf(feeCall.contract)
             pays == Fee!Pow10[Fee!DecimalsOf(Fee!PayIn)]
             has == Fee!Pow10[Fee!DecimalsOf(feeCall.contract)]
             payRate == Fee!RateOf(Fee!PayIn)
             worth == moved * IF foreign THEN rate * pays ELSE 1
             unit == Dollar * IF foreign THEN has * payRate ELSE 1
             fee == Fee!PercentageInto(Fee!PayIn)
             over == feeCall.over
  <2>1. Fee!Priced /\ feeMsg.contractFee = Fee!Overestimated(fee, over)
    BY DEF FeesInv, Placed
  <2>2. /\ feeCall.amount \in Nat /\ Fee!Schedule.fee \in Nat /\ over \in Nat
        /\ moved \in Nat /\ Dollar \in Nat \ {0}
        /\ moved > 0 <=> feeCall.amount > 0 /\ Fee!Schedule.fee > 0
    <3>1. feeCall.contract \in DOMAIN info /\ info[feeCall.contract].fees # None
      BY DEF Percentage, Fee!ChargesContractFee
    <3>2. Fee!Schedule.fee \in Nat
      BY <3>1, CaseFacts DEF FeesInv, FeeTyped, Fee!Schedule
    <3>3. feeCall.amount \in Nat /\ over \in Nat
      BY CaseFacts DEF FeesInv
    <3> DEFINE x == feeCall.amount  y == Fee!Schedule.fee
    <3>4. \A a, b \in Nat : a * b \in Nat /\ (a * b > 0 <=> a > 0 /\ b > 0)
      BY SMT
    <3> QED BY <3>2, <3>3, <3>4, FeeAssumption DEF Fee!FeeConstants
  <2>3. /\ pays \in Nat \ {0} /\ has \in Nat \ {0}
        /\ foreign => rate \in Nat \ {0} /\ payRate \in Nat \ {0}
    <3>1. pays \in Nat \ {0} /\ has \in Nat \ {0}
      BY DivisorsPositive DEF FeesInv
    <3>2. foreign => rate # None /\ payRate # None
      BY <2>1 DEF Fee!Priced, Fee!SameTokenPercentage, Fee!NeedsPayRate, Percentage
    <3>3. rate \in (Nat \ {0}) \union {None} /\ payRate \in (Nat \ {0}) \union {None}
      BY DivisorsPositive DEF FeesInv
    <3> QED BY <3>1, <3>2, <3>3
  <2> DEFINE sale == moved * rate * pays
             price == Dollar * has * payRate
  <2>4. fee = LET quotient == IF foreign THEN sale \div price ELSE moved \div Dollar
              IN IF quotient = 0 /\ feeCall.amount > 0 /\ Fee!Schedule.fee > 0 THEN 1 ELSE quotient
    BY DEF Fee!PercentageInto
  <2> HIDE DEF moved, rate, pays, has, payRate, fee, over, foreign
  <2>5. /\ worth \in Nat /\ unit \in Nat \ {0} /\ (worth > 0 <=> moved > 0)
        /\ worth = (IF foreign THEN sale ELSE moved) /\ unit = (IF foreign THEN price ELSE Dollar)
    <3>1. CASE foreign
      <4> DEFINE k == rate * pays  h == has * payRate
      <4>1. /\ rate \in Nat \ {0} /\ pays \in Nat \ {0} /\ has \in Nat \ {0} /\ payRate \in Nat \ {0}
            /\ moved \in Nat /\ Dollar \in Nat \ {0}
        BY <2>2, <2>3, <3>1
      <4>2. k \in Nat \ {0} /\ h \in Nat \ {0}
        BY <4>1, ProductType
      <4>3. moved * k = sale /\ Dollar * h = price
        BY <4>1
      <4>4. worth = moved * k /\ unit = Dollar * h
        BY <3>1
      <4> HIDE DEF k, h
      <4>5. moved * k \in Nat /\ Dollar * h \in Nat \ {0} /\ (moved * k > 0 <=> moved > 0)
        <5>1. \A a \in Nat, b \in Nat \ {0} : a * b \in Nat /\ (a * b > 0 <=> a > 0)
          BY SMT
        <5> QED BY <4>1, <4>2, <5>1, ProductType
      <4> HIDE DEF worth, unit, sale, price
      <4> QED BY <3>1, <4>3, <4>4, <4>5
    <3>2. CASE ~foreign
      BY <2>2, <3>2
    <3> QED BY <3>1, <3>2
  <2>6. fee = (IF worth \div unit = 0 /\ worth > 0 THEN 1 ELSE worth \div unit) /\ fee \in Nat
    <3> HIDE DEF worth, unit, sale, price
    <3>1. fee = IF worth \div unit = 0 /\ worth > 0 THEN 1 ELSE worth \div unit
      BY <2>2, <2>4, <2>5
    <3>2. worth \div unit \in Nat
      BY <2>5, DivFacts
    <3> QED BY <3>1, <3>2
  <2> HIDE DEF worth, unit, sale, price
  <2> DEFINE r == feeMsg.contractFee
  <2>7. r = Fee!Overestimated(fee, over)
    BY <2>1
  <2> HIDE DEF r
  <2>8. RoundedSound(worth, unit, over, r)
    <3>1. worth \in Nat /\ unit \in Nat \ {0} /\ over \in Nat /\ fee \in Nat
      BY <2>2, <2>5, <2>6
    <3>2. fee = IF worth \div unit = 0 /\ worth > 0 THEN 1 ELSE worth \div unit
      BY <2>6
    <3> QED BY <2>7, <3>1, <3>2, RoundedUp, Zenon
  <2> QED BY <2>8 DEF RoundedSound, Fee!PercentageSound, r, worth, unit, moved, rate, pays, has, payRate, over, foreign
<1> QED BY <1>1, <1>2

-----------------------------------------------------------------------------
(* The body of an answer that is read *)

\* A reader that waits for each of its reads, of a polite source.
Awaited == source.polite /\ ~source.overlap /\ ~cancelled

BodyTyped ==
  /\ source \in Sources
  /\ bodyPc \in {"fetching", "stream", "reading", "native", "failed"}
  /\ starting \in BOOLEAN /\ closed \in BOOLEAN /\ cancelled \in BOOLEAN
  /\ reads \in [1..MaxReads -> [at : {"unused", "pulling", "chunk", "end"}, own : Nat]]

\* Read, queued and still to come.
InLine ==
  /\ Len(got) \in Nat /\ sent \in Nat /\ Len(got) <= sent /\ sent <= source.n
  /\ got = Body!Open(0, Len(got)) /\ chunks = Body!Open(Len(got), sent - Len(got))

Untouched ==
  bodyPc # "reading" =>
    /\ sent = 0 /\ got = <<>> /\ ~closed /\ ~cancelled /\ ~starting
    /\ \A r \in 1..MaxReads : reads[r].at = "unused"

\* A reader that waits for each of its reads has one pull at most, whose chunks it finds.
Waiting ==
  /\ \A r \in 1..MaxReads : reads[r].at = "unused" => reads[r].own = 0
  /\ ~source.overlap =>
       /\ \A r, s \in 1..MaxReads : reads[r].at = "pulling" /\ reads[s].at = "pulling" => r = s
       /\ \A r \in 1..MaxReads :
            reads[r].at = "pulling" /\ reads[r].own > 0 => Len(got) < sent

\* Nothing more comes after the end.
Complete ==
  Awaited =>
    /\ closed => sent = source.n
    /\ bodyPc = "reading" /\ ~source.pull => sent = source.n
    /\ \A r \in 1..MaxReads : reads[r].at = "end" => closed /\ Len(got) = sent

BodyInv == BodyTyped /\ InLine /\ Untouched /\ Waiting /\ Complete

\* Numbers of chunks one after the other.
LEMMA Opens ==
  ASSUME NEW a \in Nat, NEW n \in Nat
  PROVE  /\ Body!Open(a, n) \in Seq(Nat) /\ Len(Body!Open(a, n)) = n
         /\ \A i \in 1..n : Body!Open(a, n)[i] = a + i
<1>1. Body!Open(a, n) \in [1..n -> Nat]
  BY DEF Body!Open
<1>2. Body!Open(a, n) \in Seq(Nat)
  BY <1>1
<1>3. DOMAIN Body!Open(a, n) = 1..n
  BY DEF Body!Open
<1>4. Len(Body!Open(a, n)) = n
  BY <1>2, <1>3, LenProperties
<1> QED BY <1>2, <1>4 DEF Body!Open

LEMMA SameChunks ==
  ASSUME NEW s, NEW t, NEW n \in Nat, s \in Seq(Nat), t \in Seq(Nat), Len(s) = n, Len(t) = n,
         \A i \in 1..n : s[i] = t[i]
  PROVE  s = t
<1> QED BY SeqEqual

\* A chunk more at the end, one less at the front, and both together.
LEMMA OpenMoves ==
  ASSUME NEW a \in Nat, NEW n \in Nat
  PROVE  /\ Append(Body!Open(a, n), a + n + 1) = Body!Open(a, n + 1)
         /\ n > 0 => Head(Body!Open(a, n)) = a + 1 /\ Tail(Body!Open(a, n)) = Body!Open(a + 1, n - 1)
         /\ Body!Open(0, a) \o Body!Open(a, n) = Body!Open(0, a + n)
         /\ Body!Open(a, n) = <<>> <=> n = 0
<1> DEFINE s == Body!Open(a, n)
<1>1. s \in Seq(Nat) /\ Len(s) = n /\ \A i \in 1..n : s[i] = a + i
  BY Opens
<1> HIDE DEF s
<1>2. Append(s, a + n + 1) = Body!Open(a, n + 1)
  <2> DEFINE t == Append(s, a + n + 1)
  <2>1. t \in Seq(Nat) /\ Len(t) = n + 1
    BY <1>1
  <2>2. \A i \in 1..n + 1 : t[i] = a + i
    BY <1>1
  <2> DEFINE u == Body!Open(a, n + 1)
  <2>3. u \in Seq(Nat) /\ Len(u) = n + 1 /\ \A i \in 1..n + 1 : u[i] = a + i
    BY Opens
  <2> HIDE DEF t, u
  <2>4. \A i \in 1..n + 1 : t[i] = u[i]
    BY <2>2, <2>3
  <2>5. n + 1 \in Nat
    OBVIOUS
  <2>6. t = u
    BY <2>1, <2>3, <2>4, <2>5, SameChunks, Zenon
  <2> QED BY <2>6 DEF t, u
<1>3. ASSUME n > 0 PROVE Head(s) = a + 1 /\ Tail(s) = Body!Open(a + 1, n - 1)
  <2> DEFINE t == Tail(s)
  <2>0. s # <<>>
    BY <1>1, <1>3
  <2>1. t \in Seq(Nat) /\ Len(t) = n - 1 /\ Head(s) = s[1]
    BY <1>1, <2>0
  <2>2. \A i \in 1..n - 1 : t[i] = a + 1 + i
    BY <1>1, <2>0
  <2> DEFINE u == Body!Open(a + 1, n - 1)
  <2>3. u \in Seq(Nat) /\ Len(u) = n - 1 /\ \A i \in 1..n - 1 : u[i] = a + 1 + i
    <3>1. n - 1 \in Nat /\ a + 1 \in Nat
      BY <1>3
    <3> QED BY <3>1, Opens, Zenon
  <2> HIDE DEF t, u
  <2>4. t = u
    <3>1. \A i \in 1..n - 1 : t[i] = u[i]
      BY <2>2, <2>3
    <3>2. n - 1 \in Nat
      BY <1>3
    <3> QED BY <2>1, <2>3, <3>1, <3>2, SameChunks, Zenon
  <2>5. Head(s) = a + 1
    BY <1>1, <1>3, <2>1
  <2> QED BY <2>4, <2>5 DEF t, u
<1>4. Body!Open(0, a) \o s = Body!Open(0, a + n)
  <2> DEFINE r == Body!Open(0, a)
             t == r \o s
             u == Body!Open(0, a + n)
  <2>1. r \in Seq(Nat) /\ Len(r) = a /\ \A i \in 1..a : r[i] = 0 + i
    BY Opens
  <2>2. u \in Seq(Nat) /\ Len(u) = a + n /\ \A i \in 1..a + n : u[i] = 0 + i
    BY Opens
  <2> HIDE DEF r, u
  <2>3. t \in Seq(Nat) /\ Len(t) = a + n
    BY <1>1, <2>1
  <2>4. \A i \in 1..a + n : t[i] = i
    BY <1>1, <2>1
  <2> HIDE DEF t
  <2>5. \A i \in 1..a + n : u[i] = i
    BY <2>2
  <2>6. t = u
    BY <2>2, <2>3, <2>4, <2>5, SameChunks
  <2> QED BY <2>6 DEF r, t, u
<1>5. s = <<>> <=> n = 0
  BY <1>1
<1> QED BY <1>2, <1>3, <1>4, <1>5 DEF s

LEMMA BodyStart == Body!Init => BodyInv
<1> SUFFICES ASSUME Body!Init PROVE BodyInv
  OBVIOUS
<1>1. source.n \in Nat /\ MaxReads \in Nat
  BY BodyAssumption DEF Body!Init, Body!StreamConstants
<1>2. BodyTyped
  <2> DEFINE one == [at |-> "unused", own |-> 0]
             R == [at : {"unused", "pulling", "chunk", "end"}, own : Nat]
  <2>1. one \in R
    OBVIOUS
  <2>2. reads = [r \in 1..MaxReads |-> one]
    BY DEF Body!Init, Body!Calls
  <2> HIDE DEF one, R
  <2>3. reads \in [1..MaxReads -> R]
    BY <2>1, <2>2
  <2> QED BY <2>3 DEF BodyTyped, Body!Init, R
<1>3. InLine
  <2>1. Len(got) = 0 /\ sent = 0 /\ got = <<>> /\ chunks = <<>>
    BY DEF Body!Init
  <2>2. Body!Open(0, 0) = <<>>
    BY OpenMoves
  <2> QED BY <1>1, <2>1, <2>2 DEF InLine
<1>4. \A r \in 1..MaxReads : reads[r].at = "unused" /\ reads[r].own = 0
  BY DEF Body!Init, Body!Calls
<1>5. bodyPc # "reading" /\ sent = 0 /\ ~closed
  BY DEF Body!Init
<1> QED BY <1>1, <1>2, <1>3, <1>4, <1>5
        DEF BodyInv, Untouched, Waiting, Complete, Body!Init, Awaited

LEMMA FetchedBody == BodyInv /\ Body!CreateGrpcWebFetch => BodyInv'
<1> SUFFICES ASSUME BodyInv, Body!CreateGrpcWebFetch PROVE BodyInv'
  OBVIOUS
<1>1. bodyPc # "reading" /\ bodyPc' \in {"stream", "native", "failed"}
  BY DEF Body!CreateGrpcWebFetch
<1> QED BY <1>1
        DEF BodyInv, BodyTyped, InLine, Untouched, Waiting, Complete, Awaited,
            Body!CreateGrpcWebFetch

LEMMA ReaderGot == BodyInv /\ Body!GetReader => BodyInv'
<1> SUFFICES ASSUME BodyInv, Body!GetReader PROVE BodyInv'
  OBVIOUS
<1>1. /\ source.kind \in {"fetch", "bytes", "nothing", "hollow", "source"} /\ source.n \in Nat
      /\ source.kind \in {"fetch", "bytes", "nothing"} => source.n = 1
      /\ source.kind = "hollow" => source.n = 0
      /\ source.start \in {"none", "sync", "async"}
      /\ source.kind = "source" /\ source.polite /\ ~source.pull => source.start = "sync"
  BY BodyAssumption DEF BodyInv, BodyTyped, Body!StreamConstants
<1>2. /\ sent = 0 /\ got = <<>> /\ closed = FALSE /\ ~cancelled /\ starting = FALSE /\ chunks = <<>>
      /\ \A r \in 1..MaxReads : reads[r].at = "unused"
  <2>1. bodyPc # "reading"
    BY DEF Body!GetReader
  <2>2. Body!Open(0, 0) = <<>>
    BY OpenMoves
  <2> QED BY <2>1, <2>2 DEF BodyInv, BodyTyped, Untouched, InLine
<1>3. UNCHANGED <<source, got, reads, cancelled>> /\ bodyPc' = "reading"
  BY DEF Body!GetReader
<1>4. /\ starting' \in BOOLEAN /\ closed' \in BOOLEAN
      /\ sent' \in 0..source.n /\ chunks' = Body!Open(0, sent')
      /\ closed' => sent' = source.n
      /\ source.polite /\ ~source.pull => sent' = source.n
  <2>1. CASE source.kind \in {"fetch", "bytes", "nothing"}
    <3>1. Body!Open(0, 1) = <<1>>
      BY DEF Body!Open
    <3>2. chunks' = <<1>> /\ sent' = 1 /\ closed' = TRUE /\ UNCHANGED starting
      BY <2>1 DEF Body!GetReader
    <3>3. source.n = 1 /\ sent' \in 0..source.n
      BY <1>1, <2>1, <3>2
    <3>4. chunks' = Body!Open(0, sent')
      BY <3>1, <3>2
    <3> QED BY <1>2, <3>2, <3>3, <3>4
  <2>0. Body!Open(0, 0) = <<>>
    BY OpenMoves
  <2>2. CASE source.kind = "hollow"
    <3>1. closed' = TRUE /\ UNCHANGED <<chunks, sent, starting>>
      BY <2>2 DEF Body!GetReader
    <3>2. sent' = 0 /\ source.n = 0
      BY <1>1, <1>2, <2>2, <3>1
    <3>3. chunks' = Body!Open(0, sent')
      BY <1>2, <2>0, <3>1, <3>2
    <3>4. starting' \in BOOLEAN /\ closed' \in BOOLEAN
      BY <1>2, <3>1
    <3>5. sent' \in 0..source.n
      BY <3>2
    <3> QED BY <3>1, <3>2, <3>3, <3>4, <3>5
  <2>3. CASE source.kind = "source" /\ source.start = "async"
    <3>1. starting' = TRUE /\ UNCHANGED <<chunks, sent, closed>>
      BY <2>3 DEF Body!GetReader
    <3>2. ~(source.polite /\ ~source.pull)
      BY <1>1, <2>3
    <3>3. sent' \in 0..source.n /\ sent' = 0
      BY <1>1, <1>2, <3>1
    <3> QED BY <1>2, <2>0, <3>1, <3>2, <3>3
  <2>4. CASE source.kind = "source" /\ source.start = "sync"
    <3>1. PICK n \in 0..source.n :
            /\ chunks' = Body!Open(0, n) /\ sent' = n
            /\ closed' \in (IF n = source.n THEN BOOLEAN ELSE {FALSE})
            /\ source.polite /\ ~source.pull => n = source.n
      BY <2>4 DEF Body!GetReader
    <3>2. starting' = starting
      BY <2>4 DEF Body!GetReader
    <3> QED BY <1>2, <3>1, <3>2
  <2>5. CASE source.kind = "source" /\ source.start = "none"
    <3>1. UNCHANGED <<chunks, sent, closed, starting>>
      BY <2>5 DEF Body!GetReader
    <3>2. ~(source.polite /\ ~source.pull)
      BY <1>1, <2>5
    <3>3. sent' \in 0..source.n /\ sent' = 0
      BY <1>1, <1>2, <3>1
    <3> QED BY <1>2, <2>0, <3>1, <3>2, <3>3
  <2> QED BY <1>1, <2>1, <2>2, <2>3, <2>4, <2>5
<1>5. BodyTyped'
  BY <1>3, <1>4 DEF BodyInv, BodyTyped
<1>6. InLine'
  BY <1>1, <1>2, <1>3, <1>4 DEF BodyInv, InLine
<1>7. Complete'
  BY <1>1, <1>2, <1>3, <1>4 DEF Complete, Awaited
<1> QED BY <1>2, <1>3, <1>5, <1>6, <1>7 DEF BodyInv, Untouched, Waiting

LEMMA ChunkQueued == BodyInv /\ Body!Enqueue => BodyInv'
<1> SUFFICES ASSUME BodyInv, Body!Enqueue PROVE BodyInv'
  OBVIOUS
<1>1. /\ UNCHANGED <<source, bodyPc, starting, closed, got, cancelled>>
      /\ bodyPc = "reading" /\ sent < source.n /\ sent' = sent + 1
      /\ chunks' = Append(chunks, sent + 1)
  BY DEF Body!Enqueue
<1>2. source.n \in Nat /\ MaxReads \in Nat
  BY BodyAssumption DEF BodyInv, BodyTyped, Body!StreamConstants
<1> DEFINE R == [at : {"unused", "pulling", "chunk", "end"}, own : Nat]
<1>3. /\ reads' \in [1..MaxReads -> R]
      /\ \A r \in 1..MaxReads :
           reads'[r].at = reads[r].at /\ (reads[r].at = "unused" => reads'[r].own = reads[r].own)
  <2>0. reads \in [1..MaxReads -> R]
    BY DEF BodyInv, BodyTyped
  <2>1. CASE UNCHANGED reads
    BY <2>0, <2>1
  <2>2. CASE \E r \in Body!Pulling : reads' = [reads EXCEPT ![r].own = @ + 1]
    <3>1. PICK r \in Body!Pulling : reads' = [reads EXCEPT ![r].own = @ + 1]
      BY <2>2
    <3>2. r \in 1..MaxReads /\ reads[r].at = "pulling"
      BY DEF Body!Pulling, Body!Calls
    <3>3. reads' = [reads EXCEPT ![r] = [reads[r] EXCEPT !.own = @ + 1]]
      BY <3>1
    <3> DEFINE new == [reads[r] EXCEPT !.own = @ + 1]
    <3>4. reads[r] \in R
      BY <2>0, <3>2
    <3>5. new \in R /\ new.at = reads[r].at
      BY <3>4
    <3> HIDE DEF new, R
    <3>6. reads' = [reads EXCEPT ![r] = new]
      BY <3>3 DEF new
    <3> QED BY <2>0, <3>2, <3>5, <3>6
  <2> QED BY <2>1, <2>2 DEF Body!Enqueue
<1>4. BodyTyped'
  BY <1>1, <1>3 DEF BodyInv, BodyTyped
<1>5. InLine'
  <2>1. chunks = Body!Open(Len(got), sent - Len(got)) /\ Len(got) \in Nat /\ sent - Len(got) \in Nat
    BY DEF BodyInv, InLine
  <2>2. Append(Body!Open(Len(got), sent - Len(got)), Len(got) + (sent - Len(got)) + 1)
          = Body!Open(Len(got), sent - Len(got) + 1)
    BY <2>1, OpenMoves
  <2>3. Len(got) + (sent - Len(got)) + 1 = sent + 1 /\ sent - Len(got) + 1 = sent + 1 - Len(got)
    BY <2>1 DEF BodyInv, InLine
  <2>4. chunks' = Body!Open(Len(got), sent + 1 - Len(got))
    BY <1>1, <2>1, <2>2, <2>3
  <2>5. got = Body!Open(0, Len(got))
    BY DEF BodyInv, InLine
  <2>6. Len(got) <= sent
    BY DEF BodyInv, InLine
  <2>7. sent + 1 \in Nat /\ Len(got) <= sent + 1 /\ sent + 1 <= source.n
    BY <1>1, <1>2, <2>1, <2>6 DEF BodyInv, InLine
  <2>8. got' = got /\ source' = source /\ sent' = sent + 1
    BY <1>1
  <2>9. sent' - Len(got') = sent + 1 - Len(got)
    <3>1. sent \in Nat
      BY DEF BodyInv, InLine
    <3>2. sent' - Len(got') = (sent + 1) - Len(got)
      BY <2>8, Zenon
    <3> QED BY <2>1, <3>1, <3>2
  <2>10. chunks' = Body!Open(Len(got'), sent' - Len(got'))
    BY <2>4, <2>8, <2>9, Zenon
  <2> QED BY <2>1, <2>5, <2>7, <2>8, <2>10, Zenon DEF InLine
<1>6. Waiting'
  BY <1>1, <1>3 DEF BodyInv, Waiting, InLine
<1>7. Complete'
  <2> SUFFICES ASSUME Awaited'
               PROVE  /\ ~closed /\ source.pull
                      /\ \A r \in 1..MaxReads : reads[r].at # "end"
    BY <1>1, <1>3 DEF Complete
  <2>1. Awaited /\ sent # source.n
    BY <1>1, <1>2 DEF Awaited, BodyInv, InLine
  <2> QED BY <1>1, <2>1 DEF BodyInv, Complete
<1> QED BY <1>1, <1>4, <1>5, <1>6, <1>7 DEF BodyInv, Untouched

\* What closes a stream leaves the chunks and the reads alone.
LEMMA StreamClosed ==
  BodyInv /\ (Body!Close \/ Body!StartEnds \/ Body!Cancel) => BodyInv'
<1> SUFFICES ASSUME BodyInv, Body!Close \/ Body!StartEnds \/ Body!Cancel PROVE BodyInv'
  OBVIOUS
<1>1. CASE Body!Close
  BY <1>1 DEF Body!Close, BodyInv, BodyTyped, InLine, Untouched, Waiting, Complete, Awaited
<1>2. CASE Body!StartEnds
  BY <1>2 DEF Body!StartEnds, BodyInv, BodyTyped, InLine, Untouched, Waiting, Complete, Awaited
<1>3. CASE Body!Cancel
  BY <1>3 DEF Body!Cancel, BodyInv, BodyTyped, InLine, Untouched, Waiting, Complete, Awaited
<1> QED BY <1>1, <1>2, <1>3

\* One of the calls of read() changes.
LEMMA OneRead ==
  ASSUME BodyTyped, NEW r \in 1..MaxReads, NEW v \in {"unused", "pulling", "chunk", "end"},
         reads' = [reads EXCEPT ![r].at = v]
  PROVE  /\ reads' \in [1..MaxReads -> [at : {"unused", "pulling", "chunk", "end"}, own : Nat]]
         /\ reads'[r].at = v
         /\ \A s \in 1..MaxReads : reads'[s].own = reads[s].own
         /\ \A s \in 1..MaxReads \ {r} : reads'[s].at = reads[s].at
<1> DEFINE R == [at : {"unused", "pulling", "chunk", "end"}, own : Nat]
           new == [reads[r] EXCEPT !.at = v]
<1>1. reads \in [1..MaxReads -> R] /\ reads[r] \in R
  BY DEF BodyTyped
<1>2. new \in R /\ new.at = v /\ new.own = reads[r].own
  BY <1>1
<1>3. reads' = [reads EXCEPT ![r] = new]
  OBVIOUS
<1> HIDE DEF R, new
<1>4. reads' \in [1..MaxReads -> R] /\ \A s \in 1..MaxReads : reads'[s] = IF s = r THEN new ELSE reads[s]
  BY <1>1, <1>2, <1>3
<1> QED BY <1>2, <1>4 DEF R

\* A read of a chunk that is there, of one read at a time the only one.
LEMMA ChunkRead ==
  ASSUME BodyInv, NEW r \in 1..MaxReads, bodyPc = "reading", chunks # <<>>, Body!Shift(r),
         UNCHANGED <<source, bodyPc, starting, sent, cancelled>>,
         reads[r].at = "unused" \/ reads[r].at = "pulling",
         source.overlap \/ Body!Pulling \subseteq {r}
  PROVE  BodyInv'
<1>1. /\ reads' = [reads EXCEPT ![r].at = "chunk"] /\ UNCHANGED closed
      /\ got' = Append(got, Head(chunks)) /\ chunks' = Tail(chunks)
  BY DEF Body!Shift
<1>2. /\ reads' \in [1..MaxReads -> [at : {"unused", "pulling", "chunk", "end"}, own : Nat]]
      /\ reads'[r].at = "chunk"
      /\ \A s \in 1..MaxReads : reads'[s].own = reads[s].own
      /\ \A s \in 1..MaxReads \ {r} : reads'[s].at = reads[s].at
  BY <1>1, OneRead DEF BodyInv
<1>3. BodyTyped'
  BY <1>1, <1>2 DEF BodyInv, BodyTyped
<1>4. /\ Len(got) \in Nat /\ sent \in Nat /\ sent - Len(got) \in Nat \ {0}
      /\ got = Body!Open(0, Len(got)) /\ chunks = Body!Open(Len(got), sent - Len(got))
  <2>1. /\ Len(got) \in Nat /\ sent \in Nat /\ sent - Len(got) \in Nat
        /\ got = Body!Open(0, Len(got)) /\ chunks = Body!Open(Len(got), sent - Len(got))
    BY DEF BodyInv, InLine
  <2> QED BY <2>1, OpenMoves
<1>5. /\ Head(chunks) = Len(got) + 1
      /\ Tail(chunks) = Body!Open(Len(got) + 1, sent - Len(got) - 1)
      /\ Append(got, Len(got) + 1) = Body!Open(0, Len(got) + 1)
  <2> DEFINE g == Len(got)
             k == sent - g
  <2>1. g \in Nat /\ k \in Nat \ {0} /\ got = Body!Open(0, g) /\ chunks = Body!Open(g, k)
    BY <1>4
  <2> HIDE DEF g, k
  <2>0. k \in Nat /\ k > 0
    BY <2>1
  <2>2. Head(Body!Open(g, k)) = g + 1 /\ Tail(Body!Open(g, k)) = Body!Open(g + 1, k - 1)
    BY <2>0, <2>1, OpenMoves
  <2>3. Append(Body!Open(0, g), g + 1) = Body!Open(0, g + 1)
    <3>1. \A a, n \in Nat : Append(Body!Open(a, n), a + n + 1) = Body!Open(a, n + 1)
      BY OpenMoves
    <3>2. Append(Body!Open(0, g), 0 + g + 1) = Body!Open(0, g + 1)
      BY <2>1, <3>1, 0 \in Nat, Zenon
    <3>3. 0 + g + 1 = g + 1
      BY <2>1
    <3> QED BY <3>2, <3>3, Zenon
  <2>4. /\ Head(chunks) = g + 1 /\ Tail(chunks) = Body!Open(g + 1, k - 1)
        /\ Append(got, g + 1) = Body!Open(0, g + 1)
    BY <2>1, <2>2, <2>3
  <2> QED BY <2>4 DEF g, k
<1>6. /\ got' = Body!Open(0, Len(got) + 1) /\ Len(got') = Len(got) + 1
      /\ chunks' = Body!Open(Len(got'), sent - Len(got'))
  <2>1. got' = Body!Open(0, Len(got) + 1)
    BY <1>1, <1>5
  <2>2. Len(got') = Len(got) + 1
    <3>1. \A n \in Nat : Len(Body!Open(0, n)) = n
      BY Opens
    <3>2. Len(got) + 1 \in Nat
      BY <1>4
    <3> QED BY <2>1, <3>1, <3>2
  <2>3. sent - Len(got) - 1 = sent - (Len(got) + 1)
    BY <1>4
  <2> QED BY <1>1, <1>5, <2>1, <2>2, <2>3
<1>7. InLine'
  <2>1. Len(got') \in Nat /\ Len(got') <= sent
    BY <1>4, <1>6
  <2>2. got' = Body!Open(0, Len(got'))
    BY <1>6
  <2> QED BY <1>6, <2>1, <2>2 DEF BodyInv, InLine
<1>8. Waiting'
  <2>1. ~source.overlap => \A s \in 1..MaxReads : reads'[s].at # "pulling"
    BY <1>2 DEF Body!Pulling, Body!Calls
  <2>2. \A s \in 1..MaxReads : reads'[s].at = "unused" => reads'[s].own = 0
    BY <1>2 DEF BodyInv, Waiting
  <2> QED BY <2>1, <2>2 DEF Waiting
<1>9. Complete'
  <2>1. ASSUME Awaited PROVE \A s \in 1..MaxReads : reads[s].at # "end"
    BY <1>4, <2>1 DEF BodyInv, Complete
  <2>2. ASSUME Awaited PROVE \A s \in 1..MaxReads : reads'[s].at # "end"
    BY <1>2, <2>1, <2>2
  <2> QED BY <1>1, <2>2 DEF BodyInv, Complete, Awaited
<1> QED BY <1>3, <1>7, <1>8, <1>9 DEF BodyInv, Untouched

\* The end, which a polite source leaves to its last chunk.
LEMMA EndRead ==
  ASSUME BodyInv, NEW r \in 1..MaxReads, bodyPc = "reading", Body!End(r),
         UNCHANGED <<source, bodyPc, starting, sent, cancelled>>,
         reads[r].at = "unused" \/ reads[r].at = "pulling",
         source.polite => chunks = <<>>,
         Awaited => sent = source.n
  PROVE  BodyInv'
<1>1. reads' = [reads EXCEPT ![r].at = "end"] /\ closed' = TRUE /\ UNCHANGED <<got, chunks>>
  BY DEF Body!End
<1>2. /\ reads' \in [1..MaxReads -> [at : {"unused", "pulling", "chunk", "end"}, own : Nat]]
      /\ reads'[r].at = "end"
      /\ \A s \in 1..MaxReads : reads'[s].own = reads[s].own
      /\ \A s \in 1..MaxReads \ {r} : reads'[s].at = reads[s].at
  BY <1>1, OneRead DEF BodyInv
<1>3. BodyTyped'
  BY <1>1, <1>2 DEF BodyInv, BodyTyped
<1>4. InLine'
  BY <1>1 DEF BodyInv, InLine
<1>5. Waiting'
  <2>1. \A s \in 1..MaxReads : reads'[s].at = "unused" => s # r /\ reads[s].at = "unused"
    BY <1>2
  <2>2. \A s \in 1..MaxReads : reads'[s].at = "pulling" => s # r /\ reads[s].at = "pulling"
    BY <1>2
  <2>3. \A s \in 1..MaxReads : reads'[s].at = "unused" => reads'[s].own = 0
    BY <1>2, <2>1 DEF BodyInv, Waiting
  <2>4. ~source.overlap =>
          \A s, t \in 1..MaxReads : reads'[s].at = "pulling" /\ reads'[t].at = "pulling" => s = t
    BY <2>2 DEF BodyInv, Waiting
  <2>5. ~source.overlap => \A s \in 1..MaxReads :
          reads'[s].at = "pulling" /\ reads'[s].own > 0 => Len(got) < sent
    BY <1>2, <2>2 DEF BodyInv, Waiting
  <2> QED BY <1>1, <2>3, <2>4, <2>5 DEF Waiting
<1>6. Complete'
  <2>1. ASSUME Awaited PROVE Len(got) = sent
    <3>1. /\ Len(got) \in Nat /\ sent - Len(got) \in Nat /\ sent \in Nat
          /\ Body!Open(Len(got), sent - Len(got)) = <<>>
      BY <2>1 DEF BodyInv, InLine, Awaited
    <3>2. sent - Len(got) = 0
      BY <3>1, OpenMoves
    <3> QED BY <3>1, <3>2
  <2>2. Awaited' <=> Awaited
    BY DEF Awaited
  <2> QED BY <1>1, <2>1, <2>2 DEF Complete
<1> QED BY <1>3, <1>4, <1>5, <1>6 DEF BodyInv, Untouched

LEMMA ChunkReadKeeps ==
  ASSUME BodyInv, NEW r \in Body!Calls, Body!Read(r)
  PROVE  BodyInv'
<1>1. /\ r \in 1..MaxReads /\ bodyPc = "reading" /\ reads[r].at = "unused"
      /\ UNCHANGED <<source, bodyPc, starting, sent, cancelled>>
      /\ source.overlap \/ Body!Pulling = {}
  BY DEF Body!Read, Body!Calls
<1>2. CASE chunks # <<>>
  <2>1. Body!Shift(r)
    BY <1>2 DEF Body!Read
  <2>2. source.overlap \/ Body!Pulling \subseteq {r}
    BY <1>1
  <2> QED BY <1>1, <1>2, <2>1, <2>2, ChunkRead
<1>3. CASE chunks = <<>> /\ (closed \/ ~source.pull)
  <2>1. Body!End(r)
    BY <1>3 DEF Body!Read
  <2>2. Awaited => sent = source.n
    BY <1>1, <1>3 DEF BodyInv, Complete
  <2> QED BY <1>1, <1>3, <2>1, <2>2, EndRead
<1>4. CASE chunks = <<>> /\ ~closed /\ source.pull
  <2>1. reads' = [reads EXCEPT ![r].at = "pulling"] /\ UNCHANGED <<got, chunks, closed>>
    BY <1>4 DEF Body!Read
  <2>2. /\ reads' \in [1..MaxReads -> [at : {"unused", "pulling", "chunk", "end"}, own : Nat]]
        /\ reads'[r].at = "pulling"
        /\ \A s \in 1..MaxReads : reads'[s].own = reads[s].own
        /\ \A s \in 1..MaxReads \ {r} : reads'[s].at = reads[s].at
    BY <1>1, <2>1, OneRead DEF BodyInv
  <2>3. reads'[r].own = 0
    BY <1>1, <2>2 DEF BodyInv, Waiting
  <2>4. BodyTyped'
    BY <1>1, <2>1, <2>2 DEF BodyInv, BodyTyped
  <2>5. InLine'
    BY <1>1, <2>1 DEF BodyInv, InLine
  <2>6. Waiting'
    <3>1. ~source.overlap => \A s \in 1..MaxReads : reads'[s].at = "pulling" => s = r
      BY <1>1, <2>2 DEF Body!Pulling, Body!Calls
    <3>2. \A s \in 1..MaxReads : reads'[s].at = "unused" => reads'[s].own = 0
      BY <2>2 DEF BodyInv, Waiting
    <3> QED BY <1>1, <2>3, <3>1, <3>2 DEF Waiting
  <2>7. Complete'
    BY <1>1, <2>1, <2>2 DEF BodyInv, Complete, Awaited
  <2> QED BY <1>1, <2>4, <2>5, <2>6, <2>7 DEF BodyInv, Untouched
<1> QED BY <1>2, <1>3, <1>4

LEMMA ChunkPullKeeps ==
  ASSUME BodyInv, NEW r \in Body!Calls, Body!PullEnds(r) \/ Body!PullRejects(r)
  PROVE  BodyInv'
<1>1. /\ r \in 1..MaxReads /\ reads[r].at = "pulling"
      /\ UNCHANGED <<source, bodyPc, starting, sent, cancelled>>
  BY DEF Body!PullEnds, Body!PullRejects, Body!Calls
<1>2. bodyPc = "reading"
  BY <1>1 DEF BodyInv, Untouched
<1>3. CASE Body!PullEnds(r) /\ chunks # <<>>
  <2>1. Body!Shift(r)
    BY <1>3 DEF Body!PullEnds
  <2>2. source.overlap \/ Body!Pulling \subseteq {r}
    BY <1>1 DEF BodyInv, Waiting, Body!Pulling, Body!Calls
  <2> QED BY <1>1, <1>2, <1>3, <2>1, <2>2, ChunkRead
<1>4. CASE Body!PullEnds(r) /\ chunks = <<>>
  <2>1. Body!End(r) /\ (source.polite => reads[r].own > 0 \/ closed)
    BY <1>4 DEF Body!PullEnds
  <2>2. Len(got) = sent
    <3>1. /\ Len(got) \in Nat /\ sent - Len(got) \in Nat /\ sent \in Nat
          /\ Body!Open(Len(got), sent - Len(got)) = <<>>
      BY <1>4 DEF BodyInv, InLine
    <3>2. sent - Len(got) = 0
      BY <3>1, OpenMoves
    <3> QED BY <3>1, <3>2
  <2>3. Awaited => closed
    <3>1. sent \in Nat
      BY DEF BodyInv, InLine
    <3> QED BY <1>1, <2>1, <2>2, <3>1 DEF BodyInv, Waiting, Awaited
  <2>4. Awaited => sent = source.n
    BY <2>3 DEF BodyInv, Complete
  <2> QED BY <1>1, <1>2, <1>4, <2>1, <2>4, EndRead
<1>5. CASE Body!PullRejects(r)
  <2>1. Body!End(r) /\ ~source.polite
    BY <1>5 DEF Body!PullRejects
  <2> QED BY <1>1, <1>2, <2>1, EndRead DEF Awaited
<1> QED BY <1>3, <1>4, <1>5

LEMMA BodyStep == BodyInv /\ [Body!Next]_(Body!vars) => BodyInv'
<1> SUFFICES ASSUME BodyInv, [Body!Next]_(Body!vars) PROVE BodyInv'
  OBVIOUS
<1>1. CASE UNCHANGED Body!vars
  BY <1>1 DEF Body!vars, BodyInv, BodyTyped, InLine, Untouched, Waiting, Complete, Awaited
<1>2. CASE \E r \in Body!Calls : Body!Read(r) \/ Body!PullEnds(r) \/ Body!PullRejects(r)
  BY <1>2, ChunkReadKeeps, ChunkPullKeeps
<1> QED BY <1>1, <1>2, FetchedBody, ReaderGot, ChunkQueued, StreamClosed DEF Body!Next

LEMMA BodyInvSound == BodyInv => NothingLost
<1> SUFFICES ASSUME BodyInv PROVE NothingLost
  OBVIOUS
<1>1. /\ Len(got) \in Nat /\ sent \in Nat /\ sent - Len(got) \in Nat
      /\ got = Body!Open(0, Len(got)) /\ chunks = Body!Open(Len(got), sent - Len(got))
  BY DEF BodyInv, InLine
<1>2. Body!Open(0, Len(got)) \o Body!Open(Len(got), sent - Len(got))
        = Body!Open(0, Len(got) + (sent - Len(got)))
  BY <1>1, OpenMoves
<1>3. Len(got) + (sent - Len(got)) = sent
  BY <1>1
<1>4. got \o chunks = Body!Open(0, sent)
  BY <1>1, <1>2, <1>3
<1>5. Body!Ended /\ Awaited => Len(got) = source.n
  BY DEF Body!Ended, Body!Calls, BodyInv, Complete
<1> QED BY <1>1, <1>4, <1>5 DEF NothingLost, Body!NothingLost, Awaited

-----------------------------------------------------------------------------
(* The transaction an application makes *)

\* Whatever is done, all four parts behave as their own modules say: those that are not called
\* take no step.
THEOREM Refinement == SpecAny => Spec /\ Coin!Spec /\ Fee!Spec /\ Body!Spec
<1>1. InitAny => Init /\ Coin!Init /\ Fee!Init /\ Body!Init
  BY DEF InitAny, IdleBuilder, IdleCoin, IdleFee, IdleBody
<1>2. ASSUME [NextAny]_<<part, vars, coinVars, feeVars, bodyVars>>
      PROVE  /\ [Next]_vars /\ [Coin!Next]_(Coin!vars) /\ [Fee!Next]_(Fee!vars)
             /\ [Body!Next]_(Body!vars)
  <2>1. UNCHANGED coinVars <=> UNCHANGED Coin!vars
    BY DEF coinVars, Coin!vars
  <2>2. UNCHANGED feeVars <=> UNCHANGED Fee!vars
    BY DEF feeVars, Fee!vars
  <2>3. UNCHANGED bodyVars <=> UNCHANGED Body!vars
    BY DEF bodyVars, Body!vars
  <2> QED BY <1>2, <2>1, <2>2, <2>3 DEF NextAny
<1> QED BY <1>1, <1>2, PTL DEF SpecAny, Spec, Coin!Spec, Fee!Spec, Body!Spec

\* Given inputs in the order the guides give, createCoinTXN signs what moves exactly what the
\* outputs receive, with the fee shared to one hundred percent, and every slot has its key, its
\* signature and a nonce its wallet came to in the course of the call
\* (coin-txn/transaction.ts:185, 380).
THEOREM SlotsLineUp == SpecAny => []CoinSound
<1>1. CoinInv /\ [Coin!Next]_(Coin!vars) => CoinInv'
  BY CoinStep DEF Coin!vars, coinVars
<1> QED BY <1>1, CoinStart, CoinInvSound, Refinement, PTL DEF Coin!Spec

\* A message is charged for the length it ends up with, although it is sized before its own fee
\* is known: with a margin of two percent or more, as the default is, and whatever the gas and
\* the surcharge add, the fee covers its own digits too; with a smaller margin it is at most a
\* byte short (calculateNetworkFee).
THEOREM FinalLengthPaid == SpecAny => []FeeCoversSize
<1> QED BY FeesStart, FeesStep, FeesInvCovers, Refinement, PTL DEF Fee!Spec

\* Whatever requests for balances failed and whatever tokens are paid in, every distinct recipient
\* without the token is paid for, and a percentage is rounded up by no more than the margin and
\* never to nothing (calculateNewTokenBalanceFee, calculateContractFee).
THEOREM ChargesComplete == SpecAny => []ChargesSound
<1> QED BY FeesStart, FeesStep, FeesInvSound, Refinement, PTL DEF Fee!Spec

\* However a body arrives, its chunks are read in order, each once, and a reader that waits for
\* each of its reads is told of the end only after the last chunk
\* (grpc-web-fetch-wrapper.ts).
THEOREM ChunksComplete == SpecAny => []NothingLost
<1> QED BY BodyStart, BodyStep, BodyInvSound, Refinement, PTL DEF Body!Spec

\* What was proved of a builder holds of every transaction an application makes.
THEOREM EveryTransaction ==
  SpecAny => [](FeeCoversFinal /\ ContextFresh /\ LookupsOfCall /\ RegistrationPaired)
<1> QED BY Refinement, FeeSuffices, ContextStays, LookupsStay, PairsMatch, PTL
=============================================================================
