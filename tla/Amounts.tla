------------------------------ MODULE Amounts ------------------------------
(***************************************************************************)
(* Amounts on their way through the library: an amount is checked          *)
(* (shared/utils/validation.ts, transaction-utils.ts), converted into the  *)
(* smallest units of a token (unified-amount-conversion.ts) and shown      *)
(* again (the same, query/decoders.ts and the formatters), while the table *)
(* of known decimals may change (token-config.ts); and the amounts of a    *)
(* transaction are compared (amount-utils.ts).                             *)
(*                                                                         *)
(* A decimal is an integer over a power of ten.  decimal.js keeps          *)
(* Precision significant digits of every result, rounds down, and writes   *)
(* what has more integer digits with an exponent, which no conversion      *)
(* reads.                                                                  *)
(***************************************************************************)
EXTENDS Integers, Sequences, SequencesExt, FiniteSetsExt

CONSTANTS
  Precision,  \* significant digits of a result: 50 in the code
  MaxSafe,    \* Number.MAX_SAFE_INTEGER, the largest amount accepted by default
  MaxFraction,\* fraction digits of partsToWhole: 18 in the code
  None,       \* no limit, no entry in a table
  Calls,      \* what an application may ask for
  Decimals    \* numbers of decimals it may register for a token

AmountConstants ==
  /\ Precision \in Nat \ {0} /\ MaxSafe \in Nat /\ MaxFraction \in Nat
  /\ None \notin Int /\ Decimals \subseteq Nat

VARIABLES
  call,   \* the amount, how it is checked, converted and shown
  table,  \* TOKEN_DECIMALS of the token, or None
  pc,     \* where the amount is
  parts,  \* the smallest units, and the decimals they were computed with
  shown   \* the decimal shown at the end, and the decimals used for it

vars == <<call, table, pc, parts, shown>>

-----------------------------------------------------------------------------
(* Decimals *)

Pow10[n \in 0..9] == IF n = 0 THEN 1 ELSE 10 * Pow10[n - 1]

Magnitude(n) == IF n < 0 THEN -n ELSE n

Digits(n) == CHOOSE d \in 1..10 : /\ d = 10 \/ Magnitude(n) < Pow10[d]
                                  /\ d = 1 \/ Magnitude(n) >= Pow10[d - 1]

Dec(m, e) == [m |-> m, e |-> e]

Value(x, e) == x.m * Pow10[e - x.e]
Wider(x, y) == Max({x.e, y.e})
Less(x, y) == Value(x, Wider(x, y)) < Value(y, Wider(x, y))
Same(x, y) == Value(x, Wider(x, y)) = Value(y, Wider(x, y))

\* Towards zero.
Cut(n, unit) == IF n < 0 THEN -((-n) \div unit) ELSE n \div unit

Rounded(x) ==
  LET unit == Pow10[Max({0, Digits(x.m) - Precision})] IN [x EXCEPT !.m = Cut(@, unit) * unit]

ExactSum(x, y) == Dec(Value(x, Wider(x, y)) + Value(y, Wider(x, y)), Wider(x, y))

Plus(x, y) == Rounded(ExactSum(x, y))

Times(x, y) == Rounded(Dec(x.m * y.m, x.e + y.e))

Floor(x) == x.m \div Pow10[x.e]

\* toFixed and toDecimalPlaces: cut after d digits.
Fixed(x, d) == IF x.e <= d THEN x ELSE Dec(Cut(x.m, Pow10[x.e - d]), d)

DecimalPlaces(x) == Min({e \in 0..x.e : Same(Fixed(x, e), x)})

\* toString writes no exponent.
Plain(x) == Magnitude(x.m) < Pow10[Precision + x.e]

\* A text of digits, a number or a bigint; or one of "NaN", "Infinity", "malformed" and "missing".
Readable(amount) == amount.form \in {"text", "number", "bigint"}

\* Of a sequence of texts; none may be written with an exponent.
AddAmounts(amounts) == FoldLeft(LAMBDA sum, x : Plus(sum, x), Dec(0, 0), amounts)

CompareAmounts(x, y) == IF Less(x, y) THEN -1 ELSE IF Same(x, y) THEN 0 ELSE 1

-----------------------------------------------------------------------------
(* Decimals of a token *)

\* Of a denomination that is no power of ten, those of the next lower one.
GetDecimalPlacesFromDenomination(denomination) == Digits(denomination) - 1

\* The denomination given, or the one of the token's entry, which must have one; else the
\* table, which may lack the token.
DecimalsFrom(source) ==
  CASE source = "denomination" -> GetDecimalPlacesFromDenomination(call.denomination)
    [] source = "entry"        -> GetDecimalPlacesFromDenomination(call.denomination)
    [] source = "emptyEntry"   -> None
    [] source = "table"        -> table

ToSmallestUnits(amount, d) == Floor(Times(amount, Dec(Pow10[d], 0)))

ConvertAmountToParts(amount, d) == ToSmallestUnits(amount, d)

FromSmallestUnits(n, d) == Rounded(Dec(n, d))

GetMinimumAmount == Dec(1, table)

MeetsMinimumAmount(amount) == ~Less(amount, GetMinimumAmount)

\* formatQuotient: up to MaxFraction digits of the quotient.
FormatQuotient(n, denominator) ==
  Dec(Cut(n * Pow10[MaxFraction], denominator), MaxFraction)

PartsToWhole(n, denomination) == FormatQuotient(n, denomination)

-----------------------------------------------------------------------------
(* Checks *)

Below(amount, limit) == limit # None /\ Less(amount, Dec(limit, 0))
Above(amount, limit) == limit # None /\ Less(Dec(limit, 0), amount)

\* InputValidator.validateAmount: what is neither zero nor negative nor outside of the
\* limits; NaN is none of these, and Infinity only above a limit.
ValidateAmount(amount) ==
  CASE amount.form \in {"missing", "malformed"} -> FALSE
    [] amount.form = "NaN"      -> TRUE
    [] amount.form = "Infinity" -> call.max = None
    [] OTHER -> /\ amount.dec.m = 0 => call.allowZero
                /\ amount.dec.m >= 0
                /\ ~Below(amount.dec, call.min) /\ ~Above(amount.dec, call.max)

\* Mutant: the number of decimals is not looked at.
ValidateMagnitude(amount) ==
  LET max == IF call.max = None THEN MaxSafe ELSE call.max
  IN /\ Readable(amount)
     /\ amount.dec.m > 0 /\ ~Below(amount.dec, call.min) /\ ~Above(amount.dec, max)

\* TransactionValidator.validateAmount: positive, and with no more decimals than the token.
ValidateTransactionAmount(amount) ==
  LET max == IF call.max = None THEN MaxSafe ELSE call.max
  IN /\ Readable(amount)
     /\ amount.dec.m > 0 /\ ~Below(amount.dec, call.min) /\ ~Above(amount.dec, max)
     /\ DecimalPlaces(amount.dec) <= GetDecimalPlacesFromDenomination(call.denomination)

\* TransactionValidator.validateFee: a fee may be zero.
ValidateFee(fee) ==
  LET max == IF call.max = None THEN MaxSafe ELSE call.max
  IN /\ fee.form \notin {"missing", "malformed", "NaN"}
     /\ fee.form # "Infinity"
     /\ ~Below(fee.dec, IF call.min = None THEN 0 ELSE call.min) /\ ~Above(fee.dec, max)

Accepted ==
  CASE call.check = "input"       -> ValidateAmount(call.amount)
    [] call.check = "transaction" -> ValidateTransactionAmount(call.amount)
    [] call.check = "fee"         -> ValidateFee(call.amount)
    [] call.check = "none"        -> TRUE

\* validateAmountBalance.
ValidateAmountBalance(ins, outs) == ~Less(AddAmounts(ins), AddAmounts(outs))

ValidateExactAmountBalance(ins, outs) == CompareAmounts(AddAmounts(ins), AddAmounts(outs)) = 0

-----------------------------------------------------------------------------
(* One amount *)

Init ==
  /\ call \in Calls
  /\ table \in Decimals \cup {None}
  /\ pc = IF call.kind = "amount" THEN "check" ELSE "balance"
  /\ parts = [n |-> 0, plain |-> TRUE, d |-> None]
  /\ shown = [dec |-> Dec(0, 0), d |-> None]

Reject == pc' = "rejected" /\ UNCHANGED <<call, table, parts, shown>>

Check ==
  /\ pc = "check"
  /\ IF Accepted THEN pc' = "convert" /\ UNCHANGED <<call, table, parts, shown>> ELSE Reject

\* What is missing converts to nothing; NaN and Infinity convert to themselves, and neither
\* is an amount any more.
Convert ==
  /\ pc = "convert"
  /\ LET d == DecimalsFrom(call.source) IN
       IF d = None \/ ~Readable(call.amount) THEN Reject
       ELSE /\ LET n == ConvertAmountToParts(call.amount.dec, d)
               IN parts' = [n |-> n, plain |-> Plain(Dec(n, 0)), d |-> d]
            /\ pc' = "show"
            /\ UNCHANGED <<call, table, shown>>

\* fromSmallestUnits reads no exponent, and shows the parts of a token no table has as they are.
ShowUnits ==
  /\ pc = "show" /\ call.show = "units"
  /\ LET known == DecimalsFrom(call.source)
         d == IF known = None THEN 0 ELSE known
     IN IF ~parts.plain \/ call.source = "emptyEntry" THEN Reject
        ELSE /\ shown' = [dec |-> FromSmallestUnits(parts.n, d), d |-> d]
             /\ pc' = "shown"
             /\ UNCHANGED <<call, table, parts>>

ShowWhole ==
  /\ pc = "show" /\ call.show = "whole"
  /\ IF ~parts.plain THEN Reject
     ELSE /\ shown' = [dec |-> PartsToWhole(parts.n, call.denomination),
                       d |-> GetDecimalPlacesFromDenomination(call.denomination)]
          /\ pc' = "shown"
          /\ UNCHANGED <<call, table, parts>>

\* formatAmount shows the amount itself, with the decimals of the table.
FormatAmount ==
  /\ pc = "show" /\ call.show = "format"
  /\ IF table = None THEN Reject
     ELSE /\ shown' = [dec |-> Fixed(call.amount.dec, table), d |-> table]
          /\ pc' = "shown"
          /\ UNCHANGED <<call, table, parts>>

\* addTokenConfig, by anyone at any time.
AddTokenConfig(d) ==
  /\ pc \in {"check", "convert", "show"} /\ d # table
  /\ table' = d
  /\ UNCHANGED <<call, pc, parts, shown>>

Next ==
  \/ Check \/ Convert \/ ShowUnits \/ ShowWhole \/ FormatAmount
  \/ \E d \in Decimals : AddTokenConfig(d)

Spec == Init /\ [][Next]_vars

-----------------------------------------------------------------------------
(* Properties *)

Shown == pc = "shown"

PowerOfTen(n) == n = Pow10[Digits(n) - 1]

\* The decimals an amount is shown with are those it was converted with, and they are the
\* token's denomination.
SameDecimals == shown.d = parts.d /\ (call.show = "whole" => PowerOfTen(call.denomination))

\* What is shown is not more than what was entered, and less by less than one part of what
\* the amounts' digits can hold.
ShownIsEntered ==
  LET amount == call.amount.dec IN
  Shown /\ SameDecimals /\ shown.d <= MaxFraction =>
    /\ amount.m >= 0 => ~Less(amount, shown.dec)
    /\ Digits(amount.m) <= Precision /\ amount.m >= 0
         => Less(amount, ExactSum(shown.dec, Dec(1, shown.d)))

\* A transaction's validator lets no amount through that the conversion would cut.
ValidatedIsExact ==
  Shown /\ SameDecimals /\ call.check = "transaction" /\ call.show # "format"
    /\ parts.d = GetDecimalPlacesFromDenomination(call.denomination)
    /\ Digits(call.amount.dec.m) <= Precision =>
    parts.n > 0 /\ (shown.d <= MaxFraction => Same(shown.dec, call.amount.dec))

\* An amount meets the minimum just when it is worth a part.
MinimumIsOnePart ==
  pc = "show" /\ table # None /\ parts.d = table /\ Digits(call.amount.dec.m) <= Precision =>
    (MeetsMinimumAmount(call.amount.dec) <=> parts.n >= 1)

\* What a validator accepts is never a debt once it is converted.
AcceptedNotNegative == pc = "show" /\ call.check # "none" => parts.n >= 0

\* An amount survives its way into parts and back (toSmallestUnits, fromSmallestUnits,
\* partsToWhole, formatAmount), whoever checks and shows it, as long as the digits fit
\* and the decimals stay the same.
AmountSurvives == ShownIsEntered /\ ValidatedIsExact /\ MinimumIsOnePart /\ AcceptedNotNegative

\* validateExactAmountBalance compares sums that may have lost digits: it is exact, in both
\* directions, as long as the sums have no more than Precision of them.
BalanceExact ==
  call.kind = "balance" =>
    LET Total(seq) == FoldLeft(LAMBDA sum, x : sum + x.m, 0, seq)
        Gross(seq) == FoldLeft(LAMBDA sum, x : sum + Magnitude(x.m), 0, seq)
    IN Max({Gross(call.ins), Gross(call.outs)}) < Pow10[Precision] =>
         (ValidateExactAmountBalance(call.ins, call.outs) <=> Total(call.ins) = Total(call.outs))

\* The checks and the conversions of the library agree on every amount: it survives its way
\* through them, and a balance is one (toSmallestUnits, fromSmallestUnits, validateAmount,
\* validateExactAmountBalance).
AmountsSound == AmountSurvives /\ BalanceExact

=============================================================================
