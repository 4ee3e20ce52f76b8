------------------------------ MODULE Payloads ------------------------------
(***************************************************************************)
(* The body of POST /bills as the seven services see it, reduced to what   *)
(* their rules look at: a text is its length before and after trimming, a  *)
(* number is an integer count of thousandths.  The rules themselves are in *)
(* Validation.                                                             *)
(***************************************************************************)
EXTENDS Integers, Sequences

CONSTANTS
  Payload,      \* the bodies clients may send
  MaxQuantity,  \* largest quantity NUMERIC(10,2) holds, in hundredths
  MaxAmount     \* largest amount NUMERIC(12,2) holds, in hundredths

Text == {t \in [raw: Nat, trim: Nat] : t.trim <= t.raw}

Json == {"complete", "noLines", "broken"}

(***************************************************************************)
(* "valid" is an ordinary day, "first" is 0001-01-01 (the zero value of    *)
(* the date types), "impossible" has the right shape but no such day       *)
(* exists, "malformed" has another shape.                                  *)
(***************************************************************************)
Date == {"valid", "first", "impossible", "malformed"}

LineType == [concept: Text, quantity: Int, unit: Int]

PayloadType ==
  [json: Json, number: Text, customer: Text, currency: Text,
   date: Date, tax: Int, lines: Seq(LineType)]

ASSUME PayloadAssumption == Payload \subseteq PayloadType

ASSUME CapacityAssumption == MaxQuantity \in Nat /\ MaxAmount \in Nat

LineNos(p) == 1..Len(p.lines)

Between(n, low, high) == low <= n /\ n <= high

Blank(t) == t.trim = 0

Padded(t) == t.trim # t.raw

EveryLine(p, Rule(_)) == \A i \in LineNos(p) : Rule(p.lines[i])

-----------------------------------------------------------------------------
(***************************************************************************)
(* What the tables accept.  Quantities and amounts have two decimals: the  *)
(* services round each line half up to them, or the columns do, and a bill *)
(* adds up the rounded lines.  A date that does not exist is refused.      *)
(***************************************************************************)
Cents(thousandths) == (thousandths + 5) \div 10

LineCents(l) == (l.quantity * l.unit + 5000) \div 10000

SubtotalCents(p) ==
  LET upTo[i \in 0..Len(p.lines)] ==
        IF i = 0 THEN 0 ELSE upTo[i - 1] + LineCents(p.lines[i])
  IN  upTo[Len(p.lines)]

BillFits(p) ==
  /\ p.date # "impossible"
  /\ Cents(p.tax) <= MaxAmount
  /\ SubtotalCents(p) <= MaxAmount

LineFits(l) ==
  /\ Cents(l.quantity) <= MaxQuantity
  /\ Cents(l.unit) <= MaxAmount
  /\ LineCents(l) <= MaxAmount

LinesFit(p) == EveryLine(p, LineFits)
=============================================================================
