------------------------------- MODULE Bodies -------------------------------
(***************************************************************************)
(* What the seven sets of rules in Validation agree on, and where they do  *)
(* not.  The state is one body; a step changes one of its fields.          *)
(***************************************************************************)
EXTENDS Validation

CONSTANTS
  Plainest,   \* a body every service admits
  Choices     \* for each field, the values a client tries

\* A client sends nonsense of all kinds, but of the kinds Payloads tells apart.
ASSUME ChoicesAssumption ==
  /\ Plainest \in PayloadType
  /\ Choices \in
       [json: SUBSET Json, number: SUBSET Text, customer: SUBSET Text,
        currency: SUBSET Text, date: SUBSET Date, tax: SUBSET Int,
        lines: SUBSET Seq(LineType)]

VARIABLE p

BodyInit == p = Plainest

BodyNext == \E f \in DOMAIN Choices : \E v \in Choices[f] : p' = [p EXCEPT ![f] = v]

BodySpec == BodyInit /\ [][BodyNext]_p

BodyTypeOK == p \in PayloadType

-----------------------------------------------------------------------------
(***************************************************************************)
(* A plain body has no blanks to trim, no date of another kind than an     *)
(* ordinary day or nonsense, and no quantity below a hundredth.            *)
(***************************************************************************)
PlainLine(l) == ~Padded(l.concept) /\ l.quantity \notin 1..9

Plain(b) ==
  /\ ~Padded(b.number) /\ ~Padded(b.customer) /\ ~Padded(b.currency)
  /\ b.date \in {"valid", "malformed"}
  /\ b.json = "noLines" => b.lines = <<>>
  /\ EveryLine(b, PlainLine)

\* What all seven services take a bill to be.
CommonLine(l) ==
  Between(l.concept.trim, 1, 200) /\ Positive(l) /\ NonNegative(l)

CommonRule(b) ==
  /\ b.json = "complete" /\ b.date = "valid"
  /\ Between(b.number.trim, 1, 50)
  /\ Between(b.customer.trim, 1, 200)
  /\ b.currency.trim = 3
  /\ b.tax >= 0
  /\ b.lines # <<>>
  /\ EveryLine(b, CommonLine)

\* On plain bodies the seven services, written in six languages with two
\* layers of rules each, admit the same ones: those of the common rule.
PlainAgreement == Plain(p) => \A s \in Service : Admits(s, p) <=> CommonRule(p)

Limits(b) ==
  /\ Between(b.number.trim, 1, 50)
  /\ Between(b.customer.trim, 1, 200)
  /\ b.currency.trim <= 3
  /\ b.tax >= 0 /\ b.lines # <<>>
  /\ EveryLine(b, CommonLine)

\* The limits one service sets hold for whatever another one stores in the
\* tables they share: a text is neither blank nor too long, an amount is not
\* negative, a bill has lines.
OneLimit == \A s \in Service : Admits(s, p) => Limits(p)

PositiveOnceStored(l) == Cents(l.quantity) > 0

StoredQuantitiesPositive(s) ==
  Admits(s, p) => EveryLine(p, PositiveOnceStored)

\* The Java and Kotlin services admit no quantity that the column
\* NUMERIC(10,2) rounds to zero: theirs is at least 0.01.
JvmQuantities == \A s \in {"java", "kotlin"} : StoredQuantitiesPositive(s)
=============================================================================
