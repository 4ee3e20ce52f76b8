-------------------------------- MODULE Money --------------------------------
(***************************************************************************)
(* The amounts of one bill of two lines: what each service computes from a *)
(* request, what the columns NUMERIC(..,2) keep of it, what the client and *)
(* the event are told, and what the two readers add up afterwards.         *)
(*                                                                         *)
(* Amounts of requests are in mills (thousandths), those of the database   *)
(* in cents.  A float is nearly the number that was sent: rounding it is   *)
(* exact except for a number halfway between two cents, which goes either  *)
(* way.                                                                    *)
(***************************************************************************)
EXTENDS Naturals

CONSTANTS
  Services,   \* among "py", "dotnet", "java", "kotlin", "rust", "go", "node"
  Quantity,   \* quantities of requests, in mills
  UnitAmount, \* unit amounts
  Tax         \* taxes

ASSUME MoneyAssumption ==
  /\ Services \subseteq {"py", "dotnet", "java", "kotlin", "rust", "go", "node"}
  /\ Quantity \subseteq Nat \ {0} /\ UnitAmount \subseteq Nat /\ Tax \subseteq Nat

VARIABLES
  service,    \* the service the bill is posted to
  request,    \* quantity and unit amount of both lines, and the tax
  row,        \* the rows of the bill, Nothing before the commit
  told,       \* subtotal, tax and total of the answer and of the event, in mills
  seen        \* the totals readers have reported, in cents

vars == <<service, request, row, told, seen>>

Nothing == [none |-> TRUE]

\* Numbers of the lines.
Nos == {1, 2}

-----------------------------------------------------------------------------
\* HALF_UP to a multiple of unit, of numbers that are not negative.
HalfUp(x, unit) == (2 * x + unit) \div (2 * unit)

\* Mutant: the fraction is cut off, as a conversion to an integer would.
NearestCut(x, unit) == {x \div unit}

\* The same of a float.
Nearest(x, unit) ==
  {HalfUp(x, unit)} \cup {n \in {x \div unit} : 2 * (x - n * unit) = unit}

\* round_money of the service: exact decimals, or binary floats.
Rounded(s, x, unit) ==
  IF s \in {"go", "node"} THEN Nearest(x, unit) ELSE {HalfUp(x, unit)}

\* Python and .NET multiply what was sent.
FullLine(q, u) ==
  {[quantity |-> HalfUp(q, 10), unit |-> HalfUp(u, 10),
    amount |-> HalfUp(q * u, 10000)]}

LineOf(s, rq, ru, product, unit) ==
  {[quantity |-> rq, unit |-> ru, amount |-> a] : a \in Rounded(s, product, unit)}

\* The others multiply what they have rounded.
RoundedLine(s, q, u) ==
  UNION {LineOf(s, rq, ru, rq * ru, 100) :
           rq \in Rounded(s, q, 10), ru \in Rounded(s, u, 10)}

Line(s, q, u) ==
  IF s \in {"py", "dotnet"} THEN FullLine(q, u) ELSE RoundedLine(s, q, u)

-----------------------------------------------------------------------------
\* SUM(line_amount).
Sum(lines) == lines[1].amount + lines[2].amount

Bill(lines, tax) == [lines |-> lines, subtotal |-> Sum(lines), tax |-> tax]

\* Mutant: nobody rounds the tax of the answer.
TellingSent(s, bill, tax) ==
  [subtotal |-> 10 * bill.subtotal, tax |-> tax, total |-> 10 * bill.subtotal + tax]

\* What the service says of a bill.  The .NET service leaves it to the
\* database to round the tax.
Telling(s, bill, tax) ==
  LET t == IF s = "dotnet" THEN tax ELSE 10 * bill.tax
  IN  [subtotal |-> 10 * bill.subtotal, tax |-> t, total |-> 10 * bill.subtotal + t]

\* The computed column of both readers; seed.sql drops the stored total.
TotalOf(bill) == Sum(bill.lines) + bill.tax

Request ==
  [quantity: [Nos -> Quantity], unit: [Nos -> UnitAmount], tax: Tax]

Init ==
  /\ service \in Services /\ request \in Request
  /\ row = Nothing /\ told = Nothing /\ seen = {}

\* POST /bills, as far as it computes.
Create ==
  /\ row = Nothing
  /\ \E l1 \in Line(service, request.quantity[1], request.unit[1]),
        l2 \in Line(service, request.quantity[2], request.unit[2]),
        tax \in Rounded(service, request.tax, 10) :
       /\ row' = Bill(<<l1, l2>>, tax)
       /\ told' = Telling(service, row', request.tax)
  /\ UNCHANGED <<service, request, seen>>

Report(total) ==
  /\ row # Nothing /\ seen' = seen \cup {total}
  /\ UNCHANGED <<service, request, row, told>>

\* GET /bills.
ListBills == Report(TotalOf(row))

\* GET /bills-minimal.
ListBillsMinimal == Report(TotalOf(row))

Next == Create \/ ListBills \/ ListBillsMinimal

Spec == Init /\ [][Next]_vars
-----------------------------------------------------------------------------
Amount == [quantity: Nat, unit: Nat, amount: Nat]

TypeOK ==
  /\ service \in Services /\ request \in Request
  /\ row # Nothing => row \in [lines: Amount \X Amount, subtotal: Nat, tax: Nat]
  /\ seen \subseteq Nat

Distance(a, b) == IF a < b THEN b - a ELSE a - b

\* The answer and the event say what every reader will say, to the last cent;
\* those of the .NET service say it to half a cent.
TotalsAgree ==
  \A total \in seen :
    Distance(told.total, 10 * total) <= IF service = "dotnet" THEN 5 ELSE 0

WholeCents(n) == request.quantity[n] % 10 = 0 /\ request.unit[n] % 10 = 0

Exact(n) == HalfUp(request.quantity[n] * request.unit[n], 10000)

Halfway(n) == (request.quantity[n] * request.unit[n]) % 10000 = 5000

\* Of a line in whole cents all services store the same, so that their
\* benchmarks compare: only a float may lose a cent, when the product lies
\* halfway.
ServicesAgree ==
  row # Nothing =>
    \A n \in Nos : WholeCents(n) =>
      /\ 10 * row.lines[n].quantity = request.quantity[n]
      /\ 10 * row.lines[n].unit = request.unit[n]
      /\ Distance(row.lines[n].amount, Exact(n))
           <= IF service \in {"go", "node"} /\ Halfway(n) THEN 1 ELSE 0
=============================================================================
