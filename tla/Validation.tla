----------------------------- MODULE Validation -----------------------------
(***************************************************************************)
(* The rules each service applies to the body of POST /bills, layer by     *)
(* layer: <S>Binds, what its JSON binding turns into a request object;     *)
(* <S>Dto, the checks on the request before any query; <S>Domain, the      *)
(* checks of the domain objects, made after the look-up of the number.     *)
(***************************************************************************)
EXTENDS Payloads

NonNegative(l) == l.unit >= 0

Positive(l) == l.quantity > 0

----------------------------------------------------------------- \* Python
PyBinds(p) == p.json = "complete" /\ p.date \in {"valid", "first"}

PyLineDto(l) == Between(l.concept.raw, 1, 200) /\ Positive(l) /\ NonNegative(l)

PyDto(p) ==
  /\ Between(p.number.raw, 1, 50)
  /\ Between(p.customer.raw, 1, 200)
  /\ p.currency.raw = 3
  /\ p.tax >= 0
  /\ p.lines # <<>>
  /\ EveryLine(p, PyLineDto)

PyLineDraft(l) == ~Blank(l.concept) /\ Positive(l) /\ NonNegative(l)

PyNewBill(p) ==
  /\ Between(p.number.trim, 1, 50)
  /\ Between(p.customer.trim, 1, 200)
  /\ p.currency.trim = 3
  /\ p.date # "first"
  /\ p.tax >= 0
  /\ p.lines # <<>>

PyDomain(p) == EveryLine(p, PyLineDraft) /\ PyNewBill(p)

--------------------------------------------------------------------- \* Go
GoBinds(p) == p.json # "broken"

GoLineDto(l) == ~Blank(l.concept) /\ Positive(l) /\ NonNegative(l)

GoDto(p) ==
  /\ ~Blank(p.number)
  /\ ~Blank(p.customer)
  /\ p.currency.trim = 3
  /\ p.tax >= 0
  /\ p.date = "valid"
  /\ p.json # "noLines" /\ p.lines # <<>>
  /\ EveryLine(p, GoLineDto)

GoLine(l) == Between(l.concept.trim, 1, 200) /\ Positive(l) /\ NonNegative(l)

\* Mutant: a limit with a zero too many.
GoDomainLonger(p) ==
  /\ Between(p.number.trim, 1, 500)
  /\ Between(p.customer.trim, 1, 200)
  /\ p.currency.trim = 3
  /\ EveryLine(p, GoLine)

GoDomain(p) ==
  /\ Between(p.number.trim, 1, 50)
  /\ Between(p.customer.trim, 1, 200)
  /\ p.currency.trim = 3
  /\ p.date # "first"
  /\ p.tax >= 0
  /\ p.lines # <<>>
  /\ EveryLine(p, GoLine)

------------------------------------------------------------------- \* .NET
\* A body that does not bind, and one without lines, end in the catch-all
\* of the middleware: the endpoint enumerates request.Lines itself.
DotNetBinds(p) == p.json = "complete" /\ p.date \in {"valid", "first"}

DotNetLineDto(l) ==
  /\ ~Blank(l.concept) /\ l.concept.raw <= 200
  /\ Positive(l) /\ NonNegative(l)

DotNetDto(p) ==
  /\ ~Blank(p.number) /\ p.number.raw <= 50
  /\ ~Blank(p.customer) /\ p.customer.raw <= 200
  /\ p.date # "first"
  /\ ~Blank(p.currency) /\ p.currency.raw = 3
  /\ p.tax >= 0
  /\ p.lines # <<>>
  /\ EveryLine(p, DotNetLineDto)

DotNetLine(l) == ~Blank(l.concept) /\ Positive(l) /\ NonNegative(l)

DotNetBill(p) ==
  /\ ~Blank(p.number)
  /\ ~Blank(p.customer)
  /\ ~Blank(p.currency) /\ p.currency.raw = 3
  /\ p.tax >= 0

DotNetDomain(p) == DotNetBill(p) /\ EveryLine(p, DotNetLine)

--------------------------------------------------------- \* Java and Kotlin
JavaBinds(p) == p.json # "broken" /\ p.date \in {"valid", "first"}

\* Mutant: @Positive in place of the least quantity.
JavaLineDtoPositive(l) ==
  ~Blank(l.concept) /\ l.concept.raw <= 200 /\ Positive(l) /\ NonNegative(l)

JavaLineDto(l) ==
  /\ ~Blank(l.concept) /\ l.concept.raw <= 200
  /\ l.quantity >= 10          \* 0.01
  /\ NonNegative(l)

JavaDto(p) ==
  /\ ~Blank(p.number) /\ p.number.raw <= 50
  /\ ~Blank(p.customer) /\ p.customer.raw <= 200
  /\ ~Blank(p.currency) /\ p.currency.raw = 3
  /\ p.tax >= 0
  /\ p.json # "noLines" /\ p.lines # <<>>
  /\ EveryLine(p, JavaLineDto)

JavaLine(l) ==
  /\ ~Blank(l.concept) /\ l.concept.raw <= 200
  /\ Positive(l) /\ NonNegative(l)

JavaNewBill(p) ==
  /\ Between(p.number.trim, 1, 50)
  /\ Between(p.customer.trim, 1, 200)
  /\ p.currency.trim = 3
  /\ p.tax >= 0
  /\ p.lines # <<>>

JavaDomain(p) == EveryLine(p, JavaLine) /\ JavaNewBill(p)

\* A missing property cannot fill a non-null Kotlin parameter.
KotlinBinds(p) == p.json = "complete" /\ p.date \in {"valid", "first"}

\* Mutant: the least quantity is left out.
KotlinLineDtoStrict(l) ==
  ~Blank(l.concept) /\ l.concept.raw <= 200 /\ l.quantity > 10 /\ NonNegative(l)

KotlinLineDto(l) ==
  /\ ~Blank(l.concept) /\ l.concept.raw <= 200
  /\ l.quantity >= 10
  /\ NonNegative(l)

KotlinDto(p) ==
  /\ ~Blank(p.number) /\ p.number.raw <= 50
  /\ ~Blank(p.customer) /\ p.customer.raw <= 200
  /\ ~Blank(p.currency) /\ p.currency.raw = 3
  /\ p.tax >= 0
  /\ p.lines # <<>>
  /\ EveryLine(p, KotlinLineDto)

KotlinLine(l) ==
  /\ ~Blank(l.concept) /\ l.concept.raw <= 200
  /\ Positive(l) /\ NonNegative(l)

KotlinNewBill(p) ==
  /\ Between(p.number.trim, 1, 50)
  /\ Between(p.customer.trim, 1, 200)
  /\ p.currency.trim = 3
  /\ p.tax >= 0
  /\ p.lines # <<>>

KotlinDomain(p) == EveryLine(p, KotlinLine) /\ KotlinNewBill(p)

-------------------------------------------------------------------- \* Node
NodeBinds(p) == p.json # "broken"

NodeLineDto(l) == Between(l.concept.trim, 1, 200) /\ Positive(l) /\ NonNegative(l)

NodeDto(p) ==
  /\ p.json # "noLines"
  /\ Between(p.number.trim, 1, 50)
  /\ p.date # "malformed"        \* only the shape of the date is looked at
  /\ Between(p.customer.trim, 1, 200)
  /\ p.currency.trim = 3
  /\ p.tax >= 0
  /\ p.lines # <<>>
  /\ EveryLine(p, NodeLineDto)

NodeLine(l) == Between(l.concept.trim, 1, 200) /\ Positive(l) /\ NonNegative(l)

NodeNewBill(p) ==
  /\ Between(p.number.trim, 1, 50)
  /\ Between(p.customer.trim, 1, 200)
  /\ p.currency.trim = 3
  /\ Cents(p.tax) >= 0
  /\ p.lines # <<>>

NodeDomain(p) == EveryLine(p, NodeLine) /\ NodeNewBill(p)

-------------------------------------------------------------------- \* Rust
RustBinds(p) == p.json = "complete" /\ p.date \in {"valid", "first"}

RustLineDto(l) == Between(l.concept.raw, 1, 200) /\ Positive(l) /\ NonNegative(l)

RustDto(p) ==
  /\ Between(p.number.raw, 1, 50)
  /\ Between(p.customer.raw, 1, 200)
  /\ p.currency.raw = 3
  /\ p.tax >= 0
  /\ p.lines # <<>>
  /\ EveryLine(p, RustLineDto)

RustLine(l) ==
  /\ ~Blank(l.concept) /\ l.concept.raw <= 200
  /\ Positive(l) /\ NonNegative(l)

RustNewBill(p) ==
  /\ Between(p.number.trim, 1, 50)
  /\ Between(p.customer.trim, 1, 200)
  /\ p.currency.trim = 3
  /\ p.tax >= 0
  /\ p.lines # <<>>

RustDomain(p) == EveryLine(p, RustLine) /\ RustNewBill(p)

-----------------------------------------------------------------------------
Service == {"py", "go", "dotnet", "java", "kotlin", "node", "rust"}

\* What the layers before the look-up let through.
Accepts(s, p) ==
  CASE s = "py"     -> PyBinds(p) /\ PyDto(p)
    [] s = "go"     -> GoBinds(p) /\ GoDto(p)
    [] s = "dotnet" -> DotNetBinds(p) /\ DotNetDto(p)
    [] s = "java"   -> JavaBinds(p) /\ JavaDto(p)
    [] s = "kotlin" -> KotlinBinds(p) /\ KotlinDto(p)
    [] s = "node"   -> NodeBinds(p) /\ NodeDto(p)
    [] s = "rust"   -> RustBinds(p) /\ RustDto(p)

Domain(s, p) ==
  CASE s = "py"     -> PyDomain(p)
    [] s = "go"     -> GoDomain(p)
    [] s = "dotnet" -> DotNetDomain(p)
    [] s = "java"   -> JavaDomain(p)
    [] s = "kotlin" -> KotlinDomain(p)
    [] s = "node"   -> NodeDomain(p)
    [] s = "rust"   -> RustDomain(p)

(***************************************************************************)
(* A body is admitted when every layer of the service lets it through to   *)
(* the INSERT statements.                                                  *)
(***************************************************************************)
Admits(s, p) == Accepts(s, p) /\ Domain(s, p)
=============================================================================
