---------------------------- MODULE BodiesProofs ----------------------------
(***************************************************************************)
(* What the seven services make of a body: the sets of rules compared, for *)
(* bodies of any size (texts of any length, any numbers, any number of     *)
(* lines), and what is computed of the amounts.                            *)
(***************************************************************************)
EXTENDS Bodies, Money, TLAPS

\* A client changes one field at a time to a value of its kind.
LEMMA Typed == BodySpec => []BodyTypeOK
  <1>1. BodyInit => BodyTypeOK
    BY ChoicesAssumption DEF BodyInit, BodyTypeOK
  <1>2. BodyTypeOK /\ [BodyNext]_p => BodyTypeOK'
    <2> SUFFICES ASSUME BodyTypeOK, [BodyNext]_p PROVE BodyTypeOK'
      OBVIOUS
    <2>1. CASE UNCHANGED p
      BY <2>1 DEF BodyTypeOK
    <2>2. ASSUME NEW f \in DOMAIN Choices, NEW v \in Choices[f], p' = [p EXCEPT ![f] = v]
          PROVE  BodyTypeOK'
      <3>1. f \in {"json", "number", "customer", "currency", "date", "tax", "lines"}
        BY ChoicesAssumption
      <3>2. CASE f = "lines"
        BY <2>2, <3>2, ChoicesAssumption DEF BodyTypeOK, PayloadType
      <3>3. CASE f \in {"json", "date", "tax"}
        BY <2>2, <3>3, ChoicesAssumption DEF BodyTypeOK, PayloadType
      <3>4. CASE f \in {"number", "customer", "currency"}
        BY <2>2, <3>4, ChoicesAssumption DEF BodyTypeOK, PayloadType
      <3>5. QED
        BY <3>1, <3>2, <3>3, <3>4
    <2>3. QED
      BY <2>1, <2>2 DEF BodyNext
  <1>3. QED
    BY <1>1, <1>2, PTL DEF BodySpec

-----------------------------------------------------------------------------
\* Before and after trimming, a text that is not padded has one length.
LEMMA Unpadded ==
  ASSUME NEW t \in Text, ~Padded(t)
  PROVE  t.raw = t.trim /\ t.trim \in Nat
  BY DEF Text, Padded

\* The lines of a body are lines.
LEMMA LinesOf ==
  ASSUME NEW b \in PayloadType, NEW i \in LineNos(b)
  PROVE  b.lines[i] \in LineType
  BY DEF PayloadType, LineNos

\* On a plain line every rule for lines is the common one.
LEMMA LineRules ==
  ASSUME NEW l \in LineType, PlainLine(l)
  PROVE  /\ PyLineDto(l) /\ PyLineDraft(l) <=> CommonLine(l)
         /\ GoLineDto(l) /\ GoLine(l) <=> CommonLine(l)
         /\ DotNetLineDto(l) /\ DotNetLine(l) <=> CommonLine(l)
         /\ JavaLineDto(l) /\ JavaLine(l) <=> CommonLine(l)
         /\ KotlinLineDto(l) /\ KotlinLine(l) <=> CommonLine(l)
         /\ NodeLineDto(l) /\ NodeLine(l) <=> CommonLine(l)
         /\ RustLineDto(l) /\ RustLine(l) <=> CommonLine(l)
  <1>1. /\ l.concept.raw = l.concept.trim /\ l.concept.trim \in Nat
        /\ l.quantity \in Int /\ l.unit \in Int
    BY DEF LineType, PlainLine, Text, Padded
  <1>2. l.quantity > 0 => l.quantity >= 10
    BY <1>1 DEF PlainLine
  <1>3. QED
    BY <1>1, <1>2
    DEF PyLineDto, PyLineDraft, GoLineDto, GoLine, DotNetLineDto, DotNetLine,
        JavaLineDto, JavaLine, KotlinLineDto, KotlinLine, NodeLineDto, NodeLine,
        RustLineDto, RustLine, CommonLine, Between, Blank, Positive, NonNegative

\* On a plain body the rules of every layer of a service come to the same.
LEMMA BodyRules ==
  ASSUME NEW b \in PayloadType, Plain(b)
  PROVE  \A s \in Service : Admits(s, b) <=> CommonRule(b)
  <1> DEFINE n == b.number
             c == b.customer
             k == b.currency
  <1>1. /\ n.raw = n.trim /\ n.trim \in Nat
        /\ c.raw = c.trim /\ c.trim \in Nat
        /\ k.raw = k.trim /\ k.trim \in Nat
    BY Unpadded DEF Plain, PayloadType
  <1>2. /\ b.json \in Json /\ b.date \in {"valid", "malformed"} /\ b.tax \in Int
        /\ b.json = "noLines" => b.lines = <<>>
    BY DEF Plain, PayloadType
  <1>3. \A i \in LineNos(b) : b.lines[i] \in LineType /\ PlainLine(b.lines[i])
    BY LinesOf DEF Plain, EveryLine
  <1>4. /\ EveryLine(b, PyLineDto) /\ EveryLine(b, PyLineDraft) <=> EveryLine(b, CommonLine)
        /\ EveryLine(b, GoLineDto) /\ EveryLine(b, GoLine) <=> EveryLine(b, CommonLine)
        /\ EveryLine(b, DotNetLineDto) /\ EveryLine(b, DotNetLine) <=> EveryLine(b, CommonLine)
        /\ EveryLine(b, JavaLineDto) /\ EveryLine(b, JavaLine) <=> EveryLine(b, CommonLine)
        /\ EveryLine(b, KotlinLineDto) /\ EveryLine(b, KotlinLine) <=> EveryLine(b, CommonLine)
        /\ EveryLine(b, NodeLineDto) /\ EveryLine(b, NodeLine) <=> EveryLine(b, CommonLine)
        /\ EveryLine(b, RustLineDto) /\ EveryLine(b, RustLine) <=> EveryLine(b, CommonLine)
    BY <1>3, LineRules DEF EveryLine
  <1> HIDE DEF n, c, k
  <1> USE DEF Between, Blank, CommonRule, Json
  <1>5. PyBinds(b) /\ PyDto(b) /\ PyDomain(b) <=> CommonRule(b)
    BY <1>1, <1>2, <1>4 DEF n, c, k, PyBinds, PyDto, PyDomain, PyNewBill
  <1>6. GoBinds(b) /\ GoDto(b) /\ GoDomain(b) <=> CommonRule(b)
    BY <1>1, <1>2, <1>4 DEF n, c, k, GoBinds, GoDto, GoDomain
  <1>7. DotNetBinds(b) /\ DotNetDto(b) /\ DotNetDomain(b) <=> CommonRule(b)
    BY <1>1, <1>2, <1>4 DEF n, c, k, DotNetBinds, DotNetDto, DotNetDomain, DotNetBill
  <1>8. JavaBinds(b) /\ JavaDto(b) /\ JavaDomain(b) <=> CommonRule(b)
    BY <1>1, <1>2, <1>4 DEF n, c, k, JavaBinds, JavaDto, JavaDomain, JavaNewBill
  <1>9. KotlinBinds(b) /\ KotlinDto(b) /\ KotlinDomain(b) <=> CommonRule(b)
    BY <1>1, <1>2, <1>4 DEF n, c, k, KotlinBinds, KotlinDto, KotlinDomain, KotlinNewBill
  <1>10. Cents(b.tax) >= 0 /\ b.tax >= 0 <=> b.tax >= 0
    BY <1>2 DEF Cents
  <1>11. NodeBinds(b) /\ NodeDto(b) /\ NodeDomain(b) <=> CommonRule(b)
    BY <1>1, <1>2, <1>4, <1>10 DEF n, c, k, NodeBinds, NodeDto, NodeDomain, NodeNewBill
  <1>12. RustBinds(b) /\ RustDto(b) /\ RustDomain(b) <=> CommonRule(b)
    BY <1>1, <1>2, <1>4 DEF n, c, k, RustBinds, RustDto, RustDomain, RustNewBill
  <1> HIDE DEF Between, Blank, CommonRule, Json
  <1>13. ASSUME NEW s \in Service PROVE Admits(s, b) <=> CommonRule(b)
    BY <1>5, <1>6, <1>7, <1>8, <1>9, <1>11, <1>12, ZenonT(40)
      DEF Service, Admits, Accepts, Domain
  <1>14. QED
    BY <1>13

\* On plain bodies the seven services admit the same ones.
THEOREM PlainBodiesAgree == BodySpec => []PlainAgreement
  <1>1. BodyTypeOK => PlainAgreement
    BY BodyRules DEF BodyTypeOK, PlainAgreement
  <1>2. QED
    BY <1>1, Typed, PTL

-----------------------------------------------------------------------------
\* What is left of the rules for a line once padding is allowed.
LEMMA LineLimits ==
  ASSUME NEW l \in LineType
  PROVE  /\ PyLineDto(l) /\ PyLineDraft(l) => CommonLine(l)
         /\ GoLine(l) => CommonLine(l)
         /\ DotNetLineDto(l) => CommonLine(l)
         /\ JavaLineDto(l) => CommonLine(l) /\ PositiveOnceStored(l)
         /\ KotlinLineDto(l) => CommonLine(l) /\ PositiveOnceStored(l)
         /\ NodeLine(l) => CommonLine(l)
         /\ RustLineDto(l) /\ RustLine(l) => CommonLine(l)
  <1>1. /\ l.concept.raw \in Nat /\ l.concept.trim \in Nat
        /\ l.concept.trim <= l.concept.raw
        /\ l.quantity \in Int /\ l.unit \in Int
    BY DEF LineType, Text
  <1>2. l.quantity >= 10 => (l.quantity + 5) \div 10 > 0
    BY <1>1
  <1>3. QED
    BY <1>1, <1>2
    DEF PyLineDto, PyLineDraft, GoLine, DotNetLineDto, JavaLineDto, KotlinLineDto,
        NodeLine, RustLineDto, RustLine, CommonLine, PositiveOnceStored, Cents,
        Between, Blank, Positive, NonNegative

\* Each service's rules imply the limits.
LEMMA BodyLimits ==
  ASSUME NEW b \in PayloadType
  PROVE  \A s \in Service : Admits(s, b) => Limits(b)
  <1> DEFINE n == b.number
             c == b.customer
             k == b.currency
  <1>1. /\ n.raw \in Nat /\ n.trim \in Nat /\ n.trim <= n.raw
        /\ c.raw \in Nat /\ c.trim \in Nat /\ c.trim <= c.raw
        /\ k.raw \in Nat /\ k.trim \in Nat /\ k.trim <= k.raw
        /\ b.tax \in Int
    BY DEF PayloadType, Text
  <1>2. \A i \in LineNos(b) : b.lines[i] \in LineType
    BY LinesOf
  <1>3. /\ EveryLine(b, PyLineDto) /\ EveryLine(b, PyLineDraft) => EveryLine(b, CommonLine)
        /\ EveryLine(b, GoLine) => EveryLine(b, CommonLine)
        /\ EveryLine(b, DotNetLineDto) => EveryLine(b, CommonLine)
        /\ EveryLine(b, JavaLineDto) => EveryLine(b, CommonLine)
        /\ EveryLine(b, KotlinLineDto) => EveryLine(b, CommonLine)
        /\ EveryLine(b, NodeLine) => EveryLine(b, CommonLine)
        /\ EveryLine(b, RustLineDto) /\ EveryLine(b, RustLine) => EveryLine(b, CommonLine)
    BY <1>2, LineLimits DEF EveryLine
  <1> HIDE DEF n, c, k
  <1> USE DEF Between, Blank, Limits
  <1>4. PyDto(b) /\ PyDomain(b) => Limits(b)
    BY <1>1, <1>3 DEF n, c, k, PyDto, PyDomain, PyNewBill
  <1>5. GoDomain(b) => Limits(b)
    BY <1>1, <1>3 DEF n, c, k, GoDomain
  <1>6. DotNetDto(b) => Limits(b)
    BY <1>1, <1>3 DEF n, c, k, DotNetDto
  <1>7. JavaDto(b) /\ JavaDomain(b) => Limits(b)
    BY <1>1, <1>3 DEF n, c, k, JavaDto, JavaDomain, JavaNewBill
  <1>8. KotlinDto(b) /\ KotlinDomain(b) => Limits(b)
    BY <1>1, <1>3 DEF n, c, k, KotlinDto, KotlinDomain, KotlinNewBill
  <1>9. NodeDomain(b) /\ b.tax >= 0 => Limits(b)
    BY <1>1, <1>3 DEF n, c, k, NodeDomain, NodeNewBill
  <1>10. RustDto(b) /\ RustDomain(b) => Limits(b)
    BY <1>1, <1>3 DEF n, c, k, RustDto, RustDomain, RustNewBill
  <1>11. NodeDto(b) => b.tax >= 0
    BY DEF NodeDto
  <1>12. QED
    BY <1>4, <1>5, <1>6, <1>7, <1>8, <1>9, <1>10, <1>11, ZenonT(40)
      DEF Service, Admits, Accepts, Domain

\* Whatever service admits a body, it keeps the limits of the others.
THEOREM LimitsAgree == BodySpec => []OneLimit
  <1>1. BodyTypeOK => OneLimit
    BY BodyLimits DEF BodyTypeOK, OneLimit
  <1>2. QED
    BY <1>1, Typed, PTL

\* The Java and Kotlin services store no quantity of 0.00.
THEOREM JvmQuantitiesPositive == BodySpec => []JvmQuantities
  <1>1. BodyTypeOK => JvmQuantities
    <2> SUFFICES ASSUME BodyTypeOK, NEW s \in {"java", "kotlin"}, Admits(s, p)
                 PROVE  EveryLine(p, PositiveOnceStored)
      BY DEF JvmQuantities, StoredQuantitiesPositive
    <2>1. EveryLine(p, JavaLineDto) \/ EveryLine(p, KotlinLineDto)
      BY DEF Admits, Accepts, JavaDto, KotlinDto
    <2>2. \A i \in LineNos(p) : p.lines[i] \in LineType
      BY LinesOf DEF BodyTypeOK
    <2>3. QED
      BY <2>1, <2>2, LineLimits DEF EveryLine
  <1>2. QED
    BY <1>1, Typed, PTL

-----------------------------------------------------------------------------
(***************************************************************************)
(* What the services compute of a body, for all amounts.                   *)
(***************************************************************************)
\* Rounding to cents moves an amount by half a cent at most.
LEMMA HalfUpCents ==
  ASSUME NEW x \in Nat
  PROVE  /\ HalfUp(x, 10) \in Nat
         /\ 10 * HalfUp(x, 10) <= x + 5 /\ x <= 10 * HalfUp(x, 10) + 5
  BY DEF HalfUp

\* The other units the services round to.
LEMMA HalfUpNat ==
  ASSUME NEW x \in Nat
  PROVE  HalfUp(x, 100) \in Nat /\ HalfUp(x, 10000) \in Nat
  BY DEF HalfUp

\* A float is rounded to a whole number of units as well.
LEMMA RoundedNat ==
  ASSUME NEW s, NEW x \in Nat
  PROVE  Rounded(s, x, 10) \subseteq Nat /\ Rounded(s, x, 100) \subseteq Nat
  <1>1. x \div 10 \in Nat /\ x \div 100 \in Nat
    OBVIOUS
  <1>2. Nearest(x, 10) \subseteq Nat /\ Nearest(x, 100) \subseteq Nat
    <2>1. \A unit : Nearest(x, unit) \subseteq {HalfUp(x, unit), x \div unit}
      BY Zenon DEF Nearest
    <2>2. HalfUp(x, 10) \in Nat /\ HalfUp(x, 100) \in Nat
      BY HalfUpCents, HalfUpNat
    <2>3. QED
      BY <1>1, <2>1, <2>2, Zenon
  <1>3. QED
    BY <1>2, HalfUpCents, HalfUpNat DEF Rounded

\* Whatever the service, the amount of a line is a number of cents.
LEMMA LineAmounts ==
  ASSUME NEW s, NEW q \in Nat, NEW u \in Nat, NEW l \in Line(s, q, u)
  PROVE  l \in Amount
  <1>1. CASE s \in {"py", "dotnet"}
    <2>1. q * u \in Nat
      OBVIOUS
    <2>2. QED
      BY <1>1, <2>1, HalfUpCents, HalfUpNat DEF Line, FullLine, Amount
  <1>2. CASE s \notin {"py", "dotnet"}
    <2>1. PICK rq \in Rounded(s, q, 10), ru \in Rounded(s, u, 10) :
            l \in LineOf(s, rq, ru, rq * ru, 100)
      BY <1>2 DEF Line, RoundedLine
    <2>2. rq \in Nat /\ ru \in Nat
      BY RoundedNat
    <2>3. Rounded(s, rq * ru, 100) \subseteq Nat
      BY <2>2, RoundedNat
    <2>4. QED
      BY <2>1, <2>2, <2>3 DEF LineOf, Amount
  <1>3. QED
    BY <1>1, <1>2

\* What the rows of a bill say, and what was told of it.
Told ==
  row # Nothing =>
    /\ TotalOf(row) \in Nat /\ told.total \in Nat
    /\ Distance(told.total, 10 * TotalOf(row)) <= IF service = "dotnet" THEN 5 ELSE 0

\* Readers report the total of the rows, once there are rows.
SeenIsTotal == \A total \in seen : row # Nothing /\ total = TotalOf(row)

TellInv == service \in Services /\ request \in Request /\ Told /\ SeenIsTotal

\* A service tells the total of the rows it stores, up to its rounding.
LEMMA CreateTells == TellInv /\ Create => TellInv'
  <1> SUFFICES ASSUME TellInv, Create PROVE TellInv'
    OBVIOUS
  <1>1. PICK l1 \in Line(service, request.quantity[1], request.unit[1]),
             l2 \in Line(service, request.quantity[2], request.unit[2]),
             tax \in Rounded(service, request.tax, 10) :
          /\ row' = Bill(<<l1, l2>>, tax)
          /\ told' = Telling(service, row', request.tax)
    BY DEF Create
  <1>2. /\ request.quantity \in [Nos -> Nat] /\ request.unit \in [Nos -> Nat]
        /\ request.tax \in Nat
    BY MoneyAssumption DEF TellInv, Request
  <1>3. l1 \in Amount /\ l2 \in Amount
    BY <1>2, LineAmounts DEF Nos
  <1>4. tax \in Nat
    BY <1>2, RoundedNat
  <1> DEFINE sum == l1.amount + l2.amount
  <1>5. sum \in Nat
    BY <1>3 DEF Amount
  <1>6. /\ row'.subtotal = sum /\ row'.tax = tax
        /\ Sum(row'.lines) = sum
    BY <1>1 DEF Bill, Sum
  <1>7. TotalOf(row') = sum + tax
    BY <1>6 DEF TotalOf
  <1>8. Told'
    <2>1. CASE service = "dotnet"
      <3>1. told'.total = 10 * sum + request.tax
        BY <1>1, <1>6, <2>1 DEF Telling
      <3>2. tax = HalfUp(request.tax, 10)
        BY <2>1 DEF Rounded
      <3>3. 10 * tax <= request.tax + 5 /\ request.tax <= 10 * tax + 5
        BY <3>2, <1>2, HalfUpCents
      <3>4. told'.total \in Nat
            /\ Distance(told'.total, 10 * (sum + tax)) <= 5
        BY <3>1, <3>3, <1>2, <1>4, <1>5 DEF Distance
      <3>5. QED
        BY <3>4, <2>1, <1>4, <1>5, <1>7 DEF Told, Create
    <2>2. CASE service # "dotnet"
      <3>1. told'.total = 10 * sum + 10 * tax
        BY <1>1, <1>6, <2>2 DEF Telling
      <3>2. told'.total \in Nat
            /\ Distance(told'.total, 10 * (sum + tax)) <= 0
        BY <3>1, <1>4, <1>5 DEF Distance
      <3>3. QED
        BY <3>2, <2>2, <1>4, <1>5, <1>7 DEF Told, Create
    <2>3. QED
      BY <2>1, <2>2
  <1>9. SeenIsTotal'
    BY DEF TellInv, SeenIsTotal, Create
  <1>10. QED
    BY <1>8, <1>9 DEF TellInv, Create

\* Nothing else touches the bill or what was told of it.
LEMMA TellStep == TellInv /\ [Next]_vars => TellInv'
  <1> SUFFICES ASSUME TellInv, [Next]_vars PROVE TellInv'
    OBVIOUS
  <1>1. CASE Create
    BY <1>1, CreateTells
  <1>2. CASE ListBills \/ ListBillsMinimal
    <2>1. UNCHANGED <<service, request, row, told>> /\ row # Nothing
          /\ seen' = seen \cup {TotalOf(row)}
      BY <1>2 DEF ListBills, ListBillsMinimal, Report
    <2>2. QED
      BY <2>1 DEF TellInv, Told, SeenIsTotal, TotalOf, Sum
  <1>3. CASE UNCHANGED vars
    BY <1>3 DEF vars, TellInv, Told, SeenIsTotal, TotalOf, Sum
  <1>4. QED
    BY <1>1, <1>2, <1>3 DEF Next

\* No reader of a bill reports another total than its client was told.
THEOREM ReadersConfirm == Spec => []TotalsAgree
  <1>1. Init => TellInv
    BY DEF Init, TellInv, Told, SeenIsTotal
  <1>2. TellInv => TotalsAgree
    BY DEF TellInv, Told, SeenIsTotal, TotalsAgree
  <1>3. QED
    BY <1>1, <1>2, TellStep, PTL DEF Spec

-----------------------------------------------------------------------------
\* Rounding leaves a number of whole cents alone, float or not.
LEMMA WholeCentsKept ==
  ASSUME NEW s, NEW x \in Nat, x % 10 = 0
  PROVE  /\ HalfUp(x, 10) \in Nat /\ 10 * HalfUp(x, 10) = x
         /\ Rounded(s, x, 10) = {HalfUp(x, 10)}
  <1>1. HalfUp(x, 10) \in Nat /\ 10 * HalfUp(x, 10) = x
    BY DEF HalfUp
  <1>2. 2 * (x - (x \div 10) * 10) # 10
    OBVIOUS
  <1>3. Nearest(x, 10) = {HalfUp(x, 10)}
    BY <1>2 DEF Nearest
  <1>4. QED
    BY <1>1, <1>3 DEF Rounded

\* Two factors in cents have their exact product in hundredths of cents.
LEMMA ProductInCents ==
  ASSUME NEW a \in Nat, NEW b \in Nat
  PROVE  /\ a * b \in Nat /\ (10 * a) * (10 * b) = 100 * (a * b)
         /\ HalfUp((10 * a) * (10 * b), 10000) = HalfUp(a * b, 100)
         /\ ((10 * a) * (10 * b)) % 10000 = 5000 <=> (a * b) % 100 = 50
  <1> DEFINE c == a * b
  <1>1. c \in Nat /\ (10 * a) * (10 * b) = 100 * c
    BY SMT
  <1> HIDE DEF c
  <1>2. (2 * (100 * c) + 10000) \div 20000 = (2 * c + 100) \div 200
    BY <1>1
  <1>3. (100 * c) % 10000 = 5000 <=> c % 100 = 50
    BY <1>1
  <1>4. HalfUp(100 * c, 10000) = HalfUp(c, 100)
    BY <1>2 DEF HalfUp
  <1>5. QED
    BY <1>1, <1>3, <1>4 DEF c

\* A rounded product is off by one at most, and only a float on a tie.
LEMMA RoundedProduct ==
  ASSUME NEW s, NEW c \in Nat, NEW a \in Rounded(s, c, 100)
  PROVE  Distance(a, HalfUp(c, 100))
           <= IF s \in {"go", "node"} /\ c % 100 = 50 THEN 1 ELSE 0
  <1>1. HalfUp(c, 100) \in Nat
    BY DEF HalfUp
  <1>2. CASE a = HalfUp(c, 100)
    BY <1>1, <1>2 DEF Distance
  <1>3. CASE a # HalfUp(c, 100)
    <2>1. s \in {"go", "node"} /\ a = c \div 100 /\ 2 * (c - a * 100) = 100
      BY <1>3 DEF Rounded, Nearest
    <2>2. c % 100 = 50 /\ HalfUp(c, 100) = a + 1 /\ a \in Nat
      BY <2>1 DEF HalfUp
    <2>3. QED
      BY <2>1, <2>2 DEF Distance
  <1>4. QED
    BY <1>2, <1>3

\* What becomes of a line in whole cents.
LEMMA LineInCents ==
  ASSUME NEW s, NEW q \in Nat, NEW u \in Nat, q % 10 = 0, u % 10 = 0,
         NEW l \in Line(s, q, u)
  PROVE  /\ 10 * l.quantity = q /\ 10 * l.unit = u
         /\ Distance(l.amount, HalfUp(q * u, 10000))
              <= IF s \in {"go", "node"} /\ (q * u) % 10000 = 5000 THEN 1 ELSE 0
  <1> DEFINE a == HalfUp(q, 10)
             b == HalfUp(u, 10)
  <1>1. /\ a \in Nat /\ 10 * a = q /\ Rounded(s, q, 10) = {a}
        /\ b \in Nat /\ 10 * b = u /\ Rounded(s, u, 10) = {b}
    BY WholeCentsKept
  <1>2. /\ a * b \in Nat /\ HalfUp(q * u, 10000) = HalfUp(a * b, 100)
        /\ (q * u) % 10000 = 5000 <=> (a * b) % 100 = 50
    BY <1>1, ProductInCents
  <1>3. HalfUp(a * b, 100) \in Nat
    BY <1>2, HalfUpNat
  <1>4. CASE s \in {"py", "dotnet"}
    <2>1. l.quantity = a /\ l.unit = b /\ l.amount = HalfUp(q * u, 10000)
      BY <1>4 DEF Line, FullLine
    <2>2. s \notin {"go", "node"}
      BY <1>4
    <2>3. QED
      BY <1>1, <1>2, <1>3, <2>1, <2>2 DEF Distance
  <1>5. CASE s \notin {"py", "dotnet"}
    <2>1. l \in LineOf(s, a, b, a * b, 100)
      BY <1>1, <1>5 DEF Line, RoundedLine
    <2>2. l.quantity = a /\ l.unit = b /\ l.amount \in Rounded(s, a * b, 100)
      BY <2>1 DEF LineOf
    <2>3. Distance(l.amount, HalfUp(a * b, 100))
            <= IF s \in {"go", "node"} /\ (a * b) % 100 = 50 THEN 1 ELSE 0
      BY <1>2, <2>2, RoundedProduct
    <2>4. QED
      BY <1>1, <1>2, <2>2, <2>3
  <1>6. QED
    BY <1>4, <1>5

AgreeInv == request \in Request /\ ServicesAgree

\* The services store the same of a line in whole cents, whatever the amounts;
\* only Go and Node may be a cent away, when the product lies halfway.
THEOREM StoredAlike == Spec => []ServicesAgree
  <1>1. Init => AgreeInv
    BY DEF Init, AgreeInv, ServicesAgree
  <1>2. AgreeInv /\ [Next]_vars => AgreeInv'
    <2> SUFFICES ASSUME AgreeInv, [Next]_vars PROVE AgreeInv'
      OBVIOUS
    <2>1. CASE Create
      <3>1. PICK l1 \in Line(service, request.quantity[1], request.unit[1]),
                 l2 \in Line(service, request.quantity[2], request.unit[2]) :
              row'.lines = <<l1, l2>>
        BY <2>1 DEF Create, Bill
      <3>2. service' = service /\ request' = request
        BY <2>1 DEF Create
      <3>3. ASSUME NEW n \in Nos, WholeCents(n)
            PROVE  LET l == <<l1, l2>>[n]
                   IN  /\ 10 * l.quantity = request.quantity[n]
                       /\ 10 * l.unit = request.unit[n]
                       /\ Distance(l.amount, Exact(n))
                            <= IF service \in {"go", "node"} /\ Halfway(n) THEN 1 ELSE 0
        <4> DEFINE qty == request.quantity[n]
                   unit == request.unit[n]
                   l == <<l1, l2>>[n]
        <4>1. qty \in Nat /\ unit \in Nat /\ qty % 10 = 0 /\ unit % 10 = 0
          BY <3>3, MoneyAssumption DEF AgreeInv, Request, WholeCents
        <4>2. l \in Line(service, qty, unit)
          BY DEF Nos
        <4> HIDE DEF qty, unit, l
        <4>3. /\ 10 * l.quantity = qty /\ 10 * l.unit = unit
              /\ Distance(l.amount, HalfUp(qty * unit, 10000))
                   <= IF service \in {"go", "node"} /\ (qty * unit) % 10000 = 5000
                      THEN 1 ELSE 0
          BY <4>1, <4>2, LineInCents
        <4>4. QED
          BY <4>3 DEF l, qty, unit, Exact, Halfway
      <3>4. QED
        BY <3>1, <3>2, <3>3 DEF AgreeInv, ServicesAgree, WholeCents, Exact, Halfway
    <2>2. CASE UNCHANGED <<service, request, row>>
      BY <2>2 DEF AgreeInv, ServicesAgree, WholeCents, Exact, Halfway
    <2>3. QED
      BY <2>1, <2>2 DEF Next, ListBills, ListBillsMinimal, Report, vars
  <1>3. AgreeInv => ServicesAgree
    BY DEF AgreeInv
  <1>4. QED
    BY <1>1, <1>2, <1>3, PTL DEF Spec
=============================================================================
