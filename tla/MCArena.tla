------------------------------ MODULE MCArena ------------------------------
(***************************************************************************)
(* Bodies for model checking.  A column of quantities holds up to 9.99, a  *)
(* column of amounts up to 99.99.                                          *)
(***************************************************************************)
EXTENDS Correctness, TLC

CONSTANTS r1, r2, n1

T(n) == [raw |-> n, trim |-> n]

MCLine(q, u) == [concept |-> T(4), quantity |-> q, unit |-> u]

Good ==
  [json |-> "complete", number |-> T(6), customer |-> T(4), currency |-> T(3),
   date |-> "valid", tax |-> 500,
   lines |-> <<MCLine(1000, 2500), MCLine(2000, 1500)>>]

BigLine == [Good EXCEPT !.lines = <<MCLine(1000, 2500), MCLine(10000, 0)>>]
BigTax == [Good EXCEPT !.tax = 100000]
PaddedNumber == [Good EXCEPT !.number = [raw |-> 8, trim |-> 6]]
NotJson == [Good EXCEPT !.json = "broken"]
BlankCustomer == [Good EXCEPT !.customer = [raw |-> 3, trim |-> 0]]

RacePayload == {Good, BigLine, BigTax, BlankCustomer, PaddedNumber}
FaultPayload == {Good, BigLine, NotJson}
BigPayload == {BigLine}

Swap == Permutations({r1, r2})

\* Nothing in a run depends on a service that no request is sent to: its
\* connection and whether it is up are left out of what tells states apart.
Busy == {serves[r] : r \in Req}

View ==
  <<storeVars, queued, requestVars, broker, pc, answer, faults,
    [s \in Busy |-> conn[s]], running \cap Busy>>
=============================================================================
