---------------------------- MODULE BillsContract ----------------------------
(***************************************************************************)
(* What POST /bills promises, whichever service answers: a bill is stored  *)
(* whole or not at all, its number is nobody else's, its event is queued   *)
(* at most once and only after it is stored, and the answer tells the      *)
(* truth as far as it goes.  A server error promises nothing.              *)
(***************************************************************************)
EXTENDS Naturals

CONSTANTS Req, Number

VARIABLES
  number,   \* the bill number of each request
  wanted,   \* the numbers of the lines it asks for
  bill,     \* the bills stored
  line,     \* their lines
  queued,   \* how many events of each bill are queued
  answer    \* the answer to each request

promised == <<bill, line, queued, answer>>
asked == <<number, wanted>>

Failures == {"500", "503", "gone"}

Stored(r) == \E b \in bill : b.id = r

Free(n) == \A b \in bill : b.number # n

Init ==
  /\ number \in [Req -> Number]
  /\ wanted \in [Req -> SUBSET Nat]
  /\ bill = {} /\ line = {}
  /\ queued = [r \in Req |-> 0]
  /\ answer = [r \in Req |-> "none"]

-----------------------------------------------------------------------------
\* The bills of rs appear, each with all its lines.
Store(rs) ==
  /\ \A r \in rs : answer[r] = "none" /\ ~Stored(r) /\ Free(number[r])
  /\ \A r, q \in rs : number[r] = number[q] => r = q
  /\ bill' = bill \cup {[id |-> r, number |-> number[r]] : r \in rs}
  /\ line' = line \cup UNION {{[bill |-> r, no |-> i] : i \in wanted[r]} : r \in rs}

Accept(r) == Store({r}) /\ UNCHANGED <<queued, answer>>

Announce(r) ==
  /\ answer[r] = "none" /\ Stored(r) /\ queued[r] = 0
  /\ queued' = [queued EXCEPT ![r] = 1]
  /\ answer' \in {answer, [answer EXCEPT ![r] = "gone"]}
  /\ UNCHANGED <<bill, line>>

Confirm(r) ==
  /\ answer[r] = "none" /\ Stored(r)
  /\ answer' = [answer EXCEPT ![r] = "201"]
  /\ UNCHANGED <<bill, line, queued>>

Refuse(r, a) ==
  /\ answer[r] = "none" /\ ~Stored(r)
  /\ answer' = [answer EXCEPT ![r] = a]
  /\ UNCHANGED <<bill, line, queued>>

\* The requests of rs get an error, although some of them are stored.
Fail(rs, stored, a) ==
  /\ \A r \in rs : answer[r] = "none"
  /\ Store(stored)
  /\ answer' = [r \in Req |-> IF r \in rs THEN a ELSE answer[r]]
  /\ UNCHANGED queued

Next ==
  /\ \/ \E r \in Req :
          \/ Accept(r) \/ Announce(r) \/ Confirm(r)
          \/ \E a \in {"400", "409"} : Refuse(r, a)
     \/ \E rs \in SUBSET Req : \E stored \in SUBSET rs : \E a \in Failures :
          Fail(rs, stored, a)
  /\ UNCHANGED asked

Spec == Init /\ [][Next]_<<promised, asked>>
=============================================================================
