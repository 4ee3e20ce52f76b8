------------------------------ MODULE BillStore ------------------------------
(***************************************************************************)
(* The PostgreSQL database the seven services share: the tables bill and   *)
(* bill_line of db/seed.sql and the transactions writing to them.  A       *)
(* request writes in at most one transaction and inserts at most one bill, *)
(* so the request stands for the transaction and for the BIGSERIAL key of  *)
(* the bill it inserts.                                                    *)
(*                                                                         *)
(* Transactions run at READ COMMITTED: a query sees committed rows only,   *)
(* while the unique index on bill_number also sees the rows of             *)
(* transactions still open, and makes a second insert of the same number   *)
(* wait until the first transaction ends.                                  *)
(***************************************************************************)
EXTENDS Deployment

VARIABLES
  bill,      \* committed rows of table bill
  line,      \* committed rows of table bill_line
  newBill,   \* rows of bill inserted by open transactions
  newLine    \* rows of bill_line inserted by open transactions

storeVars == <<bill, line, newBill, newLine>>

Row == [id: Req, number: Number]
LineRow == [bill: Req, no: Nat]

StoreTypeOK ==
  /\ bill \subseteq Row
  /\ newBill \subseteq Row
  /\ line \subseteq LineRow
  /\ newLine \subseteq LineRow

StoreInit == bill = {} /\ line = {} /\ newBill = {} /\ newLine = {}

-----------------------------------------------------------------------------
\* What SELECT ... WHERE bill_number = n finds.
Taken(n) == \E b \in bill : b.number = n

\* An open transaction holds the index entry of n: inserting n waits.
Held(n) == \E b \in newBill : b.number = n

Stored(r) == \E b \in bill : b.id = r

InsertedLines(r) == {l.no : l \in {m \in newLine : m.bill = r}}

StoredLines(r) == {l.no : l \in {m \in line : m.bill = r}}

\* Mutant: the table without its unique index.
InsertBillUnindexed(r, n) ==
  /\ newBill' = newBill \cup {[id |-> r, number |-> n]}
  /\ UNCHANGED <<bill, line, newLine>>

InsertBill(r, n) ==
  /\ ~Taken(n) /\ ~Held(n)
  /\ newBill' = newBill \cup {[id |-> r, number |-> n]}
  /\ UNCHANGED <<bill, line, newLine>>

\* The foreign key holds because the same transaction inserted the bill.
InsertLines(r, nos) ==
  /\ newLine' = newLine \cup {[bill |-> r, no |-> i] : i \in nos}
  /\ UNCHANGED <<bill, line, newBill>>

\* The transactions of rs end; those of committed, a subset, with a COMMIT.
Settle(rs, committed) ==
  /\ bill' = bill \cup {b \in newBill : b.id \in committed}
  /\ line' = line \cup {l \in newLine : l.bill \in committed}
  /\ newBill' = {b \in newBill : b.id \notin rs}
  /\ newLine' = {l \in newLine : l.bill \notin rs}

Commit(r) == Settle({r}, {r})

Rollback(r) == Settle({r}, {})
=============================================================================
