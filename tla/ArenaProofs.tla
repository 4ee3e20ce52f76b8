----------------------------- MODULE ArenaProofs -----------------------------
(***************************************************************************)
(* The invariants of Correctness hold for any number of requests, bodies,  *)
(* services and faults.  Every step of the arena is one of seven kinds of  *)
(* step, whatever the service; each kind preserves Inv.                    *)
(***************************************************************************)
EXTENDS Correctness, TLAPS

-----------------------------------------------------------------------------
\* The kinds of steps: what they do to rows, stages, answers and events.
Move(r) ==
  /\ pc[r] \in Early
  /\ \E x \in Early : pc' = [pc EXCEPT ![r] = x]
  /\ UNCHANGED <<storeVars, answer, queued>>

Insert(r) ==
  /\ pc[r] = "insert"
  /\ InsertBill(r, number[r])
  /\ pc' = [pc EXCEPT ![r] = "lines"]
  /\ UNCHANGED <<answer, queued>>

AddLines(r) ==
  /\ pc[r] = "lines"
  /\ \E nos \in SUBSET LineNos(body[r]) : \E x \in {"lines", "commit"} :
       /\ InsertLines(r, nos)
       /\ x = "commit" => InsertedLines(r) \cup nos = LineNos(body[r])
       /\ pc' = [pc EXCEPT ![r] = x]
  /\ UNCHANGED <<answer, queued>>

Store(r) ==
  /\ pc[r] = "commit"
  /\ Commit(r)
  /\ pc' = [pc EXCEPT ![r] = "publish"]
  /\ UNCHANGED <<answer, queued>>

Announce(r) ==
  /\ pc[r] = "publish"
  /\ \/ queued' = queued /\ Goto(r, "respond")
     \/ /\ queued' = [queued EXCEPT ![r] = @ + 1]
        /\ Goto(r, "respond") \/ Reply(r, "gone")
  /\ UNCHANGED storeVars

\* The requests of rs are answered; those of committed are stored.
Close(rs, committed) ==
  /\ rs \subseteq Req /\ \A r \in rs : pc[r] # "done"
  /\ committed \subseteq rs /\ \A r \in committed : pc[r] = "commit"
  /\ Settle(rs, committed)
  /\ pc' = [r \in Req |-> IF r \in rs THEN "done" ELSE pc[r]]
  /\ answer' \in [Req -> Answer]
  /\ \A r \in Req \ rs : answer'[r] = answer[r]
  /\ \A r \in rs :
       /\ answer'[r] # "none"
       /\ answer'[r] = "201" => pc[r] = "respond"
       /\ answer'[r] \in {"400", "409"} => pc[r] \in Early \cup {"lines"}
  /\ UNCHANGED queued

\* A connection is opened, and no request touched.
Idle == UNCHANGED <<storeVars, pc, answer, queued>>

\* The rest of the state: no kind of step depends on it.
Around ==
  /\ UNCHANGED requestVars
  /\ broker' \in {"up", "down"}
  /\ conn' \in [Services -> ConnState]
  /\ running' \subseteq Services
  /\ faults' \in 0..MaxFaults

OneOf(r) ==
  \/ Move(r) \/ Insert(r) \/ AddLines(r) \/ Store(r) \/ Announce(r) \/ Idle
  \/ \E committed \in SUBSET {r} : Close({r}, committed)

-----------------------------------------------------------------------------
\* Nothing is stored and nobody is answered yet.
LEMMA InitInv == Init => Inv
  <1> SUFFICES ASSUME Init PROVE Inv
    OBVIOUS
  <1> USE DEF Init, StoreInit
  <1>1. TypeOK
    BY DeploymentAssumption DEF TypeOK, StoreTypeOK, BrokerTypeOK, RequestTypeOK,
      FreshConn, ConnState, Stage, Answer
  <1>2. RowsAreOfRequests /\ UniqueNumbers
    BY DEF RowsAreOfRequests, UniqueNumbers, Rows
  <1>3. StageOfRows /\ StageOfLines /\ WholeBills
    BY DEF StageOfRows, StageOfLines, WholeBills, Open, Stored, StoredLines, InsertedLines
  <1>4. StageOfEvents /\ EventHasBill /\ AnswerMeansEffect
    BY DEF StageOfEvents, EventHasBill, AnswerMeansEffect
  <1>5. QED
    BY <1>1, <1>2, <1>3, <1>4 DEF Inv

-----------------------------------------------------------------------------
\* What inserting lines does to the uncommitted lines of each request.
LEMMA AddedLines ==
  ASSUME NEW r \in Req, NEW nos, InsertLines(r, nos)
  PROVE  /\ InsertedLines(r)' = InsertedLines(r) \cup nos
         /\ \A q \in Req \ {r} : InsertedLines(q)' = InsertedLines(q)
  <1> DEFINE new == {[bill |-> r, no |-> i] : i \in nos}
  <1>1. newLine' = newLine \cup new
    BY DEF InsertLines
  <1>2. \A l \in new : l.bill = r /\ l.no \in nos
    OBVIOUS
  <1>3. ASSUME NEW i \in nos PROVE \E l \in new : l.bill = r /\ l.no = i
    <2> WITNESS [bill |-> r, no |-> i] \in new
    <2> QED OBVIOUS
  <1> HIDE DEF new
  <1>4. InsertedLines(r)' = InsertedLines(r) \cup nos
    BY <1>1, <1>2, <1>3 DEF InsertedLines
  <1>5. \A q \in Req \ {r} : InsertedLines(q)' = InsertedLines(q)
    BY <1>1, <1>2 DEF InsertedLines
  <1>6. QED
    BY <1>4, <1>5

-----------------------------------------------------------------------------
\* Each kind of step preserves the invariant.
LEMMA MoveInv ==
  ASSUME Inv, Around, NEW r \in Req, Move(r)
  PROVE  Inv'
  <1> USE DEF Inv, Around, Move, requestVars, storeVars
  <1>1. TypeOK'
    BY DEF TypeOK, StoreTypeOK, BrokerTypeOK, RequestTypeOK, Early, Stage
  <1>2. (RowsAreOfRequests /\ UniqueNumbers)'
    BY DEF RowsAreOfRequests, UniqueNumbers, Rows
  <1>3. (StageOfRows /\ StageOfLines /\ WholeBills)'
    <2>1. \A q \in Req : /\ Stored(q)' = Stored(q) /\ Open(q)' = Open(q)
                         /\ StoredLines(q)' = StoredLines(q)
                         /\ InsertedLines(q)' = InsertedLines(q)
      BY DEF Open, Stored, StoredLines, InsertedLines
    <2>2. \A q \in Req : pc'[q] = pc[q] \/ {pc[q], pc'[q]} \subseteq Early
      BY DEF TypeOK, RequestTypeOK
    <2>3. QED
      BY <2>1, <2>2 DEF StageOfRows, StageOfLines, WholeBills, LineNos, Early
  <1>4. (StageOfEvents /\ EventHasBill /\ AnswerMeansEffect)'
    BY DEF TypeOK, RequestTypeOK, StageOfEvents, EventHasBill, AnswerMeansEffect,
      Stored, Early
  <1>5. QED
    BY <1>1, <1>2, <1>3, <1>4

\* A handler inserts its bill, whose number no row has.
LEMMA InsertInv ==
  ASSUME Inv, Around, NEW r \in Req, Insert(r)
  PROVE  Inv'
  <1> USE DEF Inv, Around, Insert, InsertBill, requestVars
  <1>1. TypeOK'
    BY DEF TypeOK, StoreTypeOK, BrokerTypeOK, RequestTypeOK, Row, Stage
  <1>2. (RowsAreOfRequests /\ UniqueNumbers)'
    BY DEF RowsAreOfRequests, UniqueNumbers, Rows, Taken, Held
  <1>3. StageOfRows'
    <2>1. /\ \A q \in Req : Stored(q)' = Stored(q)
          /\ \A q \in Req \ {r} : pc'[q] = pc[q]
      BY DEF TypeOK, RequestTypeOK, Stored
    <2> DEFINE row == [id |-> r, number |-> number[r]]
    <2>2. row.id = r /\ newBill' = newBill \cup {row}
      OBVIOUS
    <2> HIDE DEF row
    <2>3. /\ pc'[r] = "lines" /\ Open(r)'
          /\ \A q \in Req \ {r} : Open(q)' <=> Open(q)
      BY <2>2 DEF TypeOK, RequestTypeOK, Open
    <2>4. StageOfRows /\ pc[r] = "insert"
      OBVIOUS
    <2> HIDE DEF Inv, Around, Insert, InsertBill
    <2>5. QED
      BY <2>1, <2>3, <2>4 DEF StageOfRows
  <1>4. (StageOfLines /\ WholeBills)'
    <2>1. \A q \in Req : /\ Stored(q)' = Stored(q)
                         /\ StoredLines(q)' = StoredLines(q)
                         /\ InsertedLines(q)' = InsertedLines(q)
      BY DEF Stored, StoredLines, InsertedLines
    <2>2. pc[r] = "insert" /\ pc'[r] = "lines" /\ \A q \in Req \ {r} : pc'[q] = pc[q]
      BY DEF TypeOK, RequestTypeOK
    <2>3. StageOfLines'
      BY <2>1, <2>2 DEF StageOfLines, LineNos
    <2>4. QED
      BY <2>1, <2>3 DEF WholeBills, LineNos
  <1>5. (StageOfEvents /\ EventHasBill /\ AnswerMeansEffect)'
    BY DEF TypeOK, RequestTypeOK, BrokerTypeOK, StageOfEvents, EventHasBill,
      AnswerMeansEffect, Stored
  <1>6. QED
    BY <1>1, <1>2, <1>3, <1>4, <1>5

\* A handler inserts some of the lines of its bill, or the last of them.
LEMMA AddLinesInv ==
  ASSUME Inv, Around, NEW r \in Req, AddLines(r)
  PROVE  Inv'
  <1> USE DEF Inv, Around, AddLines, InsertLines, requestVars
  <1>1. TypeOK'
    BY DEF TypeOK, StoreTypeOK, BrokerTypeOK, RequestTypeOK, LineRow, LineNos, Stage
  <1>2. (RowsAreOfRequests /\ UniqueNumbers)'
    BY DEF RowsAreOfRequests, UniqueNumbers, Rows
  <1>3. StageOfRows'
    <2>1. \A q \in Req : Stored(q)' = Stored(q) /\ Open(q)' = Open(q)
      BY DEF Open, Stored
    <2>2. \A q \in Req : pc'[q] = pc[q] \/ {pc[q], pc'[q]} \subseteq {"lines", "commit"}
      BY DEF TypeOK, RequestTypeOK
    <2>3. QED
      BY <2>1, <2>2 DEF StageOfRows
  <1>4. StageOfLines'
    <2> PICK nos \in SUBSET LineNos(body[r]), x \in {"lines", "commit"} :
               /\ InsertLines(r, nos)
               /\ x = "commit" => InsertedLines(r) \cup nos = LineNos(body[r])
               /\ pc' = [pc EXCEPT ![r] = x]
      OBVIOUS
    <2>1. InsertedLines(r)' = InsertedLines(r) \cup nos
      BY AddedLines
    <2>2. \A q \in Req \ {r} : /\ InsertedLines(q)' = InsertedLines(q)
                               /\ pc'[q] = pc[q]
      BY AddedLines DEF TypeOK, RequestTypeOK
    <2>3. pc'[r] = x
      BY DEF TypeOK, RequestTypeOK
    <2>4. QED
      BY <2>1, <2>2, <2>3 DEF StageOfLines, LineNos
  <1>5. WholeBills'
    BY DEF WholeBills, Stored, StoredLines
  <1>6. (StageOfEvents /\ EventHasBill /\ AnswerMeansEffect)'
    BY DEF TypeOK, RequestTypeOK, BrokerTypeOK, StageOfEvents, EventHasBill,
      AnswerMeansEffect, Stored
  <1>7. QED
    BY <1>1, <1>2, <1>3, <1>4, <1>5, <1>6

\* What a COMMIT or a ROLLBACK does to the rows and lines of each request.
LEMMA Settled ==
  ASSUME NEW rs, NEW committed \in SUBSET rs, Settle(rs, committed)
  PROVE  /\ \A q \in Req : Stored(q)' <=> Stored(q) \/ (q \in committed /\ Open(q))
         /\ \A q \in Req : Open(q)' <=> Open(q) /\ q \notin rs
         /\ \A q \in Req : InsertedLines(q)' = IF q \in rs THEN {} ELSE InsertedLines(q)
         /\ \A q \in Req \ committed : StoredLines(q)' = StoredLines(q)
         /\ \A q \in Req \cap committed :
              StoredLines(q)' = StoredLines(q) \cup InsertedLines(q)
  <1> USE DEF Settle
  <1>1. \A q \in Req : Stored(q)' <=> Stored(q) \/ (q \in committed /\ Open(q))
    BY DEF Stored, Open
  <1>2. \A q \in Req : Open(q)' <=> Open(q) /\ q \notin rs
    BY DEF Open
  <1>3. ASSUME NEW q \in Req
        PROVE  InsertedLines(q)' = IF q \in rs THEN {} ELSE InsertedLines(q)
    BY DEF InsertedLines
  <1>4. \A q \in Req \ committed : StoredLines(q)' = StoredLines(q)
    BY DEF StoredLines
  <1>5. ASSUME NEW q \in Req \cap committed
        PROVE  StoredLines(q)' = StoredLines(q) \cup InsertedLines(q)
    BY DEF InsertedLines, StoredLines
  <1>6. QED
    BY <1>1, <1>2, <1>3, <1>4, <1>5

\* Settling leaves every row where it was, turns it into a stored one or drops it.
LEMMA SettledRows ==
  ASSUME StoreTypeOK, RowsAreOfRequests, UniqueNumbers, UNCHANGED number,
         NEW rs, NEW committed \in SUBSET rs, Settle(rs, committed)
  PROVE  (StoreTypeOK /\ RowsAreOfRequests /\ UniqueNumbers)'
  <1>1. Rows' \subseteq Rows
    BY DEF Settle, Rows
  <1>2. (RowsAreOfRequests /\ UniqueNumbers)'
    BY <1>1 DEF RowsAreOfRequests, UniqueNumbers
  <1>3. StoreTypeOK'
    BY DEF StoreTypeOK, Settle
  <1>4. QED
    BY <1>2, <1>3

\* A handler commits.
LEMMA StoreInv ==
  ASSUME Inv, Around, NEW r \in Req, Store(r)
  PROVE  Inv'
  <1> USE DEF Inv, Around, Store, requestVars, Commit
  <1>0. Settle({r}, {r})
    OBVIOUS
  <1>1. (StoreTypeOK /\ RowsAreOfRequests /\ UniqueNumbers)'
    BY <1>0, SettledRows DEF TypeOK
  <1>2. TypeOK'
    BY <1>1 DEF TypeOK, BrokerTypeOK, RequestTypeOK, Stage
  <1>3. pc[r] = "commit" /\ pc'[r] = "publish" /\ \A q \in Req \ {r} : pc'[q] = pc[q]
    BY DEF TypeOK, RequestTypeOK
  <1>4. (StageOfRows /\ StageOfLines /\ WholeBills)'
    <2>1. /\ \A q \in Req : /\ Stored(q)' <=> Stored(q) \/ q = r
                            /\ Open(q)' <=> Open(q) /\ q # r
          /\ \A q \in Req : InsertedLines(q)' = IF q = r THEN {} ELSE InsertedLines(q)
          /\ \A q \in Req \ {r} : StoredLines(q)' = StoredLines(q)
          /\ StoredLines(r)' = LineNos(body[r])
      <3>1. \A q \in Req \ {r} : StoredLines(q)' = StoredLines(q)
        BY <1>0, Settled
      <3>2. StoredLines(r) = {} /\ InsertedLines(r) = LineNos(body[r])
        BY <1>3 DEF StageOfRows, StageOfLines, WholeBills
      <3>3. StoredLines(r)' = LineNos(body[r])
        BY <1>0, <3>2, Settled, SMTT(30)
      <3>4. QED
        BY <1>0, <1>3, <3>1, <3>3, Settled DEF StageOfRows
    <2>2. StageOfRows /\ StageOfLines /\ WholeBills /\ UNCHANGED body
      OBVIOUS
    <2> HIDE DEF Inv, Around, Store, Commit
    <2>3. StageOfRows'
      BY <1>3, <2>1, <2>2 DEF StageOfRows
    <2>4. (StageOfLines /\ WholeBills)'
      BY <1>3, <2>1, <2>2 DEF StageOfLines, WholeBills, LineNos
    <2>5. QED
      BY <2>3, <2>4
  <1>5. (StageOfEvents /\ EventHasBill /\ AnswerMeansEffect)'
    BY <1>0, <1>3, Settled DEF TypeOK, RequestTypeOK, StageOfEvents, EventHasBill,
      AnswerMeansEffect
  <1>6. QED
    BY <1>1, <1>2, <1>4, <1>5

\* The event of a stored bill is queued or lost, and the client told or gone.
LEMMA AnnounceInv ==
  ASSUME Inv, Around, NEW r \in Req, Announce(r)
  PROVE  Inv'
  <1> USE DEF Inv, Around, Announce, requestVars, storeVars, Goto, Reply
  <1>1. TypeOK'
    BY DEF TypeOK, StoreTypeOK, BrokerTypeOK, RequestTypeOK, Stage, Answer, Failures
  <1>2. (RowsAreOfRequests /\ UniqueNumbers)'
    BY DEF RowsAreOfRequests, UniqueNumbers, Rows
  <1>3. \A q \in Req : /\ Stored(q)' = Stored(q) /\ Open(q)' = Open(q)
                       /\ StoredLines(q)' = StoredLines(q)
                       /\ InsertedLines(q)' = InsertedLines(q)
    BY DEF Open, Stored, StoredLines, InsertedLines
  <1>4. /\ pc[r] = "publish" /\ pc'[r] \in {"respond", "done"}
        /\ \A q \in Req \ {r} : pc'[q] = pc[q]
    BY DEF TypeOK, RequestTypeOK
  <1>5. (StageOfRows /\ StageOfLines /\ WholeBills)'
    BY <1>3, <1>4 DEF StageOfRows, StageOfLines, WholeBills, LineNos
  <1>6. Stored(r) /\ queued[r] = 0
    BY DEF StageOfRows, StageOfEvents, EventHasBill, TypeOK, BrokerTypeOK
  <1>7. (StageOfEvents /\ EventHasBill)'
    BY <1>3, <1>4, <1>6 DEF TypeOK, BrokerTypeOK, StageOfEvents, EventHasBill
  <1>8. AnswerMeansEffect'
    BY <1>3, <1>4, <1>6 DEF TypeOK, RequestTypeOK, BrokerTypeOK, AnswerMeansEffect
  <1>9. QED
    BY <1>1, <1>2, <1>5, <1>7, <1>8

\* Handlers end with an answer; some of them commit as they do.
LEMMA CloseInv ==
  ASSUME Inv, Around, NEW rs, NEW committed, Close(rs, committed)
  PROVE  Inv'
  <1> USE DEF Inv, Around, Close, requestVars
  <1>1. (StoreTypeOK /\ RowsAreOfRequests /\ UniqueNumbers)'
    BY SettledRows DEF TypeOK
  <1>2. TypeOK'
    BY <1>1 DEF TypeOK, BrokerTypeOK, RequestTypeOK, Stage
  <1>3. (StageOfRows /\ StageOfLines /\ WholeBills)'
    <2>1. \A q \in Req : pc'[q] = IF q \in rs THEN "done" ELSE pc[q]
      OBVIOUS
    <2>2. \A q \in committed : q \in Req /\ q \in rs /\ pc[q] = "commit"
      OBVIOUS
    <2>3. \A q \in rs : pc[q] # "done"
      OBVIOUS
    <2>4. /\ StageOfRows /\ StageOfLines /\ WholeBills /\ UNCHANGED body
          /\ Settle(rs, committed) /\ committed \in SUBSET rs
      OBVIOUS
    <2> HIDE DEF Inv, Around, Close
    <2>5. StageOfRows'
      BY <2>1, <2>2, <2>4, Settled DEF StageOfRows
    <2>6. StageOfLines'
      BY <2>1, <2>4, Settled DEF StageOfLines, LineNos
    <2>7. WholeBills'
      <3>1. \A q \in Req : StoredLines(q)' = IF q \in committed THEN LineNos(body[q])
                                              ELSE StoredLines(q)
        <4>1. \A q \in Req \ committed : StoredLines(q)' = StoredLines(q)
          BY <2>4, Settled
        <4>2. \A q \in committed :
                StoredLines(q) = {} /\ InsertedLines(q) = LineNos(body[q])
          BY <2>2, <2>4 DEF StageOfRows, StageOfLines, WholeBills
        <4>3. \A q \in committed : StoredLines(q)' = LineNos(body[q])
          BY <2>2, <2>4, <4>2, Settled
        <4>4. QED
          BY <4>1, <4>3
      <3>2. \A q \in Req : Stored(q)' <=> Stored(q) \/ q \in committed
        BY <2>2, <2>4, Settled DEF StageOfRows
      <3>3. QED
        BY <2>4, <3>1, <3>2 DEF WholeBills, LineNos
    <2>8. QED
      BY <2>5, <2>6, <2>7
  <1>4. (StageOfEvents /\ EventHasBill)'
    BY Settled DEF TypeOK, BrokerTypeOK, StageOfEvents, EventHasBill
  <1>5. AnswerMeansEffect'
    BY Settled DEF TypeOK, RequestTypeOK, BrokerTypeOK, StageOfRows, StageOfEvents,
      EventHasBill, AnswerMeansEffect, Early
  <1>6. QED
    BY <1>1, <1>2, <1>3, <1>4, <1>5

-----------------------------------------------------------------------------
\* The shared steps of Handling are of these kinds.
Kind(r) == OneOf(r) /\ conn' \in [Services -> ConnState]

\* Ending a transaction that has no rows changes nothing.
LEMMA NothingToSettle ==
  ASSUME Inv, NEW r \in Req, pc[r] \notin {"lines", "commit"}, UNCHANGED storeVars
  PROVE  Settle({r}, {})
  <1>1. \A b \in newBill : b.id # r
    BY DEF Inv, StageOfRows, Open
  <1>2. \A l \in newLine : l.bill # r
    <2>1. InsertedLines(r) = {}
      BY DEF Inv, StageOfLines
    <2>2. QED
      BY <2>1 DEF InsertedLines
  <1>3. /\ newBill = {b \in newBill : b.id \notin {r}}
        /\ newLine = {l \in newLine : l.bill \notin {r}}
    BY <1>1, <1>2
  <1>4. /\ bill = bill \cup {b \in newBill : b.id \in {}}
        /\ line = line \cup {l \in newLine : l.bill \in {}}
    OBVIOUS
  <1>5. QED
    BY <1>3, <1>4 DEF Settle, storeVars

\* An answer closes its request.
LEMMA ReplyCloses ==
  ASSUME Inv, NEW r \in Req, NEW a \in Answer \ {"none"}, Reply(r, a),
         NEW committed \in SUBSET {r}, Settle({r}, committed),
         committed # {} => pc[r] = "commit",
         pc[r] # "done", UNCHANGED queued,
         a = "201" => pc[r] = "respond",
         a \in {"400", "409"} => pc[r] \in Early \cup {"lines"}
  PROVE  OneOf(r)
  <1>1. pc' = [q \in Req |-> IF q \in {r} THEN "done" ELSE pc[q]]
    BY DEF Inv, TypeOK, RequestTypeOK, Reply
  <1>2. /\ answer' \in [Req -> Answer] /\ answer'[r] = a
        /\ \A q \in Req \ {r} : answer'[q] = answer[q]
    BY DEF Inv, TypeOK, RequestTypeOK, Reply
  <1>3. Close({r}, committed)
    BY <1>1, <1>2 DEF Close
  <1>4. QED
    BY <1>3 DEF OneOf

\* A handler without rows goes on or gives up.
LEMMA MoveOrRefuse ==
  ASSUME Inv, NEW r \in Req, pc[r] \in Early, UNCHANGED <<storeVars, queued>>,
         \/ \E x \in Early : Goto(r, x)
         \/ \E a \in {"400", "409", "500"} : Reply(r, a)
  PROVE  OneOf(r)
  <1>1. CASE \E x \in Early : Goto(r, x)
    BY <1>1 DEF OneOf, Move, Goto
  <1>2. CASE \E a \in {"400", "409", "500"} : Reply(r, a)
    <2>1. PICK a \in {"400", "409", "500"} : Reply(r, a)
      BY <1>2
    <2>2. Settle({r}, {})
      BY NothingToSettle DEF Early
    <2>3. QED
      BY <2>1, <2>2, ReplyCloses DEF Answer, Failures, Early
  <1>3. QED
    BY <1>1, <1>2

\* Before the first INSERT a handler goes on or gives up.
LEMMA QuietKind ==
  ASSUME Inv, NEW r \in Req, pc[r] \in Early,
         UNCHANGED <<storeVars, linkVars>>,
         \/ \E x \in Early : Goto(r, x)
         \/ \E a \in {"400", "409", "500"} : Reply(r, a)
  PROVE  Kind(r)
  BY MoveOrRefuse DEF Kind, Inv, TypeOK, BrokerTypeOK, linkVars

\* An error answer after a rollback closes the request.
LEMMA RolledBack ==
  ASSUME Inv, NEW r \in Req, pc[r] \notin {"new", "done"}, Rollback(r), UNCHANGED linkVars,
         NEW a \in {"400", "409", "500", "503", "gone"}, Reply(r, a),
         a \in {"400", "409"} => pc[r] \in Early \cup {"lines"}
  PROVE  Kind(r)
  <1>1. OneOf(r)
    BY ReplyCloses DEF Answer, Failures, Rollback, linkVars
  <1>2. QED
    BY <1>1 DEF Kind, Inv, TypeOK, BrokerTypeOK, linkVars

\* The INSERT of a bill inserts it or closes its request.
LEMMA InsertBillKind ==
  ASSUME Inv, NEW r \in Req, pc[r] = "insert",
         NEW conflict \in {"409", "500"}, NEW misfit \in {"409", "500"},
         TryInsertBill(r, conflict, misfit)
  PROVE  Kind(r)
  <1>1. CASE InsertBill(r, number[r]) /\ Goto(r, "lines")
    BY <1>1 DEF TryInsertBill, Kind, OneOf, Insert, Goto, Inv, TypeOK, BrokerTypeOK,
      linkVars
  <1>2. CASE Rollback(r) /\ Reply(r, conflict)
    BY <1>2, RolledBack DEF TryInsertBill, Early
  <1>3. CASE Rollback(r) /\ Reply(r, misfit)
    BY <1>3, RolledBack DEF TryInsertBill, Early
  <1>4. QED
    BY <1>1, <1>2, <1>3 DEF TryInsertBill

\* A statement that inserts lines is one of the steps that add lines.
LEMMA AddLinesKind ==
  ASSUME Inv, NEW r \in Req, pc[r] = "lines", UNCHANGED linkVars,
         NEW nos \in SUBSET LineNos(body[r]), NEW x \in {"lines", "commit"},
         InsertLines(r, nos), Goto(r, x),
         x = "commit" => InsertedLines(r) \cup nos = LineNos(body[r])
  PROVE  Kind(r)
  <1>1. AddLines(r)
    BY DEF AddLines, Goto, linkVars
  <1>2. QED
    BY <1>1 DEF Kind, OneOf, Inv, TypeOK, BrokerTypeOK, linkVars

\* The one statement for all lines adds them or closes the request.
LEMMA InsertLinesKind ==
  ASSUME Inv, NEW r \in Req, pc[r] = "lines", NEW misfit \in {"409", "500"},
         TryInsertLines(r, misfit)
  PROVE  Kind(r)
  <1>1. CASE InsertLines(r, LineNos(body[r])) /\ Goto(r, "commit")
    <2>1. InsertedLines(r) \cup LineNos(body[r]) = LineNos(body[r])
      BY DEF Inv, StageOfLines
    <2>2. QED
      BY <1>1, <2>1, AddLinesKind DEF TryInsertLines
  <1>2. CASE Rollback(r) /\ Reply(r, misfit)
    BY <1>2, RolledBack DEF TryInsertLines
  <1>3. QED
    BY <1>1, <1>2 DEF TryInsertLines

\* The statement for one line adds it or closes the request.
LEMMA NextLineKind ==
  ASSUME Inv, NEW r \in Req, pc[r] = "lines", NEW misfit \in {"409", "500"},
         TryInsertNextLine(r, misfit)
  PROVE  Kind(r)
  <1> DEFINE todo == LineNos(body[r]) \ InsertedLines(r)
  <1>1. PICK i \in todo :
          /\ \/ /\ InsertLines(r, {i})
                /\ Goto(r, IF todo = {i} THEN "commit" ELSE "lines")
             \/ Rollback(r) /\ Reply(r, misfit)
          /\ UNCHANGED linkVars
    BY DEF TryInsertNextLine
  <1>2. CASE Rollback(r) /\ Reply(r, misfit)
    BY <1>1, <1>2, RolledBack
  <1>3. CASE InsertLines(r, {i}) /\ Goto(r, IF todo = {i} THEN "commit" ELSE "lines")
    <2>1. todo = {i} => InsertedLines(r) \cup {i} = LineNos(body[r])
      BY DEF Inv, StageOfLines
    <2>2. {i} \in SUBSET LineNos(body[r])
      OBVIOUS
    <2> HIDE DEF todo
    <2>3. CASE todo = {i}
      BY <1>1, <1>3, <2>1, <2>2, <2>3, AddLinesKind
    <2>4. CASE todo # {i}
      BY <1>1, <1>3, <2>2, <2>4, AddLinesKind
    <2>5. QED
      BY <2>3, <2>4
  <1>4. QED
    BY <1>1, <1>2, <1>3

\* A COMMIT stores the bill.
LEMMA CommitKind ==
  ASSUME Inv, NEW r \in Req, pc[r] = "commit", TryCommit(r)
  PROVE  Kind(r)
  BY DEF TryCommit, Kind, OneOf, Store, Goto, Inv, TypeOK, BrokerTypeOK, linkVars

\* A publish that returns announces the bill or loses its event.
LEMMA SentKind ==
  ASSUME Inv, NEW r \in Req, pc[r] = "publish", NEW s, NEW c \in ConnState,
         Sent(s, r, c) \/ SentNowhere(s, r, c)
  PROVE  Kind(r)
  <1>1. Announce(r)
    BY DEF Announce, Sent, SentNowhere, Deliver, Lose
  <1>2. conn' \in [Services -> ConnState]
    BY DEF Inv, TypeOK, BrokerTypeOK, Sent, SentNowhere, Deliver, Lose
  <1>3. QED
    BY <1>1, <1>2 DEF Kind, OneOf

\* A publish that raises closes the request.
LEMMA UnsentKind ==
  ASSUME Inv, NEW r \in Req, pc[r] \in {"publish", "respond"}, NEW s, NEW c \in ConnState,
         NEW as \in SUBSET Failures, Unsent(s, r, c, as)
  PROVE  Kind(r)
  <1>1. PICK a \in as : Reply(r, a)
    BY DEF Unsent, ReplyOneOf
  <1>2. Settle({r}, {})
    BY NothingToSettle DEF Unsent
  <1>3. OneOf(r)
    BY <1>1, <1>2, ReplyCloses DEF Answer, Failures, Unsent, Lose
  <1>4. conn' \in [Services -> ConnState]
    BY DEF Inv, TypeOK, BrokerTypeOK, Unsent, Lose
  <1>5. QED
    BY <1>3, <1>4 DEF Kind

\* A publisher that connects changes nothing else.
LEMMA ConnectingKind ==
  ASSUME Inv, NEW r \in Req, pc[r] = "publish", NEW s, Reconnected(s)
  PROVE  Kind(r)
  <1>1. "open" \in ConnState
    BY DEF ConnState
  <1>2. QED
    BY <1>1 DEF Reconnected, Lose, Kind, OneOf, Idle, Inv, TypeOK, BrokerTypeOK

\* The publisher that connects again when it has to, then announces, loses or closes.
LEMMA ReconnectingKind ==
  ASSUME Inv, NEW r \in Req, pc[r] = "publish", NEW s \in Services,
         NEW refused \in SUBSET Failures, NEW broken \in SUBSET Failures,
         PublishReconnecting(s, r, refused, broken)
  PROVE  Kind(r)
  <1>1. {"open", "closed", "stale", conn[s]} \subseteq ConnState
    BY DEF Inv, TypeOK, BrokerTypeOK, ConnState
  <1>2. CASE Reconnected(s)
    BY <1>2, ConnectingKind
  <1>3. QED
    BY <1>1, <1>2, SentKind, UnsentKind DEF PublishReconnecting

\* The last answer closes a request whose bill is stored.
LEMMA RespondKind ==
  ASSUME Inv, NEW r \in Req, pc[r] = "respond", Respond(r)
  PROVE  Kind(r)
  <1>1. Settle({r}, {})
    BY NothingToSettle DEF Respond
  <1>2. OneOf(r)
    BY <1>1, ReplyCloses DEF Respond, Answer, Failures, linkVars
  <1>3. QED
    BY <1>2 DEF Kind, Respond, Inv, TypeOK, BrokerTypeOK, linkVars

\* A broken database call closes the request, its bill stored or not.
LEMMA DbBreaksKind ==
  ASSUME Inv, NEW r \in Req, NEW as \in SUBSET Failures, DbBreaks(r, as)
  PROVE  Kind(r)
  <1>1. PICK a \in as : Reply(r, a)
    BY DEF DbBreaks, ReplyOneOf
  <1>2. CASE pc[r] \in DbStages /\ Rollback(r)
    BY <1>1, <1>2, RolledBack DEF DbBreaks, DbStages, Failures
  <1>3. CASE pc[r] = "commit" /\ Commit(r)
    <2>1. Settle({r}, {r}) /\ UNCHANGED queued
      BY <1>3 DEF Commit, DbBreaks, linkVars
    <2>2. OneOf(r)
      BY <1>1, <1>3, <2>1, ReplyCloses DEF Answer, Failures
    <2>3. QED
      BY <2>2 DEF Kind, DbBreaks, Inv, TypeOK, BrokerTypeOK, linkVars
  <1>4. QED
    BY <1>2, <1>3 DEF DbBreaks

-----------------------------------------------------------------------------
\* Every step of a handler is of one of the kinds, service by service.
LEMMA PyKind ==
  ASSUME Inv, NEW r \in Req, PyStep(r)
  PROVE  Kind(r)
  <1> USE DEF At
  <1>1. CASE PyReceive(r)
    BY <1>1, QuietKind DEF PyReceive, Filter, Early
  <1>2. CASE PyExists(r)
    BY <1>2, QuietKind DEF PyExists, LookUp, Early
  <1>3. CASE PyInsertBill(r)
    BY <1>3, InsertBillKind DEF PyInsertBill
  <1>4. CASE PyInsertLines(r)
    BY <1>4, InsertLinesKind DEF PyInsertLines
  <1>5. CASE PyCommit(r)
    BY <1>5, CommitKind DEF PyCommit
  <1>6. CASE PyPublish(r)
    BY <1>6, ReconnectingKind
      DEF PyPublish, Failures, Inv, TypeOK, RequestTypeOK
  <1>7. CASE PyRespond(r)
    BY <1>7, RespondKind DEF PyRespond
  <1>8. QED
    BY <1>1, <1>2, <1>3, <1>4, <1>5, <1>6, <1>7 DEF PyStep

\* The Go handler.
LEMMA GoKind ==
  ASSUME Inv, NEW r \in Req, GoStep(r)
  PROVE  Kind(r)
  <1> USE DEF At
  <1>1. CASE GoReceive(r)
    BY <1>1, QuietKind DEF GoReceive, Filter, Early
  <1>2. CASE GoExists(r)
    BY <1>2, QuietKind DEF GoExists, LookUp, Early
  <1>3. CASE GoInsertBill(r)
    BY <1>3, InsertBillKind DEF GoInsertBill
  <1>4. CASE GoInsertLines(r)
    BY <1>4, InsertLinesKind DEF GoInsertLines
  <1>5. CASE GoCommit(r)
    BY <1>5, CommitKind DEF GoCommit
  <1>6. CASE GoPublish(r)
    BY <1>6, ReconnectingKind
      DEF GoPublish, Failures, Inv, TypeOK, RequestTypeOK
  <1>7. CASE GoRespond(r)
    BY <1>7, RespondKind DEF GoRespond
  <1>8. QED
    BY <1>1, <1>2, <1>3, <1>4, <1>5, <1>6, <1>7 DEF GoStep

\* The .NET handler.
LEMMA DotNetKind ==
  ASSUME Inv, NEW r \in Req, DotNetStep(r)
  PROVE  Kind(r)
  <1> USE DEF At
  <1>1. CASE DotNetReceive(r)
    BY <1>1, QuietKind DEF DotNetReceive, Filter, Early
  <1>2. CASE DotNetResolve(r)
    <2>1. OneOf(r)
      BY <1>2, MoveOrRefuse DEF DotNetResolve, Early, Lose, linkVars
    <2>2. conn' \in [Services -> ConnState]
      BY <1>2 DEF DotNetResolve, Lose, linkVars, Inv, TypeOK, BrokerTypeOK, ConnState
    <2>3. QED
      BY <2>1, <2>2 DEF Kind
  <1>3. CASE DotNetExists(r)
    BY <1>3, QuietKind DEF DotNetExists, LookUp, Early
  <1>4. CASE DotNetInsertBill(r)
    BY <1>4, InsertBillKind DEF DotNetInsertBill
  <1>5. CASE DotNetInsertLines(r)
    BY <1>5, InsertLinesKind DEF DotNetInsertLines
  <1>6. CASE DotNetCommit(r)
    BY <1>6, CommitKind DEF DotNetCommit
  <1>7. CASE DotNetPublish(r)
    BY <1>7, ReconnectingKind
      DEF DotNetPublish, Failures, Inv, TypeOK, RequestTypeOK
  <1>8. CASE DotNetRespond(r)
    BY <1>8, RespondKind DEF DotNetRespond
  <1>9. QED
    BY <1>1, <1>2, <1>3, <1>4, <1>5, <1>6, <1>7, <1>8 DEF DotNetStep

\* The Java handler.
LEMMA JavaKind ==
  ASSUME Inv, NEW r \in Req, JavaStep(r)
  PROVE  Kind(r)
  <1> USE DEF At
  <1>1. CASE JavaReceive(r)
    BY <1>1, QuietKind DEF JavaReceive, Filter, Early
  <1>2. CASE JavaExists(r)
    BY <1>2, QuietKind DEF JavaExists, LookUp, Early
  <1>3. CASE JavaInsertBill(r)
    BY <1>3, InsertBillKind DEF JavaInsertBill
  <1>4. CASE JavaInsertLines(r)
    BY <1>4, NextLineKind DEF JavaInsertLines
  <1>5. CASE JavaCommit(r)
    BY <1>5, CommitKind DEF JavaCommit
  <1>6. CASE JavaPublish(r)
    BY <1>6, ReconnectingKind
      DEF JavaPublish, Failures, Inv, TypeOK, RequestTypeOK
  <1>7. CASE JavaRespond(r)
    BY <1>7, RespondKind DEF JavaRespond
  <1>8. QED
    BY <1>1, <1>2, <1>3, <1>4, <1>5, <1>6, <1>7 DEF JavaStep

\* The Kotlin handler.
LEMMA KotlinKind ==
  ASSUME Inv, NEW r \in Req, KotlinStep(r)
  PROVE  Kind(r)
  <1> USE DEF At
  <1>1. CASE KotlinReceive(r)
    BY <1>1, QuietKind DEF KotlinReceive, Filter, Early
  <1>2. CASE KotlinExists(r)
    BY <1>2, QuietKind DEF KotlinExists, LookUp, Early
  <1>3. CASE KotlinInsertBill(r)
    BY <1>3, InsertBillKind DEF KotlinInsertBill
  <1>4. CASE KotlinInsertLines(r)
    BY <1>4, NextLineKind DEF KotlinInsertLines
  <1>5. CASE KotlinCommit(r)
    BY <1>5, CommitKind DEF KotlinCommit
  <1>6. CASE KotlinPublish(r)
    BY <1>6, ReconnectingKind
      DEF KotlinPublish, Failures, Inv, TypeOK, RequestTypeOK
  <1>7. CASE KotlinRespond(r)
    BY <1>7, RespondKind DEF KotlinRespond
  <1>8. QED
    BY <1>1, <1>2, <1>3, <1>4, <1>5, <1>6, <1>7 DEF KotlinStep

\* The Node handler.
LEMMA NodeKind ==
  ASSUME Inv, NEW r \in Req, NodeStep(r)
  PROVE  Kind(r)
  <1> USE DEF At
  <1>1. CASE NodeReceive(r)
    BY <1>1, QuietKind DEF NodeReceive, Filter, Early
  <1>2. CASE NodeExists(r)
    BY <1>2, QuietKind DEF NodeExists, LookUp, Early
  <1>3. CASE NodeInsertBill(r)
    BY <1>3, InsertBillKind DEF NodeInsertBill
  <1>4. CASE NodeInsertLines(r)
    BY <1>4, InsertLinesKind DEF NodeInsertLines
  <1>5. CASE NodeCommit(r)
    BY <1>5, CommitKind DEF NodeCommit
  <1>6. CASE NodePublish(r)
    <2>1. {"open", "closed", "stale"} \subseteq ConnState
      BY DEF ConnState
    <2>2. CASE Reconnected("node")
      BY <1>6, <2>2, ConnectingKind DEF NodePublish
    <2>3. QED
      BY <1>6, <2>1, <2>2, SentKind, UnsentKind DEF NodePublish, Failures
  <1>7. CASE NodeRespond(r)
    BY <1>7, RespondKind DEF NodeRespond
  <1>8. QED
    BY <1>1, <1>2, <1>3, <1>4, <1>5, <1>6, <1>7 DEF NodeStep

\* The Rust handler.
LEMMA RustKind ==
  ASSUME Inv, NEW r \in Req, RustStep(r)
  PROVE  Kind(r)
  <1> USE DEF At
  <1>1. CASE RustReceive(r)
    BY <1>1, QuietKind DEF RustReceive, Filter, Early
  <1>2. CASE RustExists(r)
    BY <1>2, QuietKind DEF RustExists, LookUp, Early
  <1>3. CASE RustInsertBill(r)
    BY <1>3, InsertBillKind DEF RustInsertBill
  <1>4. CASE RustInsertLines(r)
    BY <1>4, NextLineKind DEF RustInsertLines
  <1>5. CASE RustCommit(r)
    BY <1>5, CommitKind DEF RustCommit
  <1>6. CASE RustPublish(r)
    <2>1. {"open", "closed", "stale"} \subseteq ConnState
      BY DEF ConnState
    <2>2. QED
      BY <1>6, <2>1, SentKind, UnsentKind DEF RustPublish, Failures
  <1>7. CASE RustRespond(r)
    BY <1>7, RespondKind DEF RustRespond
  <1>8. QED
    BY <1>1, <1>2, <1>3, <1>4, <1>5, <1>6, <1>7 DEF RustStep

\* A handler that fails or is cut short is of one of the kinds.
LEMMA MishapKind ==
  ASSUME Inv, NEW r \in Req, Mishap(r)
  PROVE  Kind(r)
  <1>1. conn[serves[r]] \in ConnState
    BY DEF Inv, TypeOK, BrokerTypeOK, RequestTypeOK
  <1>2. CASE GoTooLate(r)
    BY <1>1, <1>2, UnsentKind DEF GoTooLate, At, Failures
  <1>3. CASE DotNetTooLate(r)
    BY <1>1, <1>3, UnsentKind DEF DotNetTooLate, At, Failures
  <1>4. CASE RustDropped(r)
    <2>1. CASE DbBreaks(r, {"gone"})
      BY <2>1, DbBreaksKind DEF Failures
    <2>2. CASE /\ pc[r] \in {"publish", "respond"}
               /\ Unsent("rust", r, conn["rust"], {"gone"})
      BY <1>1, <1>4, <2>2, UnsentKind DEF RustDropped, Failures
    <2>3. CASE /\ pc[r] = "publish" /\ Deliver("rust", r, "open")
               /\ Reply(r, "gone") /\ UNCHANGED storeVars
      <3>1. OneOf(r)
        BY <2>3 DEF OneOf, Announce, Deliver
      <3>2. QED
        BY <2>3, <3>1 DEF Kind, Deliver, Inv, TypeOK, BrokerTypeOK, ConnState
    <2>4. QED
      BY <1>4, <2>1, <2>2, <2>3 DEF RustDropped
  <1>5. CASE \E as \in SUBSET Failures : DbBreaks(r, as)
    BY <1>5, DbBreaksKind
  <1>6. QED
    BY <1>2, <1>3, <1>4, <1>5 DEF Mishap, PyFails, GoFails, DotNetFails, JavaFails,
      KotlinFails, NodeFails, RustFails, Failures

\* A step or a mishap of a request, whichever service handles it.
LEMMA StepKind ==
  ASSUME Inv, NEW r \in Req, Post(r) \/ Step(r) \/ Mishap(r)
  PROVE  Kind(r)
  <1>1. CASE Post(r)
    BY <1>1, QuietKind DEF Post, Early
  <1>2. CASE Step(r)
    BY <1>2, PyKind, GoKind, DotNetKind, JavaKind, KotlinKind, NodeKind, RustKind
      DEF Step
  <1>3. QED
    BY <1>1, <1>2, MishapKind

\* A crash closes the requests the service was handling.
LEMMA CrashCloses ==
  ASSUME Inv, NEW s \in Services, Crash(s)
  PROVE  /\ \E committed : Close(InFlightAt(s), committed)
         /\ conn' \in [Services -> ConnState]
  <1>1. PICK committed \in SUBSET {r \in InFlightAt(s) : pc[r] = "commit"} :
           Settle(InFlightAt(s), committed)
    BY DEF Crash
  <1>2. Close(InFlightAt(s), committed)
    BY <1>1 DEF Close, Crash, InFlightAt, InFlight, Inv, TypeOK, RequestTypeOK,
      Answer, Failures
  <1>3. QED
    BY <1>2 DEF Crash, Inv, TypeOK, BrokerTypeOK, ConnState

\* Steps that touch no request, row or event.
LEMMA AsideInv ==
  ASSUME Inv, Around, UNCHANGED <<storeVars, pc, answer, queued>>
  PROVE  Inv'
  <1> USE DEF Inv, Around, requestVars, storeVars
  <1>1. TypeOK'
    BY DEF TypeOK, StoreTypeOK, BrokerTypeOK, RequestTypeOK
  <1>2. (RowsAreOfRequests /\ UniqueNumbers)'
    BY DEF RowsAreOfRequests, UniqueNumbers, Rows
  <1>3. \A q \in Req : Stored(q)' = Stored(q) /\ Open(q)' = Open(q)
    BY DEF Stored, Open
  <1>4. \A q \in Req : /\ StoredLines(q)' = StoredLines(q)
                       /\ InsertedLines(q)' = InsertedLines(q)
    BY DEF StoredLines, InsertedLines
  <1>5. (StageOfRows /\ StageOfLines /\ WholeBills)'
    BY <1>3, <1>4 DEF StageOfRows, StageOfLines, WholeBills, LineNos
  <1>6. (StageOfEvents /\ EventHasBill /\ AnswerMeansEffect)'
    BY <1>3 DEF StageOfEvents, EventHasBill, AnswerMeansEffect
  <1>7. QED
    BY <1>1, <1>2, <1>5, <1>6

\* Every kind of step preserves the invariant.
LEMMA KindInv ==
  ASSUME Inv, Around, NEW r \in Req, OneOf(r)
  PROVE  Inv'
  BY MoveInv, InsertInv, AddLinesInv, StoreInv, AnnounceInv, CloseInv, AsideInv
  DEF OneOf, Idle

\* Every step of the arena preserves the invariant.
LEMMA NextInv == Inv /\ [Next]_vars => Inv'
  <1> SUFFICES ASSUME Inv, [Next]_vars PROVE Inv'
    OBVIOUS
  <1>1. /\ broker \in {"up", "down"} /\ conn \in [Services -> ConnState]
        /\ running \subseteq Services /\ faults \in 0..MaxFaults /\ MaxFaults \in Nat
    BY DeploymentAssumption DEF Inv, TypeOK, BrokerTypeOK
  <1>2. CASE Handle
    <2>1. PICK r \in Req : Post(r) \/ Step(r)
      BY <1>2 DEF Handle
    <2>2. Around
      BY <1>1, <1>2, <2>1, StepKind DEF Handle, Around, Kind, systemVars
    <2>3. QED
      BY <2>1, <2>2, StepKind, KindInv DEF Kind
  <1>3. CASE BadLuck
    <2>1. PICK r \in Req : Mishap(r)
      BY <1>3 DEF BadLuck
    <2>2. Around
      BY <1>1, <1>3, <2>1, StepKind DEF BadLuck, Fault, Around, Kind, systemVars
    <2>3. QED
      BY <2>1, <2>2, StepKind, KindInv DEF Kind
  <1>4. CASE Outage
    <2>1. PICK s \in Services : Crash(s)
      BY <1>4 DEF Outage
    <2>2. Around
      <3>1. conn' \in [Services -> ConnState]
        BY <2>1, CrashCloses
      <3>2. running' = running \ {s} /\ UNCHANGED broker
        BY <2>1 DEF Crash
      <3>3. UNCHANGED requestVars /\ faults' \in 0..MaxFaults
        BY <1>1, <1>4 DEF Outage, Fault
      <3>4. QED
        BY <1>1, <3>1, <3>2, <3>3 DEF Around
    <2>3. QED
      BY <2>1, <2>2, CrashCloses, CloseInv
  <1>5. CASE Restart
    <2>1. PICK s \in Services : Start(s)
      BY <1>5 DEF Restart
    <2>2. Around
      BY <1>1, <1>5, <2>1 DEF Restart, Start, FreshConn, ConnState, Around
    <2>3. QED
      BY <2>1, <2>2, AsideInv DEF Start
  <1>6. CASE BrokerOutage
    <2>1. Around
      BY <1>1, <1>6 DEF BrokerOutage, BrokerStops, BrokerDrops, Fault, Around, ConnState
    <2>2. QED
      BY <1>6, <2>1, AsideInv DEF BrokerOutage, BrokerStops, BrokerDrops
  <1>7. CASE BrokerRestart
    BY <1>1, <1>7, AsideInv DEF BrokerRestart, BrokerStarts, linkVars, Around
  <1>8. CASE Background
    <2>1. Around
      BY <1>1, <1>8 DEF Background, Notices, DotNetRecovers, Lose, Around, ConnState
    <2>2. QED
      BY <1>8, <2>1, AsideInv DEF Background, Notices, DotNetRecovers, Lose
  <1>9. CASE Quiet \/ UNCHANGED vars
    <2>1. UNCHANGED vars
      BY <1>9 DEF Quiet
    <2>2. Around
      BY <1>1, <2>1 DEF vars, requestVars, systemVars, linkVars, Around
    <2>3. QED
      BY <2>1, <2>2, AsideInv DEF vars, linkVars
  <1>10. QED
    BY <1>2, <1>3, <1>4, <1>5, <1>6, <1>7, <1>8, <1>9 DEF Next

-----------------------------------------------------------------------------
\* Whatever is interleaved and whatever fails, rows, events, answers and stages
\* stay consistent.
THEOREM Invariance == Spec => []Inv
  <1>1. Init => Inv
    BY InitInv
  <1>2. Inv /\ [Next]_vars => Inv'
    BY NextInv
  <1>3. QED
    BY <1>1, <1>2, PTL DEF Spec

\* The variables keep their types, and only a finished handler has answered.
THEOREM TypeCorrect == Spec => []TypeOK
  BY Invariance, PTL DEF Inv

\* Seven services that look before they insert, and do not lock, never store
\* two bills with one number.
THEOREM NumbersUnique == Spec => []UniqueNumbers
  BY Invariance, PTL DEF Inv

\* No failure between the INSERT statements leaves half a bill.
THEOREM BillsWhole == Spec => []WholeBills
  BY Invariance, PTL DEF Inv

\* No event without its bill, no event twice.
THEOREM EventsHaveBills == Spec => []EventHasBill
  BY Invariance, PTL DEF Inv

\* 201 means stored; 400 and 409 mean that nothing happened.
THEOREM AnswersTellTheTruth == Spec => []AnswerMeansEffect
  BY Invariance, PTL DEF Inv

\* No handler ends with rows of its own still uncommitted.
THEOREM NothingStranded == Spec => []NoStrandedRows
  <1>1. Inv => NoStrandedRows
    <2> SUFFICES ASSUME Inv PROVE NoStrandedRows
      OBVIOUS
    <2>1. \A b \in newBill : b.id \in Req /\ pc[b.id] \in {"lines", "commit"}
      BY DEF Inv, TypeOK, StoreTypeOK, Row, StageOfRows, Open
    <2>2. ASSUME NEW l \in newLine PROVE \E b \in newBill : b.id = l.bill
      <3>1. l.bill \in Req /\ l.no \in InsertedLines(l.bill)
        BY DEF Inv, TypeOK, StoreTypeOK, LineRow, InsertedLines
      <3>2. Open(l.bill)
        BY <3>1 DEF Inv, StageOfLines, StageOfRows
      <3>3. QED
        BY <3>2 DEF Open
    <2>3. QED
      BY <2>1, <2>2 DEF NoStrandedRows
  <1>2. QED
    BY <1>1, Invariance, PTL

\* An event is queued in a step of its own, after the commit of its bill.
THEOREM EventsFollowCommits == Spec => EventAfterCommit
  <1>1. ASSUME Inv, Next
        PROVE  \A r \in Req : queued'[r] # queued[r] => Stored(r)
    <2>1. ASSUME NEW r \in Req, Kind(r)
          PROVE  \A q \in Req : queued'[q] # queued[q] => Stored(q)
      <3>1. CASE Announce(r)
        <4>1. Stored(r)
          BY <1>1, <3>1 DEF Announce, Inv, StageOfRows
        <4>2. \A q \in Req \ {r} : queued'[q] = queued[q]
          BY <1>1, <3>1 DEF Announce, Inv, TypeOK, BrokerTypeOK
        <4>3. QED
          BY <4>1, <4>2
      <3>2. CASE UNCHANGED queued
        BY <3>2
      <3>3. QED
        BY <2>1, <3>1, <3>2 DEF Kind, OneOf, Move, Insert, AddLines, Store, Idle,
          Close
    <2>2. CASE Handle \/ BadLuck
      BY <1>1, <2>1, <2>2, StepKind DEF Handle, BadLuck
    <2>3. CASE UNCHANGED queued
      BY <2>3
    <2>4. QED
      BY <1>1, <2>2, <2>3 DEF Next, Outage, Crash, Restart, Start, BrokerOutage,
        BrokerStops, BrokerDrops, BrokerRestart, BrokerStarts, linkVars, Background,
        Notices, DotNetRecovers, Lose, Quiet, vars
  <1>2. Inv /\ [Next]_vars =>
          [\A r \in Req : queued'[r] # queued[r] => Stored(r)]_vars
    BY <1>1
  <1>3. QED
    BY <1>2, Invariance, PTL DEF Spec, EventAfterCommit

-----------------------------------------------------------------------------
(***************************************************************************)
(* The arena keeps the contract of BillsContract, and what its answers are *)
(* good for.                                                               *)
(***************************************************************************)
\* Nothing the contract speaks of changes.
Silent == UNCHANGED <<bill, line, queued, answer>>

ContractStep ==
  \/ Silent
  \/ \E r \in Req :
       \/ Promise!Accept(r) \/ Promise!Announce(r) \/ Promise!Confirm(r)
       \/ \E a \in {"400", "409"} : Promise!Refuse(r, a)
  \/ \E rs \in SUBSET Req : \E stored \in SUBSET rs : \E a \in Failures :
       Promise!Fail(rs, stored, a)

\* The two modules mean the same by a stored bill.
LEMMA SameStored ==
  ASSUME NEW r PROVE Promise!Stored(r) <=> Stored(r)
  BY DEF Promise!Stored, Stored

\* A COMMIT makes the bills of its requests appear, each with all its lines.
LEMMA CommitStores ==
  ASSUME Inv, NEW rs \in SUBSET Req, NEW committed \in SUBSET rs,
         Settle(rs, committed), \A r \in committed : pc[r] = "commit"
  PROVE  Promise!Store(committed)
  <1> USE DEF Inv
  <1>1. \A r \in committed : answer[r] = "none" /\ ~Stored(r) /\ Open(r)
    BY DEF TypeOK, RequestTypeOK, StageOfRows
  <1>2. \A r \in committed : \A b \in newBill : b.id = r => b.number = number[r]
    BY DEF RowsAreOfRequests, Rows
  <1>3. ASSUME NEW r \in committed PROVE Promise!Free(number[r])
    <2>1. PICK b \in newBill : b.id = r
      BY <1>1 DEF Open
    <2>2. ASSUME NEW c \in bill, c.number = number[r] PROVE FALSE
      <3>1. c = b
        BY <1>2, <2>1, <2>2 DEF UniqueNumbers, Rows
      <3>2. QED
        BY <1>1, <2>1, <3>1 DEF Stored
    <2>3. QED
      BY <2>2 DEF Promise!Free
  <1>4. ASSUME NEW r \in committed, NEW q \in committed, number[r] = number[q]
        PROVE  r = q
    <2>1. PICK b \in newBill, c \in newBill : b.id = r /\ c.id = q
      BY <1>1 DEF Open
    <2>2. b = c
      BY <1>2, <1>4, <2>1 DEF UniqueNumbers, Rows
    <2>3. QED
      BY <2>1, <2>2
  <1>5. {b \in newBill : b.id \in committed}
          = {[id |-> r, number |-> number[r]] : r \in committed}
    <2>1. ASSUME NEW b \in newBill, b.id \in committed
          PROVE  b = [id |-> b.id, number |-> number[b.id]]
      BY <1>2, <2>1 DEF TypeOK, StoreTypeOK, Row
    <2>2. ASSUME NEW r \in committed
          PROVE  \E b \in newBill : b.id = r /\ b = [id |-> r, number |-> number[r]]
      BY <1>1, <2>1 DEF Open
    <2>3. QED
      BY <2>1, <2>2
  <1>6. {l \in newLine : l.bill \in committed}
          = UNION {{[bill |-> r, no |-> i] : i \in LineNos(body[r])} : r \in committed}
    <2>1. ASSUME NEW l \in newLine, l.bill \in committed
          PROVE  l.no \in LineNos(body[l.bill]) /\ l = [bill |-> l.bill, no |-> l.no]
      <3>1. l = [bill |-> l.bill, no |-> l.no]
        BY DEF TypeOK, StoreTypeOK, LineRow
      <3>2. l.no \in InsertedLines(l.bill)
        BY DEF InsertedLines
      <3>3. QED
        BY <2>1, <3>1, <3>2 DEF StageOfLines
    <2>2. ASSUME NEW r \in committed, NEW i \in LineNos(body[r])
          PROVE  [bill |-> r, no |-> i] \in newLine
      <3>1. i \in InsertedLines(r)
        BY DEF StageOfLines
      <3>2. PICK l \in newLine : l.bill = r /\ l.no = i
        BY <3>1 DEF InsertedLines
      <3>3. QED
        BY <2>1, <3>2
    <2>3. QED
      BY <2>1, <2>2
  <1>7. committed \subseteq Req
    OBVIOUS
  <1> HIDE DEF Inv
  <1>8. /\ bill' = bill \cup {[id |-> r, number |-> number[r]] : r \in committed}
        /\ line' = line \cup UNION {{[bill |-> r, no |-> i] : i \in LineNos(body[r])}
                                      : r \in committed}
    BY <1>5, <1>6 DEF Settle
  <1>9. \A r \in committed : [q \in Req |-> LineNos(body[q])][r] = LineNos(body[r])
    BY <1>7
  <1>10. UNION {{[bill |-> r, no |-> i] : i \in LineNos(body[r])} : r \in committed}
           = UNION {{[bill |-> r, no |-> i] : i \in [q \in Req |-> LineNos(body[q])][r]}
                      : r \in committed}
    <2> DEFINE meant(r) == {[bill |-> r, no |-> i] : i \in LineNos(body[r])}
               wanted(r) == {[bill |-> r, no |-> i] :
                               i \in [q \in Req |-> LineNos(body[q])][r]}
    <2>1. \A r \in committed : wanted(r) = meant(r)
      BY <1>9, Zenon
    <2> HIDE DEF meant, wanted
    <2>2. UNION {meant(r) : r \in committed} = UNION {wanted(r) : r \in committed}
      BY <2>1
    <2>3. QED
      BY <2>2 DEF meant, wanted
  <1>11. QED
    BY <1>1, <1>3, <1>4, <1>8, <1>10, SameStored DEF Promise!Store

\* Every kind of step of one request is a step of the contract, or silent.
LEMMA KindKeepsContract ==
  ASSUME Inv, NEW r \in Req, OneOf(r)
  PROVE  ContractStep
  <1> USE DEF Inv
  <1>1. CASE Move(r) \/ Insert(r) \/ AddLines(r) \/ Idle
    BY <1>1 DEF Move, Insert, InsertBill, AddLines, InsertLines, Idle, storeVars,
      ContractStep, Silent
  <1>2. CASE Store(r)
    <2>1. Promise!Store({r})
      BY <1>2, CommitStores DEF Store, Commit
    <2>2. Promise!Accept(r)
      BY <1>2, <2>1 DEF Store, Promise!Accept
    <2>3. QED
      BY <2>2 DEF ContractStep
  <1>3. CASE Announce(r)
    <2>1. answer[r] = "none" /\ Stored(r) /\ queued[r] = 0
      BY <1>3 DEF Announce, TypeOK, RequestTypeOK, BrokerTypeOK, StageOfRows,
        StageOfEvents
    <2>2. CASE UNCHANGED queued /\ Goto(r, "respond")
      BY <1>3, <2>2 DEF Announce, Goto, storeVars, ContractStep, Silent
    <2>3. CASE /\ queued' = [queued EXCEPT ![r] = @ + 1]
               /\ Goto(r, "respond") \/ Reply(r, "gone")
      <3>1. queued' = [queued EXCEPT ![r] = 1]
        BY <2>1, <2>3 DEF TypeOK, BrokerTypeOK
      <3>2. Promise!Announce(r)
        BY <1>3, <2>1, <2>3, <3>1, SameStored
          DEF Announce, Goto, Reply, storeVars, Promise!Announce
      <3>3. QED
        BY <3>2 DEF ContractStep
    <2>4. QED
      BY <1>3, <2>2, <2>3 DEF Announce
  <1>4. ASSUME NEW committed \in SUBSET {r}, Close({r}, committed)
        PROVE  ContractStep
    <2>1. Promise!Store(committed)
      BY <1>4, CommitStores DEF Close
    <2>2. PICK a \in Answer \ {"none"} : a = answer'[r]
      BY <1>4 DEF Close
    <2>3. answer' = [answer EXCEPT ![r] = a]
      BY <1>4, <2>2 DEF Close, TypeOK, RequestTypeOK
    <2>4. answer[r] = "none" /\ (a = "201" => Stored(r))
      BY <1>4, <2>2 DEF Close, TypeOK, RequestTypeOK, StageOfRows
    <2>5. a \in {"201", "400", "409"} => pc[r] # "commit"
      BY <1>4, <2>2 DEF Close, Early
    <2>6. ASSUME a \in {"201", "400", "409"} PROVE UNCHANGED <<bill, line, queued>>
      <3>1. committed = {}
        BY <1>4, <2>5, <2>6 DEF Close
      <3>2. QED
        BY <1>4, <3>1 DEF Close, Settle
    <2>7. CASE a = "201"
      <3>1. Promise!Confirm(r)
        BY <2>3, <2>4, <2>6, <2>7, SameStored DEF Promise!Confirm
      <3>2. QED
        BY <3>1 DEF ContractStep
    <2>8. CASE a \in {"400", "409"}
      <3>1. ~Stored(r)
        BY <1>4, <2>2, <2>8 DEF Close, StageOfRows, Early
      <3>2. Promise!Refuse(r, a)
        BY <2>3, <2>4, <2>6, <2>8, <3>1, SameStored DEF Promise!Refuse
      <3>3. QED
        BY <2>8, <3>2 DEF ContractStep
    <2>9. CASE a \in Failures
      <3>1. answer' = [q \in Req |-> IF q \in {r} THEN a ELSE answer[q]]
        BY <2>3 DEF TypeOK, RequestTypeOK
      <3>2. Promise!Fail({r}, committed, a)
        BY <1>4, <2>1, <2>4, <3>1 DEF Close, Promise!Fail
      <3>3. QED
        BY <1>4, <2>9, <3>2 DEF ContractStep
    <2>10. QED
      BY <2>7, <2>8, <2>9 DEF Answer
  <1>5. QED
    BY <1>1, <1>2, <1>3, <1>4 DEF OneOf

\* A crash fails the requests in flight and stores what was being committed.
LEMMA CrashKeepsContract ==
  ASSUME Inv, NEW s \in Services, Crash(s)
  PROVE  ContractStep
  <1>1. PICK committed \in SUBSET {r \in InFlightAt(s) : pc[r] = "commit"} :
           Settle(InFlightAt(s), committed)
    BY DEF Crash
  <1>2. committed \in SUBSET InFlightAt(s) /\ InFlightAt(s) \in SUBSET Req
    BY DEF InFlightAt
  <1>3. Promise!Store(committed)
    BY <1>1, <1>2, CommitStores
  <1>4. \A r \in InFlightAt(s) : answer[r] = "none"
    BY DEF InFlightAt, InFlight, Inv, TypeOK
  <1>5. Promise!Fail(InFlightAt(s), committed, "gone")
    BY <1>3, <1>4 DEF Crash, Promise!Fail
  <1>6. QED
    BY <1>2, <1>5 DEF ContractStep, Failures

\* Every step of the arena is a step of the contract, or silent.
LEMMA StepKeepsContract ==
  ASSUME Inv, [Next]_vars
  PROVE  ContractStep /\ UNCHANGED requestVars
  <1>1. UNCHANGED requestVars
    BY DEF Next, Handle, BadLuck, Outage, Restart, BrokerOutage, BrokerRestart,
      Background, Quiet, vars
  <1>2. CASE Handle \/ BadLuck
    BY <1>2, StepKind, KindKeepsContract DEF Handle, BadLuck, Kind
  <1>3. CASE Outage
    BY <1>3, CrashKeepsContract DEF Outage
  <1>4. CASE Restart \/ BrokerOutage \/ BrokerRestart \/ Background \/ Quiet
             \/ UNCHANGED vars
    BY <1>4 DEF Restart, Start, BrokerOutage, BrokerStops, BrokerDrops, BrokerRestart,
      BrokerStarts, Background, Notices, DotNetRecovers, Lose, linkVars, storeVars,
      Quiet, vars, ContractStep, Silent
  <1>5. QED
    BY <1>1, <1>2, <1>3, <1>4 DEF Next

\* Seven services, their database and their broker keep the one contract of
\* POST /bills.
THEOREM ContractKept == Spec => Contract
  <1>1. Init => Promise!Init
    BY DEF Init, StoreInit, Promise!Init, LineNos
  <1>2. Inv /\ [Next]_vars => [Promise!Next]_<<Promise!promised, Promise!asked>>
    <2> SUFFICES ASSUME Inv, [Next]_vars
                 PROVE  [Promise!Next]_<<Promise!promised, Promise!asked>>
      OBVIOUS
    <2>1. ContractStep /\ UNCHANGED Promise!asked
      BY StepKeepsContract DEF requestVars, Promise!asked
    <2>2. Failures = Promise!Failures
      BY DEF Failures, Promise!Failures
    <2>3. QED
      BY <2>1, <2>2 DEF ContractStep, Silent, Promise!Next, Promise!promised
  <1>3. QED
    BY <1>1, <1>2, Invariance, PTL DEF Spec, Contract, Promise!Spec

\* A step of the contract loses nothing that is stored, and does nothing in the
\* name of a request that has its answer.
LEMMA ContractLosesNothing ==
  ASSUME Inv, ContractStep
  PROVE  /\ bill \subseteq bill' /\ line \subseteq line'
         /\ \A r \in Req : answer[r] # "none" =>
              /\ answer'[r] = answer[r] /\ queued'[r] = queued[r]
              /\ Stored(r)' = Stored(r)
  <1> DEFINE kept == /\ bill \subseteq bill' /\ line \subseteq line'
                     /\ \A r \in Req : answer[r] # "none" =>
                          /\ answer'[r] = answer[r] /\ queued'[r] = queued[r]
                          /\ Stored(r)' = Stored(r)
  <1>1. /\ answer \in [Req -> Answer] /\ queued \in [Req -> Nat]
    BY DEF Inv, TypeOK, RequestTypeOK, BrokerTypeOK
  <1>2. ASSUME NEW rs \in SUBSET Req, Promise!Store(rs)
        PROVE  /\ bill \subseteq bill' /\ line \subseteq line'
               /\ \A r \in Req \ rs : Stored(r)' = Stored(r)
               /\ \A r \in rs : answer[r] = "none"
    BY <1>2 DEF Promise!Store, Stored
  <1>3. CASE Silent
    BY <1>3 DEF Silent, Stored
  <1>4. ASSUME NEW r \in Req, Promise!Accept(r) PROVE kept
    BY <1>2, <1>4 DEF Promise!Accept
  <1>5. ASSUME NEW r \in Req, Promise!Announce(r) PROVE kept
    BY <1>1, <1>5 DEF Promise!Announce, Stored
  <1>6. ASSUME NEW r \in Req, Promise!Confirm(r) PROVE kept
    BY <1>1, <1>6 DEF Promise!Confirm, Stored
  <1>7. ASSUME NEW r \in Req, NEW a, Promise!Refuse(r, a) PROVE kept
    BY <1>1, <1>7 DEF Promise!Refuse, Stored
  <1>8. ASSUME NEW rs \in SUBSET Req, NEW stored \in SUBSET rs, NEW a,
               Promise!Fail(rs, stored, a)
        PROVE  kept
    <2>1. stored \in SUBSET Req
      OBVIOUS
    <2>2. QED
      BY <1>2, <1>8, <2>1 DEF Promise!Fail
  <1>9. QED
    BY <1>3, <1>4, <1>5, <1>6, <1>7, <1>8 DEF ContractStep

\* Nothing that is stored is lost, and nothing happens in the name of a request
\* that has its answer.
THEOREM NothingComesLate == Spec => NothingLate
  BY StepKeepsContract, ContractLosesNothing, Invariance, PTL DEF Spec, NothingLate

-----------------------------------------------------------------------------
(***************************************************************************)
(* What an answer is worth.  Reason says why a step of r answers it, the   *)
(* conflict and the broker error; Honest that no step of r conceals the    *)
(* loss of its event; Calm is the state of things when nothing has gone    *)
(* wrong, and Smoothly what a handler does then.                           *)
(***************************************************************************)
Reason(r) ==
  answer'[r] # answer[r] =>
    /\ answer'[r] = "409" =>
         \/ Taken(number[r])
         \/ serves[r] \in {"java", "kotlin"} /\ ~Fits(r)
    /\ answer'[r] = "503" => pc[r] = "publish" \/ serves[r] = "node"

Honest(r) ==
  /\ answer'[r] = "201" => answer[r] = "201" \/ pc[r] = "respond"
  /\ pc'[r] = "respond" =>
       pc[r] = "respond" \/ queued'[r] = 1 \/ conn[serves[r]] = "stale"

Connected ==
  \A s \in Services :
    conn[s] \in {"none", "open"} /\ (s \in EagerConnect => conn[s] = "open")

Calm == broker = "up" /\ Connected

Smoothly(r) ==
  /\ Connected'
  /\ pc'[r] = "respond" => pc[r] = "publish" /\ queued'[r] = queued[r] + 1
  /\ answer'[r] # answer[r] =>
       \/ answer'[r] = "201" /\ pc[r] = "respond" /\ UNCHANGED queued
       \/ /\ answer'[r] \in {"400", "409", "500"}
          /\ pc[r] \in Early \cup {"lines"}

Sound(r) == Reason(r) /\ Honest(r) /\ (Calm => Smoothly(r))

\* A refused or accepted body.
LEMMA FilterSound ==
  ASSUME Inv, NEW r \in Req, pc[r] \in {"received", "resolve"}, NEW ok,
         NEW next \in {"resolve", "exists"}, NEW refusal \in {"400", "500"},
         Filter(r, ok, next, refusal)
  PROVE  Sound(r)
  BY DEF Sound, Reason, Honest, Calm, Connected, Smoothly, Filter, Goto, Reply, linkVars,
    Inv, TypeOK, RequestTypeOK, Early

\* A number that is looked up and found is taken.
LEMMA LookUpSound ==
  ASSUME Inv, NEW r \in Req, pc[r] = "exists", NEW found, NEW ok,
         found => Taken(number[r]), LookUp(r, found, ok, "409", "400")
  PROVE  Sound(r)
  BY DEF Sound, Reason, Honest, Calm, Connected, Smoothly, LookUp, Goto, Reply, linkVars,
    Inv, TypeOK, RequestTypeOK, Early

\* The INSERT of a bill conflicts with a stored one, or is called a conflict.
LEMMA InsertBillSound ==
  ASSUME Inv, NEW r \in Req, pc[r] = "insert", NEW misfit \in {"409", "500"},
         misfit = "409" => serves[r] \in {"java", "kotlin"},
         TryInsertBill(r, "409", misfit)
  PROVE  Sound(r)
  BY DEF Sound, Reason, Honest, Calm, Connected, Smoothly, TryInsertBill, Goto, Reply, linkVars,
    Inv, TypeOK, RequestTypeOK, Early, Fits

\* The INSERTs of lines conflict with nothing.
LEMMA InsertLinesSound ==
  ASSUME Inv, NEW r \in Req, pc[r] = "lines", TryInsertLines(r, "500")
  PROVE  Sound(r)
  BY DEF Sound, Reason, Honest, Calm, Connected, Smoothly, TryInsertLines, Goto, Reply, linkVars,
    Inv, TypeOK, RequestTypeOK, Early

\* An INSERT of one line is called a conflict when the line does not fit.
LEMMA NextLineSound ==
  ASSUME Inv, NEW r \in Req, pc[r] = "lines", NEW misfit \in {"409", "500"},
         misfit = "409" => serves[r] \in {"java", "kotlin"},
         TryInsertNextLine(r, misfit)
  PROVE  Sound(r)
  <1>1. PICK i \in LineNos(body[r]) :
          /\ \/ \E x \in {"lines", "commit"} : Goto(r, x)
             \/ ~LineFits(body[r].lines[i]) /\ Reply(r, misfit)
          /\ UNCHANGED linkVars
    BY Zenon DEF TryInsertNextLine
  <1>2. ~LineFits(body[r].lines[i]) => ~Fits(r)
    BY DEF Fits, LinesFit, EveryLine, LineNos
  <1>3. QED
    BY <1>1, <1>2 DEF Sound, Reason, Honest, Calm, Connected, Smoothly, Goto, Reply, linkVars,
      Inv, TypeOK, RequestTypeOK, Early

\* A COMMIT answers nobody.
LEMMA CommitSound ==
  ASSUME Inv, NEW r \in Req, pc[r] = "commit", TryCommit(r)
  PROVE  Sound(r)
  BY DEF Sound, Reason, Honest, Calm, Connected, Smoothly, TryCommit, Goto, linkVars,
    Inv, TypeOK, RequestTypeOK

\* What is sent over an open connection is in the queue, once.
LEMMA SentHonestly ==
  ASSUME Inv, NEW r \in Req, pc[r] = "publish", NEW s, NEW c, Sent(s, r, c)
  PROVE  Honest(r)
  <1>1. queued[r] = 0
    BY DEF Inv, TypeOK, BrokerTypeOK, StageOfEvents
  <1>2. queued'[r] = 1
    BY <1>1 DEF Sent, Deliver, Inv, TypeOK, BrokerTypeOK
  <1>3. UNCHANGED answer
    BY DEF Sent, Goto
  <1>4. QED
    BY <1>2, <1>3 DEF Honest

\* An error is an answer, and no 201.
LEMMA UnsentHonestly ==
  ASSUME Inv, NEW r \in Req, NEW s, NEW c, NEW as \in SUBSET Failures, Unsent(s, r, c, as)
  PROVE  Honest(r)
  BY DEF Honest, Unsent, ReplyOneOf, Reply, Failures, Inv, TypeOK, RequestTypeOK

\* An event that is sent while all is calm is queued.
LEMMA SentSmoothly ==
  ASSUME Inv, Calm, NEW r \in Req, pc[r] = "publish", NEW s, Sent(s, r, "open")
  PROVE  Smoothly(r)
  BY DEF Calm, Connected, Smoothly, Sent, Deliver, Goto, Inv, TypeOK, RequestTypeOK,
    BrokerTypeOK

\* With a broker and no connection lost, the event is queued.
LEMMA ReconnectingSound ==
  ASSUME Inv, NEW r \in Req, pc[r] = "publish", NEW s \in Services,
         NEW refused \in SUBSET Failures, NEW broken \in SUBSET Failures,
         s = serves[r], PublishReconnecting(s, r, refused, broken)
  PROVE  Sound(r)
  <1>1. Reason(r)
    BY DEF Reason, PublishReconnecting, Reconnected, Sent, SentNowhere, Unsent,
      ReplyOneOf, Goto, Reply, Failures, Inv, TypeOK, RequestTypeOK
  <1>2. ASSUME Calm PROVE Smoothly(r)
    <2>1. \/ conn[s] = "open" /\ Sent(s, r, "open")
          \/ Unconnected(s) /\ Reconnected(s)
      BY <1>2 DEF Calm, Connected, PublishReconnecting, Unconnected
    <2>2. QED
      BY <1>2, <2>1 DEF Calm, Connected, Smoothly, Sent, Reconnected, Deliver, Lose, Goto,
        Inv, TypeOK, RequestTypeOK, BrokerTypeOK
  <1>3. Honest(r)
    <2>1. CASE Reconnected(s)
      BY <2>1 DEF Honest, Reconnected
    <2>2. CASE conn[s] = "stale"
      BY <2>2 DEF Honest, PublishReconnecting, Reconnected, Sent, SentNowhere, Unsent,
        Unconnected, ReplyOneOf, Goto, Reply, Failures, Inv, TypeOK, RequestTypeOK
    <2>3. QED
      BY <2>1, <2>2, SentHonestly, UnsentHonestly DEF PublishReconnecting
  <1>4. QED
    BY <1>1, <1>2, <1>3 DEF Sound

\* The last answer is a 201.
LEMMA RespondSound ==
  ASSUME Inv, NEW r \in Req, pc[r] = "respond", Respond(r)
  PROVE  Sound(r)
  BY DEF Sound, Reason, Honest, Calm, Connected, Smoothly, Respond, Reply, linkVars,
    Inv, TypeOK, RequestTypeOK

\* Whatever a handler does, it answers for a reason, and smoothly while all is
\* calm.
LEMMA StepSound ==
  ASSUME Inv, NEW r \in Req, Post(r) \/ Step(r)
  PROVE  Sound(r)
  <1> USE FilterSound, LookUpSound, InsertBillSound, InsertLinesSound, NextLineSound,
          CommitSound, ReconnectingSound, RespondSound DEF At
  <1>0. serves[r] \in Services
    BY DEF Inv, TypeOK, RequestTypeOK
  <1>1. CASE Post(r)
    BY <1>1 DEF Post, Sound, Reason, Honest, Calm, Connected, Smoothly, Goto, linkVars,
      Inv, TypeOK, RequestTypeOK
  <1>2. CASE PyStep(r)
    BY <1>0, <1>2 DEF PyStep, PyReceive, PyExists, PyInsertBill, PyInsertLines, PyCommit,
      PyPublish, PyRespond, Failures
  <1>3. CASE GoStep(r)
    BY <1>0, <1>3 DEF GoStep, GoReceive, GoExists, GoInsertBill, GoInsertLines, GoCommit,
      GoPublish, GoRespond, Failures
  <1>4. CASE DotNetStep(r)
    <2>1. CASE DotNetResolve(r)
      BY <2>1 DEF DotNetResolve, Sound, Reason, Honest, Calm, Connected, Smoothly, Goto, Reply,
        Lose, linkVars, Early, Inv, TypeOK, RequestTypeOK, BrokerTypeOK
    <2>2. CASE DotNetReceive(r)
      <3>1. \/ Filter(r, DotNetDto(body[r]), "resolve", "400")
            \/ Filter(r, FALSE, "resolve", "500")
        BY <2>2 DEF DotNetReceive
      <3>2. QED
        BY <2>2, <3>1 DEF DotNetReceive
    <2>3. CASE ~DotNetResolve(r) /\ ~DotNetReceive(r)
      BY <1>0, <1>4, <2>3 DEF DotNetStep, DotNetExists, DotNetInsertBill,
        DotNetInsertLines, DotNetCommit, DotNetPublish, DotNetRespond, Failures
    <2>4. QED
      BY <2>1, <2>2, <2>3
  <1>5. CASE JavaStep(r)
    BY <1>0, <1>5 DEF JavaStep, JavaReceive, JavaExists, JavaInsertBill, JavaInsertLines,
      JavaCommit, JavaPublish, JavaRespond, Failures
  <1>6. CASE KotlinStep(r)
    BY <1>0, <1>6 DEF KotlinStep, KotlinReceive, KotlinExists, KotlinInsertBill,
      KotlinInsertLines, KotlinCommit, KotlinPublish, KotlinRespond, Failures
  <1>7. CASE NodeStep(r)
    <2>1. CASE NodePublish(r)
      <3>1. Reason(r)
        BY <2>1 DEF NodePublish, Reconnected, Sent, SentNowhere, Unsent, ReplyOneOf, Reason,
          Goto, Reply, Inv, TypeOK, RequestTypeOK
      <3>2. ASSUME Calm PROVE Sent("node", r, "open") /\ pc[r] = "publish"
        BY <1>0, <2>1, <3>2 DEF NodePublish, Unconnected, Calm, Connected, EagerConnect
      <3>3. Honest(r)
        <4>1. CASE conn["node"] = "stale"
          BY <2>1, <4>1 DEF Honest, NodePublish, Unconnected, Sent, SentNowhere, Unsent,
            ReplyOneOf, Goto, Reply, Inv, TypeOK, RequestTypeOK
        <4>2. CASE Reconnected("node")
          BY <2>1, <4>2 DEF Honest, NodePublish, Reconnected
        <4>3. QED
          BY <2>1, <4>1, <4>2, SentHonestly, UnsentHonestly DEF NodePublish, Failures
      <3>4. QED
        BY <3>1, <3>2, <3>3, SentSmoothly DEF Sound
    <2>2. CASE NodeReceive(r)
      <3>1. \/ Filter(r, NodeDto(body[r]), "exists", "400")
            \/ Filter(r, FALSE, "exists", "500")
        BY <2>2 DEF NodeReceive
      <3>2. QED
        BY <2>2, <3>1 DEF NodeReceive
    <2>3. CASE ~NodePublish(r) /\ ~NodeReceive(r)
      BY <1>0, <1>7, <2>3 DEF NodeStep, NodeExists, NodeInsertBill,
        NodeInsertLines, NodeCommit, NodeRespond
    <2>4. QED
      BY <2>1, <2>2, <2>3
  <1>8. CASE RustStep(r)
    <2>1. CASE RustPublish(r)
      <3>1. Reason(r)
        BY <2>1 DEF RustPublish, Sent, SentNowhere, Unsent, ReplyOneOf, Reason, Goto, Reply,
          Inv, TypeOK, RequestTypeOK
      <3>2. ASSUME Calm PROVE Sent("rust", r, "open") /\ pc[r] = "publish"
        BY <1>0, <2>1, <3>2 DEF RustPublish, Calm, Connected, EagerConnect
      <3>3. Honest(r)
        <4>1. CASE conn["rust"] = "stale"
          BY <2>1, <4>1 DEF Honest, RustPublish, Sent, SentNowhere, Unsent, ReplyOneOf,
            Goto, Reply, Inv, TypeOK, RequestTypeOK
        <4>2. QED
          BY <2>1, <4>1, SentHonestly, UnsentHonestly DEF RustPublish, Failures
      <3>4. QED
        BY <3>1, <3>2, <3>3, SentSmoothly DEF Sound
    <2>2. CASE ~RustPublish(r)
      BY <1>0, <1>8, <2>2 DEF RustStep, RustReceive, RustExists, RustInsertBill,
        RustInsertLines, RustCommit, RustRespond
    <2>3. QED
      BY <2>1, <2>2
  <1>9. QED
    BY <1>1, <1>2, <1>3, <1>4, <1>5, <1>6, <1>7, <1>8 DEF Step

\* A mishap is no conflict, a broker error only in Node's words, and no 201.
LEMMA MishapReason ==
  ASSUME Inv, NEW r \in Req, Mishap(r)
  PROVE  Reason(r) /\ Honest(r)
  BY DEF Mishap, PyFails, GoFails, GoTooLate, DotNetFails, DotNetTooLate, JavaFails,
    KotlinFails, NodeFails, RustFails, RustDropped, DbBreaks, Unsent, ReplyOneOf, Reply,
    At, Reason, Honest, Inv, TypeOK, RequestTypeOK

-----------------------------------------------------------------------------
\* A step of one request leaves the others alone.
LEMMA OthersStay ==
  ASSUME Inv, NEW r \in Req, OneOf(r), NEW q \in Req, q # r
  PROVE  /\ pc'[q] = pc[q] /\ answer'[q] = answer[q] /\ queued'[q] = queued[q]
         /\ Stored(q)' = Stored(q)
  <1> USE DEF Inv, TypeOK, RequestTypeOK, BrokerTypeOK
  <1>1. CASE \E committed \in SUBSET {r} : Close({r}, committed)
    BY <1>1 DEF Close, Settle, Stored
  <1>2. CASE Store(r)
    BY <1>2 DEF Store, Commit, Settle, Stored
  <1>3. CASE Move(r) \/ Insert(r) \/ AddLines(r) \/ Announce(r) \/ Idle
    BY <1>3 DEF Move, Insert, InsertBill, AddLines, InsertLines, Announce, Goto, Reply,
      Idle, storeVars, Stored
  <1>4. QED
    BY <1>1, <1>2, <1>3 DEF OneOf

\* A request that has not come to its commit is not stored by its next step.
LEMMA NotYetStored ==
  ASSUME Inv, NEW r \in Req, OneOf(r), pc[r] \in Early \cup {"lines"}
  PROVE  ~Stored(r)'
  <1>1. ~Stored(r)
    BY DEF Inv, StageOfRows, Early
  <1>2. CASE \E committed \in SUBSET {r} : Close({r}, committed)
    BY <1>1, <1>2, Settled DEF Close, Early
  <1>3. QED
    BY <1>1, <1>2 DEF OneOf, Move, Insert, InsertBill, AddLines, InsertLines, Store,
      Announce, Idle, storeVars, Stored, Early

\* Whatever happens, a request is answered for a reason, and
\* honestly.
LEMMA AlwaysReason ==
  ASSUME Inv, [Next]_vars
  PROVE  \A q \in Req : Reason(q) /\ Honest(q)
  <1>1. CASE Handle \/ BadLuck
    <2>1. PICK r \in Req : Post(r) \/ Step(r) \/ Mishap(r)
      BY <1>1 DEF Handle, BadLuck
    <2>2. Reason(r) /\ Honest(r)
      BY <2>1, StepSound, MishapReason DEF Sound
    <2>3. ASSUME NEW q \in Req, q # r PROVE Reason(q) /\ Honest(q)
      BY <2>1, <2>3, StepKind, OthersStay DEF Kind, Reason, Honest
    <2>4. QED
      BY <2>2, <2>3
  <1>2. CASE Outage
    BY <1>2 DEF Outage, Crash, Reason, Honest
  <1>3. CASE UNCHANGED <<pc, answer>>
    BY <1>3 DEF Reason, Honest
  <1>4. QED
    BY <1>1, <1>2, <1>3 DEF Next, Restart, Start, BrokerOutage, BrokerRestart, Background,
      Quiet, vars

\* What a 409 and a 503 are worth is kept, for bills are never removed.
LEMMA WorthKept ==
  ASSUME Inv, ConflictIsReal, BrokerErrorMeansStored, [Next]_vars
  PROVE  (ConflictIsReal /\ BrokerErrorMeansStored)'
  <1>1. Inv'
    BY NextInv
  <1>2. bill \subseteq bill' /\ UNCHANGED requestVars
    BY StepKeepsContract, ContractLosesNothing
  <1>3. \A n : Taken(n) => Taken(n)'
    BY <1>2 DEF Taken
  <1>4. \A q \in Req : Stored(q) => Stored(q)'
    BY <1>2 DEF Stored
  <1>5. \A q \in Req : Fits(q)' = Fits(q)
    BY <1>2 DEF Fits, requestVars
  <1>6. ConflictIsReal'
    <2> SUFFICES ASSUME NEW q \in Req, answer'[q] = "409"
                 PROVE  \/ Taken(number[q])' /\ ~Stored(q)'
                        \/ serves'[q] \in {"java", "kotlin"} /\ ~Fits(q)'
      BY DEF ConflictIsReal
    <2>1. ~Stored(q)'
      BY <1>1 DEF Inv, AnswerMeansEffect
    <2>2. Taken(number[q]) \/ (serves[q] \in {"java", "kotlin"} /\ ~Fits(q))
      BY AlwaysReason DEF Reason, ConflictIsReal
    <2>3. QED
      BY <1>2, <1>3, <1>5, <2>1, <2>2 DEF requestVars
  <1>7. BrokerErrorMeansStored'
    <2> SUFFICES ASSUME NEW q \in Req, answer'[q] = "503", serves'[q] # "node"
                 PROVE  Stored(q)'
      BY DEF BrokerErrorMeansStored
    <2>1. Stored(q)
      BY <1>2, AlwaysReason
        DEF Reason, BrokerErrorMeansStored, requestVars, Inv, StageOfRows
    <2>2. QED
      BY <1>4, <2>1
  <1>8. QED
    BY <1>6, <1>7

\* Nobody is told of a conflict that is none, the Java and Kotlin services'
\* overflows apart.
THEOREM ConflictsAreReal == Spec => []ConflictIsReal
  <1>1. Init => ConflictIsReal /\ BrokerErrorMeansStored
    BY DEF Init, ConflictIsReal, BrokerErrorMeansStored
  <1>2. QED
    BY <1>1, WorthKept, Invariance, PTL DEF Spec

\* A 503 of a service other than Node means that the bill is there.
THEOREM BrokerErrorsMeanStored == Spec => []BrokerErrorMeansStored
  <1>1. Init => ConflictIsReal /\ BrokerErrorMeansStored
    BY DEF Init, ConflictIsReal, BrokerErrorMeansStored
  <1>2. QED
    BY <1>1, WorthKept, Invariance, PTL DEF Spec

\* The loss of an event is concealed only where the publisher cannot know of it.
THEOREM LossesAreTold == Spec => OnlyDeadConnectionsLose
  <1>1. Inv /\ [Next]_vars =>
          [\A r \in Req :
             /\ answer'[r] = "201" => answer[r] = "201" \/ pc[r] = "respond"
             /\ pc'[r] = "respond" =>
                  \/ pc[r] = "respond"
                  \/ queued'[r] = 1
                  \/ conn[serves[r]] = "stale"]_vars
    BY AlwaysReason DEF Honest
  <1>2. QED
    BY <1>1, Invariance, PTL DEF Spec, OnlyDeadConnectionsLose

-----------------------------------------------------------------------------
\* As long as nothing has gone wrong: every service is up and has its
\* connection, and a handler about to answer 201 has queued its event.
Undisturbed ==
  faults = 0 =>
    /\ Calm /\ running = Services
    /\ \A r \in Req : pc[r] = "respond" => queued[r] = 1

\* A step of a handler keeps things as smooth as they are.
LEMMA HandleSmooth ==
  ASSUME Inv, Undisturbed, SmoothRun, Handle
  PROVE  (Undisturbed /\ SmoothRun)'
  <1>1. PICK r \in Req : Post(r) \/ Step(r)
    BY DEF Handle
  <1>2. UNCHANGED <<broker, running, faults>>
    BY DEF Handle, systemVars
  <1> SUFFICES ASSUME faults = 0 PROVE (Undisturbed /\ SmoothRun)'
    BY <1>2 DEF Undisturbed, SmoothRun
  <1>3. Calm /\ Smoothly(r) /\ OneOf(r)
    BY <1>1, StepSound, StepKind DEF Sound, Undisturbed, Kind
  <1>4. Calm' /\ running' = Services
    BY <1>2, <1>3 DEF Calm, Smoothly, Undisturbed
  <1>5. ASSUME NEW q \in Req, pc'[q] = "respond" PROVE queued'[q] = 1
    <2>1. CASE q = r
      BY <1>3, <1>5, <2>1 DEF Smoothly, Inv, StageOfEvents, TypeOK, BrokerTypeOK
    <2>2. CASE q # r
      BY <1>3, <1>5, <2>2, OthersStay DEF Undisturbed
    <2>3. QED
      BY <2>1, <2>2
  <1>6. ASSUME NEW q \in Req
        PROVE  /\ answer'[q] = "201" => queued'[q] = 1
               /\ answer'[q] # "503"
               /\ answer'[q] = "500" => ~Stored(q)'
    <2>1. CASE q # r
      BY <1>3, <2>1, OthersStay DEF SmoothRun
    <2>2. CASE q = r /\ answer'[r] # answer[r]
      BY <1>3, <2>2, NotYetStored DEF Smoothly, Undisturbed
    <2>3. CASE q = r /\ answer'[r] = answer[r]
      <3>1. answer[r] # "none" => queued'[r] = queued[r] /\ Stored(r)' = Stored(r)
        BY <1>3, KindKeepsContract, ContractLosesNothing
      <3>2. QED
        BY <2>3, <3>1 DEF SmoothRun
    <2>4. QED
      BY <2>1, <2>2, <2>3
  <1>7. QED
    BY <1>4, <1>5, <1>6 DEF Undisturbed, SmoothRun

\* Without a fault there is nothing to restart, to notice or to recover from.
LEMMA NextSmooth ==
  ASSUME Inv, Undisturbed, SmoothRun, [Next]_vars
  PROVE  (Undisturbed /\ SmoothRun)'
  <1>1. CASE BadLuck \/ Outage \/ BrokerOutage
    <2>1. faults' # 0
      BY <1>1 DEF BadLuck, Outage, BrokerOutage, Fault, Inv, TypeOK
    <2>2. QED
      BY <2>1 DEF Undisturbed, SmoothRun
  <1>2. CASE Restart \/ BrokerRestart \/ Background
    <2>1. faults # 0
      BY <1>2 DEF Restart, Start, BrokerRestart, BrokerStarts, Background, Notices,
        DotNetRecovers, Undisturbed, Calm, Connected
    <2>2. UNCHANGED faults
      BY <1>2 DEF Restart, BrokerRestart, Background
    <2>3. QED
      BY <2>1, <2>2 DEF Undisturbed, SmoothRun
  <1>3. CASE UNCHANGED vars
    BY <1>3 DEF vars, linkVars, storeVars, systemVars, Undisturbed, Calm, Connected,
      SmoothRun, Stored
  <1>4. QED
    BY <1>1, <1>2, <1>3, HandleSmooth DEF Next, Quiet

\* On a day without faults a 201 finds its event in the queue, and nobody is
\* told of a server error that is not the request's own.
THEOREM RunsSmoothly == Spec => []SmoothRun
  <1>1. Init => Undisturbed /\ SmoothRun
    BY DEF Init, FreshConn, Undisturbed, Calm, Connected, SmoothRun
  <1>2. QED
    BY <1>1, NextSmooth, Invariance, PTL DEF Spec

-----------------------------------------------------------------------------
(***************************************************************************)
(* Why handlers come to their end.  Progressing says what a handler brings *)
(* along to each stage: the rules its body has passed, lines still to be   *)
(* inserted, a service that is up and has connected if it connects at all  *)
(* before it listens.  Gains says what a step of r adds to it.             *)
(***************************************************************************)
RulesSoFar ==
  \A r \in Req :
    /\ pc[r] \in {"resolve", "exists"} => Accepts(serves[r], body[r])
    /\ pc[r] \in {"insert", "lines", "commit", "publish", "respond"} \/ Stored(r)
         => Admits(serves[r], body[r])

StepsLeft ==
  \A r \in Req :
    /\ pc[r] = "resolve" => serves[r] = "dotnet"
    /\ pc[r] = "lines" => InsertedLines(r) # LineNos(body[r])
    /\ InFlight(r) => serves[r] \in running

\* A service that connects before it listens has had a connection since.
EagerHaveConnected == \A s \in running \cap EagerConnect : conn[s] # "none"

Progressing == RulesSoFar /\ StepsLeft /\ EagerHaveConnected

Gains(r) ==
  /\ Advances(r)
  /\ pc'[r] \in {"resolve", "exists"} => Accepts(serves[r], body[r])
  /\ pc'[r] \in {"insert", "lines", "commit", "publish", "respond"}
       => Admits(serves[r], body[r])
  /\ pc'[r] = "resolve" => serves[r] = "dotnet"
  /\ pc'[r] = "lines" => InsertedLines(r)' # LineNos(body[r])
  /\ \A s \in Services : conn'[s] = "none" => conn[s] = "none"

\* The stages in their order.
LEMMA Ranks ==
  /\ Rank["new"] = 0 /\ Rank["received"] = 1 /\ Rank["resolve"] = 2
  /\ Rank["exists"] = 3 /\ Rank["insert"] = 4 /\ Rank["lines"] = 5
  /\ Rank["commit"] = 6 /\ Rank["publish"] = 7 /\ Rank["respond"] = 8
  /\ Rank["done"] = 9
  BY DEF Rank

\* No service admits a bill without lines.
LEMMA AdmittedHaveLines ==
  ASSUME NEW s \in Services, NEW b \in Payload, Admits(s, b)
  PROVE  LineNos(b) # {}
  <1>1. b.lines # <<>>
    BY DeploymentAssumption DEF Service, Admits, Accepts, PyDto, GoDto, DotNetDto, JavaDto,
      KotlinDto, NodeDto, RustDto
  <1>2. b.lines \in Seq(LineType)
    BY PayloadAssumption DEF PayloadType
  <1>3. Len(b.lines) \in Nat \ {0}
    BY <1>1, <1>2
  <1>4. 1 \in LineNos(b)
    BY <1>3 DEF LineNos
  <1>5. QED
    BY <1>4

\* An answer ends a handler, whatever its stage.
LEMMA AnswerGains ==
  ASSUME Inv, NEW r \in Req, pc[r] # "done", NEW a, Reply(r, a),
         \A s \in Services : conn'[s] = "none" => conn[s] = "none"
  PROVE  Gains(r)
  <1>1. pc'[r] = "done" /\ pc[r] \in Stage
    BY DEF Reply, Inv, TypeOK, RequestTypeOK
  <1>2. Rank[pc[r]] < Rank[pc'[r]]
    BY <1>1, Ranks DEF Stage
  <1>3. QED
    BY <1>1, <1>2 DEF Gains, Advances

\* A handler that goes on to a later stage brings along what is asked there.
LEMMA StageGains ==
  ASSUME Inv, NEW r \in Req, NEW x \in Stage, Goto(r, x), Rank[pc[r]] < Rank[x],
         x \in {"resolve", "exists"} => Accepts(serves[r], body[r]),
         x \in {"insert", "lines", "commit", "publish", "respond"}
           => Admits(serves[r], body[r]),
         x = "resolve" => serves[r] = "dotnet",
         x = "lines" => InsertedLines(r)' # LineNos(body[r]),
         \A s \in Services : conn'[s] = "none" => conn[s] = "none"
  PROVE  Gains(r)
  <1>1. pc'[r] = x
    BY DEF Goto, Inv, TypeOK, RequestTypeOK
  <1>2. QED
    BY <1>1 DEF Gains, Advances

\* The rules before the look-up.
LEMMA FilterGains ==
  ASSUME Inv, Progressing, NEW r \in Req, pc[r] = "received", NEW ok,
         NEW next \in {"resolve", "exists"}, NEW refusal, Filter(r, ok, next, refusal),
         ok => Accepts(serves[r], body[r]), next = "resolve" => serves[r] = "dotnet"
  PROVE  Gains(r)
  <1>1. CASE ok /\ Goto(r, next)
    BY <1>1, StageGains, Ranks DEF Filter, linkVars, Stage
  <1>2. CASE Reply(r, refusal)
    BY <1>2, AnswerGains DEF Filter, linkVars
  <1>3. QED
    BY <1>1, <1>2 DEF Filter

\* The look-up and the rules after it.
LEMMA LookUpGains ==
  ASSUME Inv, Progressing, NEW r \in Req, pc[r] = "exists", NEW found, NEW ok,
         NEW conflict, NEW invalid, LookUp(r, found, ok, conflict, invalid),
         ok => Domain(serves[r], body[r])
  PROVE  Gains(r)
  <1>1. CASE ok /\ Goto(r, "insert")
    <2>1. Admits(serves[r], body[r])
      BY <1>1 DEF Progressing, RulesSoFar, Admits
    <2>2. QED
      BY <1>1, <2>1, StageGains, Ranks DEF LookUp, linkVars, Stage
  <1>2. CASE Reply(r, conflict) \/ Reply(r, invalid)
    BY <1>2, AnswerGains DEF LookUp, linkVars
  <1>3. QED
    BY <1>1, <1>2 DEF LookUp

\* A bill that is inserted has all its lines before it.
LEMMA InsertBillGains ==
  ASSUME Inv, Progressing, NEW r \in Req, pc[r] = "insert", NEW conflict, NEW misfit,
         TryInsertBill(r, conflict, misfit)
  PROVE  Gains(r)
  <1>1. CASE InsertBill(r, number[r]) /\ Goto(r, "lines")
    <2>1. Admits(serves[r], body[r])
      BY DEF Progressing, RulesSoFar
    <2>2. LineNos(body[r]) # {}
      BY <2>1, AdmittedHaveLines DEF Inv, TypeOK, RequestTypeOK
    <2>3. InsertedLines(r)' = {}
      BY <1>1 DEF InsertBill, InsertedLines, Inv, StageOfLines
    <2>4. QED
      BY <1>1, <2>1, <2>2, <2>3, StageGains, Ranks DEF TryInsertBill, linkVars, Stage
  <1>2. CASE Reply(r, conflict) \/ Reply(r, misfit)
    BY <1>2, AnswerGains DEF TryInsertBill, linkVars
  <1>3. QED
    BY <1>1, <1>2 DEF TryInsertBill

\* All lines go in at once.
LEMMA InsertLinesGains ==
  ASSUME Inv, Progressing, NEW r \in Req, pc[r] = "lines", NEW misfit,
         TryInsertLines(r, misfit)
  PROVE  Gains(r)
  <1>1. CASE Goto(r, "commit")
    BY <1>1, StageGains, Ranks DEF TryInsertLines, linkVars, Stage, Progressing, RulesSoFar
  <1>2. CASE Reply(r, misfit)
    BY <1>2, AnswerGains DEF TryInsertLines, linkVars
  <1>3. QED
    BY <1>1, <1>2 DEF TryInsertLines

\* One line more, and on to the commit after the last.
LEMMA NextLineGains ==
  ASSUME Inv, Progressing, NEW r \in Req, pc[r] = "lines", NEW misfit,
         TryInsertNextLine(r, misfit)
  PROVE  Gains(r)
  <1> DEFINE todo == LineNos(body[r]) \ InsertedLines(r)
  <1>1. PICK i \in todo :
          /\ \/ /\ InsertLines(r, {i})
                /\ Goto(r, IF todo = {i} THEN "commit" ELSE "lines")
             \/ Reply(r, misfit)
          /\ UNCHANGED linkVars
    BY DEF TryInsertNextLine
  <1>2. Admits(serves[r], body[r])
    BY DEF Progressing, RulesSoFar
  <1>3. CASE Reply(r, misfit)
    BY <1>1, <1>3, AnswerGains DEF linkVars
  <1>4. CASE InsertLines(r, {i}) /\ todo = {i} /\ Goto(r, "commit")
    BY <1>1, <1>2, <1>4, StageGains, Ranks DEF linkVars, Stage
  <1>5. CASE InsertLines(r, {i}) /\ todo # {i} /\ Goto(r, "lines")
    <2>1. InsertedLines(r)' = InsertedLines(r) \cup {i}
      BY <1>5, AddedLines
    <2>2. InsertedLines(r)' # LineNos(body[r]) /\ InsertedLines(r)' # InsertedLines(r)
      BY <1>5, <2>1
    <2>3. pc'[r] = "lines"
      BY <1>5 DEF Goto, Inv, TypeOK, RequestTypeOK
    <2>4. QED
      BY <1>1, <1>2, <2>1, <2>2, <2>3 DEF Gains, Advances, linkVars
  <1>6. QED
    BY <1>1, <1>3, <1>4, <1>5

\* A COMMIT leads on to the publishing.
LEMMA CommitGains ==
  ASSUME Inv, Progressing, NEW r \in Req, pc[r] = "commit", TryCommit(r)
  PROVE  Gains(r)
  BY StageGains, Ranks DEF TryCommit, linkVars, Stage, Progressing, RulesSoFar

\* A publish that returns leads on to the answer.
LEMMA SentGains ==
  ASSUME Inv, Progressing, NEW r \in Req, pc[r] = "publish", NEW s,
         NEW c \in ConnState \ {"none"}, Sent(s, r, c) \/ SentNowhere(s, r, c)
  PROVE  Gains(r)
  <1>1. Goto(r, "respond") /\ \A q \in Services : conn'[q] = "none" => conn[q] = "none"
    BY DEF Sent, SentNowhere, Deliver, Lose, Inv, TypeOK, BrokerTypeOK
  <1>2. QED
    BY <1>1, StageGains, Ranks DEF Stage, Progressing, RulesSoFar

\* A publish that raises ends in an answer.
LEMMA UnsentGains ==
  ASSUME Inv, NEW r \in Req, pc[r] \in {"publish", "respond"}, NEW s,
         NEW c \in ConnState, c # "none" \/ c = conn[s], NEW as, Unsent(s, r, c, as)
  PROVE  Gains(r)
  <1>1. \A q \in Services : conn'[q] = "none" => conn[q] = "none"
    BY DEF Unsent, Lose, Inv, TypeOK, BrokerTypeOK
  <1>2. QED
    BY <1>1, AnswerGains DEF Unsent, ReplyOneOf

\* A publisher that connects has the connection afterwards.
LEMMA ConnectingGains ==
  ASSUME Inv, Progressing, NEW r \in Req, pc[r] = "publish", NEW s, s = serves[r],
         Unconnected(s), Reconnected(s)
  PROVE  Gains(r)
  <1>1. s \in Services /\ Admits(s, body[r])
    BY DEF Inv, TypeOK, RequestTypeOK, Progressing, RulesSoFar
  <1>2. conn' = [conn EXCEPT ![s] = "open"] /\ UNCHANGED pc
    BY DEF Reconnected, Lose
  <1>3. conn'[s] = "open" /\ \A q \in Services : conn'[q] = "none" => conn[q] = "none"
    BY <1>1, <1>2 DEF Inv, TypeOK, BrokerTypeOK
  <1>4. QED
    BY <1>1, <1>2, <1>3 DEF Gains, Advances

\* A publisher that keeps a connection, and opens another one when it is closed.
LEMMA ReconnectingGains ==
  ASSUME Inv, Progressing, NEW r \in Req, pc[r] = "publish", NEW s, s = serves[r],
         NEW refused, NEW broken, PublishReconnecting(s, r, refused, broken)
  PROVE  Gains(r)
  <1>1. s \in Services /\ conn[s] \in ConnState /\ Admits(s, body[r])
    BY DEF Inv, TypeOK, RequestTypeOK, BrokerTypeOK, Progressing, RulesSoFar
  <1>2. CASE Unconnected(s) /\ Reconnected(s)
    BY <1>2, ConnectingGains
  <1>3. CASE \/ Sent(s, r, "open") \/ SentNowhere(s, r, "stale")
    BY <1>3, SentGains DEF ConnState
  <1>4. CASE Unsent(s, r, conn[s], refused) \/ Unsent(s, r, "closed", broken)
    BY <1>1, <1>4, UnsentGains DEF ConnState
  <1>5. QED
    BY <1>2, <1>3, <1>4 DEF PublishReconnecting

\* The last answer.
LEMMA RespondGains ==
  ASSUME Inv, NEW r \in Req, pc[r] = "respond", Respond(r)
  PROVE  Gains(r)
  BY AnswerGains DEF Respond, linkVars

\* Every step of a handler gains something, service by service.
LEMMA StepGains ==
  ASSUME Inv, Progressing, NEW r \in Req, Step(r)
  PROVE  Gains(r)
  <1> USE FilterGains, LookUpGains, InsertBillGains, InsertLinesGains, NextLineGains,
          CommitGains, ReconnectingGains, RespondGains DEF At
  <1>1. CASE PyStep(r)
    BY <1>1 DEF PyStep, PyReceive, PyExists, PyInsertBill, PyInsertLines, PyCommit,
      PyPublish, PyRespond, Accepts, Domain
  <1>2. CASE GoStep(r)
    BY <1>2 DEF GoStep, GoReceive, GoExists, GoInsertBill, GoInsertLines, GoCommit,
      GoPublish, GoRespond, Accepts, Domain
  <1>3. CASE DotNetStep(r)
    <2>1. CASE DotNetResolve(r)
      <3>1. \A s \in Services : conn'[s] = "none" => conn[s] = "none"
        BY <2>1 DEF DotNetResolve, Lose, linkVars, Inv, TypeOK, BrokerTypeOK
      <3>2. Accepts(serves[r], body[r])
        BY <2>1 DEF DotNetResolve, Progressing, RulesSoFar
      <3>3. QED
        BY <2>1, <3>1, <3>2, StageGains, AnswerGains, Ranks DEF DotNetResolve, Stage
    <2>2. CASE DotNetReceive(r)
      <3>1. \/ DotNetBinds(body[r]) /\ Filter(r, DotNetDto(body[r]), "resolve", "400")
            \/ Filter(r, FALSE, "resolve", "500")
        BY <2>2 DEF DotNetReceive
      <3>2. QED
        BY <2>2, <3>1 DEF DotNetReceive, Accepts
    <2>3. CASE ~DotNetResolve(r) /\ ~DotNetReceive(r)
      BY <1>3, <2>3 DEF DotNetStep, DotNetExists, DotNetInsertBill, DotNetInsertLines,
        DotNetCommit, DotNetPublish, DotNetRespond, Domain
    <2>4. QED
      BY <2>1, <2>2, <2>3
  <1>4. CASE JavaStep(r)
    BY <1>4 DEF JavaStep, JavaReceive, JavaExists, JavaInsertBill, JavaInsertLines,
      JavaCommit, JavaPublish, JavaRespond, Accepts, Domain
  <1>5. CASE KotlinStep(r)
    BY <1>5 DEF KotlinStep, KotlinReceive, KotlinExists, KotlinInsertBill,
      KotlinInsertLines, KotlinCommit, KotlinPublish, KotlinRespond, Accepts, Domain
  <1>6. CASE NodeStep(r)
    <2>1. CASE NodePublish(r)
      BY <2>1, ConnectingGains, SentGains, UnsentGains DEF NodePublish, ConnState
    <2>2. CASE NodeReceive(r)
      <3>1. \/ NodeBinds(body[r]) /\ Filter(r, NodeDto(body[r]), "exists", "400")
            \/ Filter(r, FALSE, "exists", "500")
        BY <2>2 DEF NodeReceive
      <3>2. QED
        BY <2>2, <3>1 DEF NodeReceive, Accepts
    <2>3. CASE ~NodePublish(r) /\ ~NodeReceive(r)
      BY <1>6, <2>3 DEF NodeStep, NodeExists, NodeInsertBill, NodeInsertLines, NodeCommit,
        NodeRespond, Domain
    <2>4. QED
      BY <2>1, <2>2, <2>3
  <1>7. CASE RustStep(r)
    <2>1. CASE RustPublish(r)
      BY <2>1, SentGains, UnsentGains DEF RustPublish, ConnState
    <2>2. CASE ~RustPublish(r)
      BY <1>7, <2>2 DEF RustStep, RustReceive, RustExists, RustInsertBill, RustInsertLines,
        RustCommit, RustRespond, Accepts, Domain
    <2>3. QED
      BY <2>1, <2>2
  <1>8. QED
    BY <1>1, <1>2, <1>3, <1>4, <1>5, <1>6, <1>7 DEF Step

\* A request that comes in gains its first stage, one that is cut short its end.
LEMMA OtherGains ==
  ASSUME Inv, Progressing, NEW r \in Req, Post(r) \/ Mishap(r)
  PROVE  Gains(r)
  <1>1. conn[serves[r]] \in ConnState
    BY DEF Inv, TypeOK, RequestTypeOK, BrokerTypeOK
  <1>2. CASE Post(r)
    BY <1>2, StageGains, Ranks DEF Post, linkVars, Stage
  <1>3. CASE \E as : DbBreaks(r, as)
    BY <1>3, AnswerGains DEF DbBreaks, ReplyOneOf, DbStages, linkVars
  <1>4. CASE GoTooLate(r) \/ DotNetTooLate(r)
    BY <1>1, <1>4, UnsentGains DEF GoTooLate, DotNetTooLate, At
  <1>5. CASE RustDropped(r)
    <2>1. CASE Unsent("rust", r, conn["rust"], {"gone"}) /\ pc[r] \in {"publish", "respond"}
      BY <1>1, <1>5, <2>1, UnsentGains DEF RustDropped
    <2>2. CASE pc[r] = "publish" /\ Deliver("rust", r, "open") /\ Reply(r, "gone")
      BY <2>2, AnswerGains DEF Deliver, Inv, TypeOK, BrokerTypeOK
    <2>3. QED
      BY <1>3, <1>5, <2>1, <2>2 DEF RustDropped
  <1>6. QED
    BY <1>2, <1>3, <1>4, <1>5 DEF Mishap, PyFails, GoFails, DotNetFails, JavaFails,
      KotlinFails, NodeFails, RustFails

\* What one request gains is lost by no other.
LEMMA GainsProgress ==
  ASSUME Inv, Progressing, NEW r \in Req, OneOf(r), Gains(r),
         serves[r] \in running, UNCHANGED <<requestVars, running>>
  PROVE  Progressing'
  <1>1. UNCHANGED <<serves, body, running>>
    BY DEF requestVars
  <1>2. ASSUME NEW q \in Req, q # r
        PROVE  /\ pc'[q] = pc[q] /\ Stored(q)' = Stored(q)
               /\ InsertedLines(q)' = InsertedLines(q)
    <2>1. InsertedLines(q)' = InsertedLines(q)
      <3>1. CASE \E nos : InsertLines(r, nos)
        BY <1>2, <3>1, AddedLines
      <3>2. CASE \E committed \in SUBSET {r} : Settle({r}, committed)
        BY <1>2, <3>2, Settled
      <3>3. CASE UNCHANGED newLine
        BY <3>3 DEF InsertedLines
      <3>4. QED
        BY <3>1, <3>2, <3>3 DEF OneOf, Move, Insert, InsertBill, AddLines, Store, Commit,
          Announce, Idle, Close, storeVars
    <2>2. QED
      BY <1>2, <2>1, OthersStay
  <1>3. Stored(r)' => Stored(r) \/ pc[r] = "commit"
    BY Settled DEF OneOf, Move, Insert, InsertBill, AddLines, InsertLines, Store, Commit,
      Announce, Idle, Close, storeVars, Stored
  <1>4. RulesSoFar'
    BY <1>1, <1>2, <1>3 DEF Gains, Progressing, RulesSoFar
  <1>5. StepsLeft'
    BY <1>1, <1>2 DEF Gains, Progressing, StepsLeft, InFlight, LineNos
  <1>6. EagerHaveConnected'
    BY <1>1 DEF Gains, Progressing, EagerHaveConnected, Inv, TypeOK
  <1>7. QED
    BY <1>4, <1>5, <1>6 DEF Progressing

\* A crash ends what the service was handling, with its own bills at most.
LEMMA CrashProgress ==
  ASSUME Inv, Progressing, NEW s \in Services, Crash(s), UNCHANGED requestVars
  PROVE  Progressing'
  <1>1. UNCHANGED <<serves, body>> /\ running' = running \ {s}
    BY DEF requestVars, Crash
  <1>2. PICK committed \in SUBSET {q \in InFlightAt(s) : pc[q] = "commit"} :
           Settle(InFlightAt(s), committed)
    BY DEF Crash
  <1>3. \A q \in Req : /\ pc'[q] = IF q \in InFlightAt(s) THEN "done" ELSE pc[q]
                       /\ Stored(q)' => Stored(q) \/ pc[q] = "commit"
                       /\ q \notin InFlightAt(s) => InsertedLines(q)' = InsertedLines(q)
    BY <1>2, Settled DEF Crash
  <1>4. RulesSoFar'
    BY <1>1, <1>3 DEF Progressing, RulesSoFar
  <1>5. StepsLeft'
    BY <1>1, <1>3 DEF Progressing, StepsLeft, InFlight, InFlightAt, LineNos
  <1>6. EagerHaveConnected'
    BY <1>1 DEF Progressing, EagerHaveConnected, Crash, Inv, TypeOK, BrokerTypeOK
  <1>7. QED
    BY <1>4, <1>5, <1>6 DEF Progressing

\* A step aside of the requests only connects, or loses a connection there was.
LEMMA AsideProgress ==
  ASSUME Inv, Progressing, UNCHANGED <<storeVars, requestVars, pc>>, running \subseteq running',
         \A s \in running' \cap EagerConnect : conn'[s] = "none" => s \in running /\ conn[s] = "none"
  PROVE  Progressing'
  <1>1. UNCHANGED <<serves, body>>
    BY DEF requestVars
  <1>2. \A q \in Req : Stored(q)' = Stored(q) /\ InsertedLines(q)' = InsertedLines(q)
    BY DEF storeVars, Stored, InsertedLines
  <1>3. RulesSoFar' /\ StepsLeft'
    BY <1>1, <1>2 DEF Progressing, RulesSoFar, StepsLeft, InFlight, LineNos
  <1>4. EagerHaveConnected'
    BY DEF Progressing, EagerHaveConnected
  <1>5. QED
    BY <1>3, <1>4 DEF Progressing

\* Only a handler that is under way takes a step or meets with a mishap.
LEMMA BusySteps ==
  ASSUME NEW r \in Req, Step(r) \/ Mishap(r)
  PROVE  InFlight(r)
  BY DEF InFlight, At, DbBreaks, DbStages, Step, Mishap,
    PyStep, PyReceive, PyExists, PyInsertBill, PyInsertLines, PyCommit, PyPublish, PyRespond,
    GoStep, GoReceive, GoExists, GoInsertBill, GoInsertLines, GoCommit, GoPublish, GoRespond,
    DotNetStep, DotNetReceive, DotNetResolve, DotNetExists, DotNetInsertBill,
    DotNetInsertLines, DotNetCommit, DotNetPublish, DotNetRespond,
    JavaStep, JavaReceive, JavaExists, JavaInsertBill, JavaInsertLines, JavaCommit,
    JavaPublish, JavaRespond,
    KotlinStep, KotlinReceive, KotlinExists, KotlinInsertBill, KotlinInsertLines,
    KotlinCommit, KotlinPublish, KotlinRespond,
    NodeStep, NodeReceive, NodeExists, NodeInsertBill, NodeInsertLines, NodeCommit,
    NodePublish, NodeRespond,
    RustStep, RustReceive, RustExists, RustInsertBill, RustInsertLines, RustCommit,
    RustPublish, RustRespond,
    PyFails, GoFails, GoTooLate, DotNetFails, DotNetTooLate, JavaFails, KotlinFails,
    NodeFails, RustFails, RustDropped

\* Every step of the arena keeps what handlers need to go on.
LEMMA NextProgress == Inv /\ Progressing /\ [Next]_vars => Progressing'
  <1> SUFFICES ASSUME Inv, Progressing, [Next]_vars PROVE Progressing'
    OBVIOUS
  <1>1. conn \in [Services -> ConnState] /\ running \subseteq Services
    BY DEF Inv, TypeOK, BrokerTypeOK
  <1>2. CASE Handle \/ BadLuck
    <2>1. PICK r \in Req : Post(r) \/ Step(r) \/ Mishap(r)
      BY <1>2 DEF Handle, BadLuck
    <2>2. Gains(r) /\ OneOf(r)
      BY <2>1, StepGains, OtherGains, StepKind DEF Kind
    <2>3. serves[r] \in running
      <3>1. CASE Post(r)
        BY <3>1 DEF Post
      <3>2. CASE ~Post(r)
        BY <2>1, <3>2, BusySteps DEF Progressing, StepsLeft
      <3>3. QED
        BY <3>1, <3>2
    <2>4. QED
      BY <1>2, <2>2, <2>3, GainsProgress DEF Handle, BadLuck, systemVars
  <1>3. CASE Outage
    BY <1>3, CrashProgress DEF Outage
  <1>4. CASE Restart
    BY <1>1, <1>4, AsideProgress DEF Restart, Start, FreshConn
  <1>5. CASE BrokerOutage \/ BrokerRestart \/ Background
    BY <1>1, <1>5, AsideProgress DEF BrokerOutage, BrokerStops, BrokerDrops, BrokerRestart,
      BrokerStarts, Background, Notices, DotNetRecovers, Lose, linkVars
  <1>6. CASE UNCHANGED vars
    BY <1>6, AsideProgress DEF vars, linkVars, systemVars
  <1>7. QED
    BY <1>2, <1>3, <1>4, <1>5, <1>6 DEF Next, Quiet

\* At the beginning nothing is under way, and what has to be connected is.
LEMMA InitProgress == Init => Progressing
  BY DEF Init, StoreInit, FreshConn, Progressing, RulesSoFar, StepsLeft,
    EagerHaveConnected, InFlight, Stored

\* A handler has at each stage what it needs to go on.
LEMMA Progress == Spec => [](Inv /\ Progressing)
  <1>1. Inv /\ Progressing /\ [Next]_vars => (Inv /\ Progressing)'
    BY NextInv, NextProgress
  <1>2. QED
    BY InitInv, InitProgress, <1>1, PTL DEF Spec

-----------------------------------------------------------------------------
\* What is stored has passed every rule of the service that stored it.
THEOREM RulesAreApplied == Spec => []RulesApplied
  <1>1. Inv /\ Progressing => RulesApplied
    BY DEF Inv, StageOfRows, Progressing, RulesSoFar, RulesApplied
  <1>2. QED
    BY <1>1, Progress, PTL

\* Handlers go forward: by a stage, by a line or by a connection with each step
\* of their own, and never back.
THEOREM HandlersGoForward == Spec => HandlersAdvance
  <1>1. ASSUME Inv, Progressing, [Next]_vars
        PROVE  /\ \A r \in Req : Rank[pc[r]] <= Rank[pc'[r]]
               /\ \A r \in Req : HandleOf(r) => Advances(r)
    <2>1. \A x \in Stage : Rank[x] \in 0..9 /\ Rank[x] <= Rank["done"]
      BY Ranks DEF Stage
    <2>2. \A q \in Req : pc[q] \in Stage
      BY <1>1 DEF Inv, TypeOK, RequestTypeOK
    <2>3. ASSUME NEW r \in Req, HandleOf(r) PROVE Advances(r)
      BY <1>1, <2>3, StepGains DEF HandleOf, Gains
    <2>4. CASE Handle \/ BadLuck
      <3>1. PICK r \in Req : Post(r) \/ Step(r) \/ Mishap(r)
        BY <2>4 DEF Handle, BadLuck
      <3>2. Advances(r) /\ OneOf(r)
        BY <1>1, <3>1, StepGains, OtherGains, StepKind DEF Kind, Gains
      <3>3. pc'[r] \in Stage
        BY <1>1, NextInv DEF Inv, TypeOK, RequestTypeOK
      <3>4. Rank[pc[r]] < Rank[pc'[r]] \/ pc'[r] = pc[r]
        BY <3>2 DEF Advances
      <3>5. \A q \in Req \ {r} : pc'[q] = pc[q]
        BY <1>1, <3>2, OthersStay
      <3>6. QED
        BY <2>1, <2>2, <2>3, <3>3, <3>4, <3>5
    <2>5. CASE Outage
      <3>1. \A q \in Req : pc'[q] = "done" \/ pc'[q] = pc[q]
        BY <2>5 DEF Outage, Crash
      <3>2. QED
        BY <2>1, <2>2, <2>3, <3>1
    <2>6. CASE UNCHANGED pc
      BY <2>1, <2>2, <2>3, <2>6
    <2>7. QED
      BY <1>1, <2>4, <2>5, <2>6 DEF Next, Restart, Start, BrokerOutage, BrokerRestart,
        Background, Quiet, vars
  <1>2. Inv /\ Progressing /\ [Next]_vars =>
          [/\ \A r \in Req : Rank[pc[r]] <= Rank[pc'[r]]
           /\ \A r \in Req : HandleOf(r) => Advances(r)]_vars
    BY <1>1
  <1>3. QED
    BY <1>2, Progress, PTL DEF Spec, HandlersAdvance

\* A handler under way can go on, or waits for a number whose holder can.
THEOREM NobodyIsStuck == Spec => []NobodyStuck
  <1>1. ASSUME Inv, Progressing, NEW r \in Req, InFlight(r)
        PROVE  \/ CanGoOn(r)
               \/ /\ pc[r] = "insert"
                  /\ \E q \in Req : Open(q) /\ number[q] = number[r] /\ CanGoOn(q)
    <2>1. pc[r] \in Stage \ {"new", "done"}
      BY <1>1 DEF InFlight, Inv, TypeOK, RequestTypeOK
    <2>2. CASE pc[r] = "insert" /\ ~CanGoOn(r)
      <3>1. PICK b \in newBill : b.number = number[r]
        BY <2>2 DEF CanGoOn, Held
      <3>2. b.id \in Req /\ Open(b.id) /\ number[b.id] = number[r]
        BY <1>1, <3>1 DEF Inv, TypeOK, StoreTypeOK, Row, Open, RowsAreOfRequests, Rows
      <3>3. CanGoOn(b.id)
        BY <1>1, <3>2 DEF Inv, StageOfRows, Progressing, StepsLeft, CanGoOn
      <3>4. QED
        BY <2>2, <3>2, <3>3
    <2>3. CASE pc[r] = "publish"
      <3>1. serves[r] = "rust" => serves[r] \in running \cap EagerConnect
        BY <1>1, <2>3 DEF Progressing, StepsLeft, EagerConnect
      <3>2. QED
        BY <1>1, <2>3, <3>1 DEF Progressing, EagerHaveConnected, CanGoOn
    <2>4. CASE pc[r] \in {"received", "resolve", "exists", "lines", "commit", "respond"}
      BY <1>1, <2>4 DEF Progressing, StepsLeft, CanGoOn
    <2>5. QED
      BY <2>1, <2>2, <2>3, <2>4 DEF Stage
  <1>2. Inv /\ Progressing => NobodyStuck
    BY <1>1 DEF NobodyStuck
  <1>3. QED
    BY <1>2, Progress, PTL
=============================================================================
