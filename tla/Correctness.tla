----------------------------- MODULE Correctness -----------------------------
(***************************************************************************)
(* What is claimed of the arena.                                           *)
(***************************************************************************)
EXTENDS Arena

RequestTypeOK ==
  /\ serves \in [Req -> Services]
  /\ body \in [Req -> Payload]
  /\ number \in [Req -> Number]
  /\ pc \in [Req -> Stage]
  /\ answer \in [Req -> Answer]

\* The variables have their types, and a request has an answer exactly when
\* its handler has ended.
TypeOK ==
  /\ StoreTypeOK
  /\ BrokerTypeOK
  /\ RequestTypeOK
  /\ running \subseteq Services
  /\ faults \in 0..MaxFaults
  /\ \A r \in Req : answer[r] # "none" <=> pc[r] = "done"

-----------------------------------------------------------------------------
Rows == bill \cup newBill

\* No two bills, committed or about to be, share a number: the look-up that
\* every service makes first cannot see what others are inserting, the
\* unique index can (db/seed.sql:3).
UniqueNumbers == \A b, c \in Rows : b.number = c.number => b = c

\* A bill is stored with all the lines of its request, and no line is stored
\* without its bill, whatever breaks between the INSERT statements.
WholeBills ==
  \A r \in Req : StoredLines(r) = IF Stored(r) THEN LineNos(body[r]) ELSE {}

\* The queue holds at most one event of a request, and only of a stored bill:
\* every service publishes after its commit, and nobody publishes again.
EventHasBill ==
  \A r \in Req : queued[r] = 0 \/ (queued[r] = 1 /\ Stored(r))

\* A 201 is only given for a bill that is stored; a 400 or a 409 means that
\* the request left nothing behind, neither rows nor an event.
AnswerMeansEffect ==
  \A r \in Req :
    /\ answer[r] = "201" => Stored(r)
    /\ answer[r] \in {"400", "409"} => ~Stored(r) /\ queued[r] = 0

Fits(r) == BillFits(body[r]) /\ LinesFit(body[r])

\* A 409 means that another request has stored a bill with this number. The
\* one exception is a numeric overflow in the Java and Kotlin services.
ConflictIsReal ==
  \A r \in Req :
    answer[r] = "409" =>
      \/ Taken(number[r]) /\ ~Stored(r)
      \/ serves[r] \in {"java", "kotlin"} /\ ~Fits(r)

\* "Bill number ... already exists" is true whenever it is said
\* (CreateBillService.java:61, CreateBillService.kt:44).
AlreadyExists == \A r \in Req : answer[r] = "409" => Taken(number[r])

\* Outside Node a 503 means that the bill is stored and only its event may be
\* missing: repeating the request cannot succeed.
BrokerErrorMeansStored ==
  \A r \in Req : answer[r] = "503" /\ serves[r] # "node" => Stored(r)

\* Rows of an open transaction belong to a handler that is still to commit or
\* roll back: no way out of a handler leaves a number locked.
NoStrandedRows ==
  /\ \A b \in newBill : pc[b.id] \in {"lines", "commit"}
  /\ \A l \in newLine : \E b \in newBill : b.id = l.bill

\* When nothing has gone wrong, a client that is told 201 finds the event in
\* the queue, and nobody is told of a server error unless the request itself
\* was one the service chokes on.
SmoothRun ==
  faults = 0 =>
    \A r \in Req :
      /\ answer[r] = "201" => queued[r] = 1
      /\ answer[r] # "503"
      /\ answer[r] = "500" => ~Stored(r)

-----------------------------------------------------------------------------
(***************************************************************************)
(* Why it holds.  The stage of a handler says which rows its request has:  *)
(* none before the INSERT, uncommitted ones up to the commit, stored ones  *)
(* up to the answer.                                                       *)
(***************************************************************************)
Early == {"new", "received", "resolve", "exists", "insert"}

Open(r) == \E b \in newBill : b.id = r

RowsAreOfRequests == \A b \in Rows : b.number = number[b.id]

StageOfRows ==
  \A r \in Req :
    /\ Open(r) <=> pc[r] \in {"lines", "commit"}
    /\ Stored(r) => pc[r] \in {"publish", "respond", "done"}
    /\ pc[r] \in {"publish", "respond"} => Stored(r)

StageOfLines ==
  \A r \in Req :
    /\ InsertedLines(r) \subseteq LineNos(body[r])
    /\ pc[r] \notin {"lines", "commit"} => InsertedLines(r) = {}
    /\ pc[r] = "commit" => InsertedLines(r) = LineNos(body[r])

StageOfEvents == \A r \in Req : queued[r] > 0 => pc[r] \in {"respond", "done"}

\* The inductive invariant: what the stage of each handler says about its rows
\* in the database and its event in the queue, and what the answers say.
Inv ==
  /\ TypeOK
  /\ RowsAreOfRequests
  /\ UniqueNumbers
  /\ StageOfRows
  /\ StageOfLines
  /\ WholeBills
  /\ StageOfEvents
  /\ EventHasBill
  /\ AnswerMeansEffect

-----------------------------------------------------------------------------
\* The event of a bill is queued in a later step than the commit of the bill
\* ("Publish only after transaction commit", CreateBillService.kt:48).
EventAfterCommit ==
  [][\A r \in Req : queued'[r] # queued[r] => Stored(r)]_vars

\* Stored bills and lines stay, and once a request is answered nothing more
\* happens in its name: no late commit, no late event, no second answer.
NothingLate ==
  [][/\ bill \subseteq bill' /\ line \subseteq line'
     /\ \A r \in Req : answer[r] # "none" =>
          /\ answer'[r] = answer[r] /\ queued'[r] = queued[r]
          /\ Stored(r)' = Stored(r)]_vars

-----------------------------------------------------------------------------
\* A stored bill, and one about to be, has passed all the rules of its service,
\* those before the look-up and those after it.
RulesApplied ==
  \A r \in Req : Stored(r) \/ Open(r) => Admits(serves[r], body[r])

\* How far the handler of a request has come.
Rank ==
  [new |-> 0, received |-> 1, resolve |-> 2, exists |-> 3, insert |-> 4,
   lines |-> 5, commit |-> 6, publish |-> 7, respond |-> 8, done |-> 9]

\* r comes a stage further, inserts another line, or has its service connected.
Advances(r) ==
  \/ Rank[pc[r]] < Rank[pc'[r]]
  \/ /\ pc'[r] = pc[r]
     /\ \/ /\ InsertedLines(r) \subseteq InsertedLines(r)'
           /\ InsertedLines(r) # InsertedLines(r)'
        \/ Unconnected(serves[r]) /\ conn'[serves[r]] = "open"

\* No handler goes back a stage, whatever happens, and none of its own steps
\* leaves it where it was: no retry, reconnection or loop over lines runs idle.
HandlersAdvance ==
  [][/\ \A r \in Req : Rank[pc[r]] <= Rank[pc'[r]]
     /\ \A r \in Req : HandleOf(r) => Advances(r)]_vars

\* The handler of r has a next step: it is enabled to go on or to give up.
CanGoOn(r) ==
  \/ pc[r] \in {"received", "exists", "commit", "respond"}
  \/ pc[r] = "resolve" /\ serves[r] = "dotnet"
  \/ pc[r] = "insert" /\ (BillFits(body[r]) => Taken(number[r]) \/ ~Held(number[r]))
  \/ pc[r] = "lines" /\ InsertedLines(r) # LineNos(body[r])
  \/ pc[r] = "publish" /\ ~(serves[r] = "rust" /\ conn["rust"] = "none")

\* Nobody is stuck and nobody waits in a circle: a handler without a next step
\* waits for a number, and the one that holds it has a next step.
NobodyStuck ==
  \A r \in Req : InFlight(r) =>
    \/ CanGoOn(r)
    \/ /\ pc[r] = "insert"
       /\ \E q \in Req : Open(q) /\ number[q] = number[r] /\ CanGoOn(q)

\* A 201 without an event means that the message was written to a connection
\* that was dead, which the library had not noticed.  Whatever else loses an
\* event (a crash after the commit, a refused or a noticed dead connection, a
\* channel that stays closed, a deadline, a dropped future) is not concealed:
\* the client gets an error, or no answer.
OnlyDeadConnectionsLose ==
  [][\A r \in Req :
       /\ answer'[r] = "201" => answer[r] = "201" \/ pc[r] = "respond"
       /\ pc'[r] = "respond" =>
            \/ pc[r] = "respond"
            \/ queued'[r] = 1
            \/ conn[serves[r]] = "stale"]_vars

-----------------------------------------------------------------------------
\* Every request that reaches a service is answered, or its service crashes:
\* no handler waits for ever on a bill number that another one holds.
Answered == \A r \in Req : pc[r] = "received" ~> pc[r] = "done"

\* A request that has come to its commit gets its event into the queue, or its
\* client learns that something went wrong, or its publisher meets a connection
\* whose death the library has not noticed.
EventFollowsCommit ==
  \A r \in Req :
    pc[r] = "commit" ~>
      \/ queued[r] = 1
      \/ answer[r] \in Failures
      \/ pc[r] = "publish" /\ conn[serves[r]] = "stale"

-----------------------------------------------------------------------------
Promise == INSTANCE BillsContract WITH wanted <- [r \in Req |-> LineNos(body[r])]

\* All services together keep the contract.
Contract == Promise!Spec
=============================================================================
