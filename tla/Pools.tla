-------------------------------- MODULE Pools --------------------------------
(***************************************************************************)
(* The pools of database connections POST /bills draws on, one per         *)
(* service, and the bill numbers its transactions wait for.  A handler may *)
(* wait for a connection of its pool and, with a connection in hand, for   *)
(* the transaction of another handler that has inserted the same number:   *)
(* two kinds of waiting, in up to seven services, that must not close a    *)
(* circle.                                                                 *)
(***************************************************************************)
EXTENDS Naturals, FiniteSets

CONSTANTS
  Services,   \* the services that are deployed
  Request,    \* POST requests
  Number,     \* bill numbers
  PoolSize    \* connections in the pool of a service

ASSUME PoolAssumption == PoolSize \in Nat \ {0}

VARIABLES
  service,    \* the service each request is sent to
  number,     \* its bill number
  pc,         \* the stage of its handler
  held,       \* the requests that hold a connection of their service's pool
  inserted,   \* those whose bill is inserted and not committed
  taken       \* the numbers of committed bills

asked == <<service, number>>
vars == <<asked, pc, held, inserted, taken>>

DbStages == {"exists", "insert", "lines", "commit"}

\* Look-up and inserts are one transaction, or one SQLAlchemy session, on one
\* connection; elsewhere the look-up returns its connection.
OneConnection == {"py", "java", "kotlin"}

\* node-postgres waits for a connection as long as it takes.
Patient == {"node"}

Init ==
  /\ service \in [Request -> Services]
  /\ number \in [Request -> Number]
  /\ pc = [r \in Request |-> "exists"]
  /\ held = {} /\ inserted = {} /\ taken = {}

-----------------------------------------------------------------------------
Goto(r, stage) == pc' = [pc EXCEPT ![r] = stage]

Room(s) == Cardinality({q \in held : service[q] = s}) < PoolSize

Waits(r) == pc[r] \in {"exists", "insert"} /\ r \notin held

\* The pools are not fair: any of the waiting handlers may be served.
Acquire(r) ==
  /\ Waits(r) /\ Room(service[r])
  /\ held' = held \cup {r}
  /\ UNCHANGED <<pc, inserted, taken>>

Release(r) == held' = held \ {r}

\* Mutant: the connection is not given back on the way out.
QuitHolding(r) == Goto(r, "done") /\ UNCHANGED held /\ inserted' = inserted \ {r}

\* The transaction is rolled back and the connection goes back to the pool.
Quit(r) == Goto(r, "done") /\ Release(r) /\ inserted' = inserted \ {r}

TimesOut(r) ==
  /\ Waits(r) /\ ~Room(service[r]) /\ service[r] \notin Patient
  /\ Quit(r)
  /\ UNCHANGED taken

Exists(r) ==
  /\ pc[r] = "exists" /\ r \in held
  /\ \/ number[r] \in taken /\ Quit(r)
     \/ /\ number[r] \notin taken
        /\ Goto(r, "insert")
        /\ IF service[r] \in OneConnection THEN UNCHANGED held ELSE Release(r)
        /\ UNCHANGED inserted
  /\ UNCHANGED taken

\* Waits while another transaction holds the number (no disjunct is enabled).
InsertBill(r) ==
  /\ pc[r] = "insert" /\ r \in held
  /\ \/ number[r] \in taken /\ Quit(r)
     \/ /\ number[r] \notin taken \cup {number[q] : q \in inserted}
        /\ Goto(r, "lines")
        /\ inserted' = inserted \cup {r}
        /\ UNCHANGED held
  /\ UNCHANGED taken

\* Mutant: the lines are inserted on a connection of their own.
InsertLinesOutside(r) ==
  /\ pc[r] = "lines" /\ r \in held /\ Room(service[r])
  /\ Goto(r, "commit")
  /\ UNCHANGED <<held, inserted, taken>>

\* On the connection of the transaction.
InsertLines(r) ==
  /\ pc[r] = "lines" /\ r \in held
  /\ Goto(r, "commit")
  /\ UNCHANGED <<held, inserted, taken>>

Commit(r) ==
  /\ pc[r] = "commit"
  /\ taken' = taken \cup {number[r]}
  /\ inserted' = inserted \ {r}
  /\ Goto(r, "publish") /\ Release(r)

Publish(r) ==
  /\ pc[r] = "publish"
  /\ Goto(r, "done")
  /\ UNCHANGED <<held, inserted, taken>>

\* A statement fails, or the body breaks a domain rule, which is looked at
\* after the number.
Fails(r) ==
  /\ pc[r] \in DbStages
  /\ r \in held \/ pc[r] = "insert"
  /\ Quit(r)
  /\ UNCHANGED taken

-----------------------------------------------------------------------------
Step(r) ==
  /\ \/ Acquire(r) \/ Exists(r) \/ InsertBill(r) \/ InsertLines(r)
     \/ Commit(r) \/ Publish(r)
  /\ UNCHANGED asked

Mishap(r) == (TimesOut(r) \/ Fails(r)) /\ UNCHANGED asked

Quiet == (\A r \in Request : pc[r] = "done") /\ UNCHANGED vars

Next == (\E r \in Request : Step(r) \/ Mishap(r)) \/ Quiet

Spec == Init /\ [][Next]_vars /\ \A r \in Request : WF_vars(Step(r))

-----------------------------------------------------------------------------
TypeOK ==
  /\ service \in [Request -> Services] /\ number \in [Request -> Number]
  /\ pc \in [Request -> DbStages \cup {"publish", "done"}]
  /\ held \subseteq Request /\ inserted \subseteq Request
  /\ taken \subseteq Number

\* No way out of a handler, and nothing after its commit, keeps a connection.
NothingLeaks == \A r \in held : pc[r] \in DbStages

\* Every request is answered, even from a pool of one connection, with every
\* service after the same number, and with nobody's patience running out.
EveryoneServed == \A r \in Request : <>(pc[r] = "done")
=============================================================================
