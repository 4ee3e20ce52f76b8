------------------------------ MODULE PyService ------------------------------
(***************************************************************************)
(* POST /bills of the Python service (FastAPI, SQLAlchemy, pika).          *)
(***************************************************************************)
EXTENDS Handling

PyReceive(r) ==
  /\ At("py", r, "received")
  /\ Filter(r, PyBinds(body[r]) /\ PyDto(body[r]), "exists", "400")

\* Mutant: a number in use is taken for a repeated request.
PyExistsIdempotent(r) ==
  /\ At("py", r, "exists")
  /\ LookUp(r, Taken(number[r]), PyDomain(body[r]), "201", "400")

PyExists(r) ==
  /\ At("py", r, "exists")
  /\ LookUp(r, Taken(number[r]), PyDomain(body[r]), "409", "400")

\* flush() of the bill; only an IntegrityError becomes a conflict.
PyInsertBill(r) == At("py", r, "insert") /\ TryInsertBill(r, "409", "500")

\* Mutant: every error of the commit is taken for a conflict.
PyInsertLinesConflict(r) == At("py", r, "lines") /\ TryInsertLines(r, "409")

\* commit() first flushes the lines, in one executemany.
PyInsertLines(r) == At("py", r, "lines") /\ TryInsertLines(r, "500")

PyCommit(r) == At("py", r, "commit") /\ TryCommit(r)

\* The lock around the channel makes the call atomic.
PyPublish(r) ==
  /\ At("py", r, "publish")
  /\ PublishReconnecting("py", r, {"500", "503"}, {"503"})

PyRespond(r) == At("py", r, "respond") /\ Respond(r)

PyFails(r) == serves[r] = "py" /\ DbBreaks(r, {"500"})

PyStep(r) ==
  \/ PyReceive(r) \/ PyExists(r) \/ PyInsertBill(r) \/ PyInsertLines(r)
  \/ PyCommit(r) \/ PyPublish(r) \/ PyRespond(r)
=============================================================================
