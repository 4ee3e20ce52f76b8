----------------------------- MODULE JavaService -----------------------------
(***************************************************************************)
(* POST /bills of the Java service (Spring MVC, TransactionTemplate,       *)
(* Hibernate).  The look-up and the inserts are one transaction; every     *)
(* DataIntegrityViolationException of the inserts is reported as a         *)
(* conflict, a numeric overflow included.                                  *)
(***************************************************************************)
EXTENDS Handling

JavaReceive(r) ==
  /\ At("java", r, "received")
  /\ Filter(r, JavaBinds(body[r]) /\ JavaDto(body[r]), "exists", "400")

JavaExists(r) ==
  /\ At("java", r, "exists")
  /\ LookUp(r, Taken(number[r]), JavaDomain(body[r]), "409", "400")

JavaInsertBill(r) == At("java", r, "insert") /\ TryInsertBill(r, "409", "409")

\* Hibernate flushes the lines one statement each.
JavaInsertLines(r) == At("java", r, "lines") /\ TryInsertNextLine(r, "409")

\* Mutant: the event is sent by the transaction's own callback.
JavaCommitAndPublish(r) ==
  At("java", r, "commit") /\ Commit(r) /\ Deliver("java", r, "open") /\ Goto(r, "respond")

JavaCommit(r) == At("java", r, "commit") /\ TryCommit(r)

\* RabbitTemplate: every AmqpException is a 503.
JavaPublish(r) ==
  /\ At("java", r, "publish")
  /\ PublishReconnecting("java", r, {"503"}, {"503"})

JavaRespond(r) == At("java", r, "respond") /\ Respond(r)

JavaFails(r) == serves[r] = "java" /\ DbBreaks(r, {"500"})

JavaStep(r) ==
  \/ JavaReceive(r) \/ JavaExists(r) \/ JavaInsertBill(r) \/ JavaInsertLines(r)
  \/ JavaCommit(r) \/ JavaPublish(r) \/ JavaRespond(r)
=============================================================================
