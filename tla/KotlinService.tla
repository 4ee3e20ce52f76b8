---------------------------- MODULE KotlinService ----------------------------
(***************************************************************************)
(* POST /bills of the Kotlin service (Spring MVC, Hibernate).              *)
(* The look-up and the inserts are one transaction; every                  *)
(* DataIntegrityViolationException of the inserts is reported as a         *)
(* conflict, a numeric overflow included.                                  *)
(***************************************************************************)
EXTENDS Handling

KotlinReceive(r) ==
  /\ At("kotlin", r, "received")
  /\ Filter(r, KotlinBinds(body[r]) /\ KotlinDto(body[r]), "exists", "400")

KotlinExists(r) ==
  /\ At("kotlin", r, "exists")
  /\ LookUp(r, Taken(number[r]), KotlinDomain(body[r]), "409", "400")

KotlinInsertBill(r) == At("kotlin", r, "insert") /\ TryInsertBill(r, "409", "409")

\* Hibernate flushes the lines one statement each.
KotlinInsertLines(r) == At("kotlin", r, "lines") /\ TryInsertNextLine(r, "409")

\* Mutant: the event is forgotten.
KotlinCommitSilently(r) ==
  At("kotlin", r, "commit") /\ Commit(r) /\ Goto(r, "respond") /\ UNCHANGED linkVars

KotlinCommit(r) == At("kotlin", r, "commit") /\ TryCommit(r)

\* RabbitTemplate: every AmqpException is a 503.
KotlinPublish(r) ==
  /\ At("kotlin", r, "publish")
  /\ PublishReconnecting("kotlin", r, {"503"}, {"503"})

KotlinRespond(r) == At("kotlin", r, "respond") /\ Respond(r)

KotlinFails(r) == serves[r] = "kotlin" /\ DbBreaks(r, {"500"})

KotlinStep(r) ==
  \/ KotlinReceive(r) \/ KotlinExists(r) \/ KotlinInsertBill(r) \/ KotlinInsertLines(r)
  \/ KotlinCommit(r) \/ KotlinPublish(r) \/ KotlinRespond(r)
=============================================================================
