------------------------------ MODULE GoService ------------------------------
(***************************************************************************)
(* POST /bills of the Go service (net/http, GORM, amqp091-go).  A context  *)
(* of ten seconds, also ended by the client hanging up, bounds the         *)
(* handling of a request.                                                  *)
(***************************************************************************)
EXTENDS Handling

GoReceive(r) ==
  /\ At("go", r, "received")
  /\ Filter(r, GoBinds(body[r]) /\ GoDto(body[r]), "exists", "400")

\* The number is looked up as it was sent; the stored ones are trimmed.
GoExists(r) ==
  /\ At("go", r, "exists")
  /\ LookUp(r, Taken(number[r]) /\ ~Padded(body[r].number),
            GoDomain(body[r]), "409", "400")

GoInsertBill(r) == At("go", r, "insert") /\ TryInsertBill(r, "409", "500")

GoInsertLines(r) == At("go", r, "lines") /\ TryInsertLines(r, "500")

GoCommit(r) == At("go", r, "commit") /\ TryCommit(r)

\* An *amqp.Error is a 503, an error of the network a 500.
GoPublish(r) ==
  /\ At("go", r, "publish")
  /\ PublishReconnecting("go", r, {"500", "503"}, {"500", "503"})

GoRespond(r) == At("go", r, "respond") /\ Respond(r)

\* Mutant: a database error is reported as one of the broker.
GoFailsAsBroker(r) == serves[r] = "go" /\ DbBreaks(r, {"503"})

\* A statement fails or the context ends during one.
GoFails(r) == serves[r] = "go" /\ DbBreaks(r, {"500", "gone"})

\* Mutant: the client is answered and the handler goes on to publish.
GoTooLateButGoesOn(r) ==
  /\ At("go", r, "publish")
  /\ answer' = [answer EXCEPT ![r] = "500"]
  /\ UNCHANGED <<pc, storeVars, linkVars>>

\* The context has ended by the time the event would be published.
GoTooLate(r) ==
  /\ At("go", r, "publish")
  /\ Unsent("go", r, conn["go"], {"500", "gone"})

GoStep(r) ==
  \/ GoReceive(r) \/ GoExists(r) \/ GoInsertBill(r) \/ GoInsertLines(r)
  \/ GoCommit(r) \/ GoPublish(r) \/ GoRespond(r)
=============================================================================
