----------------------------- MODULE RustService -----------------------------
(***************************************************************************)
(* POST /bills of the Rust service (axum, SeaORM, lapin).  When the client *)
(* hangs up, the future of its handler is dropped where it stands.         *)
(***************************************************************************)
EXTENDS Handling

RustReceive(r) ==
  /\ At("rust", r, "received")
  /\ Filter(r, RustBinds(body[r]) /\ RustDto(body[r]), "exists", "400")

RustExists(r) ==
  /\ At("rust", r, "exists")
  /\ LookUp(r, Taken(number[r]), RustDomain(body[r]), "409", "400")

RustInsertBill(r) == At("rust", r, "insert") /\ TryInsertBill(r, "409", "500")

RustInsertLines(r) == At("rust", r, "lines") /\ TryInsertNextLine(r, "500")

\* Mutant: the transaction is dropped without its commit.
RustCommitForgotten(r) ==
  At("rust", r, "commit") /\ Rollback(r) /\ Goto(r, "publish") /\ UNCHANGED linkVars

RustCommit(r) == At("rust", r, "commit") /\ TryCommit(r)

\* The one channel opened at start-up, never opened again.
RustPublish(r) ==
  /\ At("rust", r, "publish")
  /\ \/ conn["rust"] = "open" /\ Sent("rust", r, "open")
     \/ conn["rust"] = "stale" /\ SentNowhere("rust", r, "stale")
     \/ conn["rust"] = "stale" /\ Unsent("rust", r, "closed", {"503"})
     \/ conn["rust"] = "closed" /\ Unsent("rust", r, "closed", {"503"})

RustRespond(r) == At("rust", r, "respond") /\ Respond(r)

RustFails(r) == serves[r] = "rust" /\ DbBreaks(r, {"500"})

\* Dropped while a statement, a commit or the publish is under way, or
\* between two of them.
RustDropped(r) ==
  /\ serves[r] = "rust"
  /\ \/ DbBreaks(r, {"gone"})
     \/ pc[r] \in {"publish", "respond"} /\ Unsent("rust", r, conn["rust"], {"gone"})
     \/ /\ pc[r] = "publish" /\ conn["rust"] = "open"
        /\ Deliver("rust", r, "open") /\ Reply(r, "gone") /\ UNCHANGED storeVars

RustStep(r) ==
  \/ RustReceive(r) \/ RustExists(r) \/ RustInsertBill(r) \/ RustInsertLines(r)
  \/ RustCommit(r) \/ RustPublish(r) \/ RustRespond(r)
=============================================================================
