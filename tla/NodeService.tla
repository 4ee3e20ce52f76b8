----------------------------- MODULE NodeService -----------------------------
(***************************************************************************)
(* POST /bills of the Node service (Fastify, TypeORM, amqplib).            *)
(***************************************************************************)
EXTENDS Handling

\* Only a ZodError is a 400: a body that is not JSON is Fastify's own error.
NodeReceive(r) ==
  /\ At("node", r, "received")
  /\ IF NodeBinds(body[r])
     THEN Filter(r, NodeDto(body[r]), "exists", "400")
     ELSE Filter(r, FALSE, "exists", "500")

NodeExists(r) ==
  /\ At("node", r, "exists")
  /\ LookUp(r, Taken(number[r]), NodeDomain(body[r]), "409", "400")

NodeInsertBill(r) == At("node", r, "insert") /\ TryInsertBill(r, "409", "500")

NodeInsertLines(r) == At("node", r, "lines") /\ TryInsertLines(r, "500")

NodeCommit(r) == At("node", r, "commit") /\ TryCommit(r)

\* Mutant: the loop of two attempts does not end after a good one.
NodePublishTwice(r) ==
  /\ At("node", r, "publish")
  /\ \/ conn["node"] # "stale" /\ broker = "up" /\ Deliver("node", r, "open")
     \/ broker = "down" /\ Lose("node", "closed")
  /\ UNCHANGED <<storeVars, pc, answer>>

(***************************************************************************)
(* Write to the channel, connecting first when there is none; on an error  *)
(* drop the connection, connect and write once more.  The connection may   *)
(* die between the connecting and the write, and the broker that was away  *)
(* may be back when the second try fails.  The tries are not counted here, *)
(* NodePublisher counts them.  A code of ECONNREFUSED or EPIPE is a 503,   *)
(* any other a 500.                                                        *)
(***************************************************************************)
NodePublish(r) ==
  /\ At("node", r, "publish")
  /\ \/ conn["node"] = "open" /\ Sent("node", r, "open")
     \/ Unconnected("node") /\ Reconnected("node")
     \/ conn["node"] = "stale" /\ broker = "up" /\ Sent("node", r, "open")
     \/ conn["node"] = "stale" /\ SentNowhere("node", r, "stale")
     \/ conn["node"] # "open" /\ Unsent("node", r, "closed", {"500", "503"})

NodeRespond(r) == At("node", r, "respond") /\ Respond(r)

\* The error handler goes by the error code, whoever raised it: a refused
\* connection to PostgreSQL is reported as a broker error.
NodeFails(r) == serves[r] = "node" /\ DbBreaks(r, {"500", "503"})

NodeStep(r) ==
  \/ NodeReceive(r) \/ NodeExists(r) \/ NodeInsertBill(r) \/ NodeInsertLines(r)
  \/ NodeCommit(r) \/ NodePublish(r) \/ NodeRespond(r)
=============================================================================
