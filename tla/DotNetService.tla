---------------------------- MODULE DotNetService ----------------------------
(***************************************************************************)
(* POST /bills of the .NET service (minimal API, MediatR, EF Core,         *)
(* RabbitMQ.Client).  A cancellation token fires when the client hangs up. *)
(***************************************************************************)
EXTENDS Handling

\* A body that does not bind, or has no lines, meets the catch-all handler.
DotNetReceive(r) ==
  /\ At("dotnet", r, "received")
  /\ IF DotNetBinds(body[r])
     THEN Filter(r, DotNetDto(body[r]), "resolve", "400")
     ELSE Filter(r, FALSE, "resolve", "500")

\* Building the handler builds the publisher, a singleton, whose constructor
\* connects; when it throws, the next request tries again.
DotNetResolve(r) ==
  /\ At("dotnet", r, "resolve")
  /\ \/ conn["dotnet"] # "none" /\ Goto(r, "exists") /\ UNCHANGED linkVars
     \/ /\ conn["dotnet"] = "none" /\ broker = "up"
        /\ Lose("dotnet", "open")
        /\ Goto(r, "exists")
     \/ /\ conn["dotnet"] = "none" /\ broker = "down"
        /\ Reply(r, "500")
        /\ UNCHANGED linkVars
  /\ UNCHANGED storeVars

DotNetExists(r) ==
  /\ At("dotnet", r, "exists")
  /\ LookUp(r, Taken(number[r]), DotNetDomain(body[r]), "409", "400")

DotNetInsertBill(r) ==
  At("dotnet", r, "insert") /\ TryInsertBill(r, "409", "500")

DotNetInsertLines(r) == At("dotnet", r, "lines") /\ TryInsertLines(r, "500")

DotNetCommit(r) == At("dotnet", r, "commit") /\ TryCommit(r)

\* No handler for broker exceptions: all of them are a 500.
DotNetPublish(r) ==
  /\ At("dotnet", r, "publish")
  /\ PublishReconnecting("dotnet", r, {"500"}, {"500"})

DotNetRespond(r) == At("dotnet", r, "respond") /\ Respond(r)

DotNetFails(r) == serves[r] = "dotnet" /\ DbBreaks(r, {"500", "gone"})

\* The client has hung up by the time the event would be published.
DotNetTooLate(r) ==
  /\ At("dotnet", r, "publish")
  /\ Unsent("dotnet", r, conn["dotnet"], {"gone"})

\* AutomaticRecoveryEnabled: the library reconnects in the background.
DotNetRecovers ==
  /\ conn["dotnet"] = "closed" /\ broker = "up"
  /\ Lose("dotnet", "open")

DotNetStep(r) ==
  \/ DotNetReceive(r) \/ DotNetResolve(r) \/ DotNetExists(r)
  \/ DotNetInsertBill(r) \/ DotNetInsertLines(r) \/ DotNetCommit(r)
  \/ DotNetPublish(r) \/ DotNetRespond(r)
=============================================================================
