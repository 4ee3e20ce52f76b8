------------------------------ MODULE Handling ------------------------------
(***************************************************************************)
(* The life of a POST /bills request, in the vocabulary the modules of the *)
(* services share.  pc[r] is the stage the handler of request r has        *)
(* reached:                                                                *)
(*                                                                         *)
(*   new -> received [-> resolve] -> exists -> insert -> lines -> commit   *)
(*       -> publish -> respond -> done                                     *)
(*                                                                         *)
(* and any stage may go straight to done with an error status.  Every      *)
(* stage is one round trip to the database or the broker.                  *)
(***************************************************************************)
EXTENDS BillStore, Broker, FiniteSets

VARIABLES
  serves,     \* the service each request is sent to
  body,       \* its payload
  number,     \* its bill number
  pc,         \* the stage of its handler
  answer,     \* what the client is told, "gone" when nothing
  running,    \* the services that are up
  faults      \* faults so far

requestVars == <<serves, body, number>>
systemVars == <<running, broker>>
vars == <<storeVars, linkVars, requestVars, systemVars, pc, answer, faults>>

Stage == {"new", "received", "resolve", "exists", "insert", "lines", "commit",
          "publish", "respond", "done"}

Failures == {"500", "503", "gone"}

Answer == {"none", "201", "400", "409"} \cup Failures

DbStages == {"exists", "insert", "lines", "commit"}

InFlight(r) == pc[r] \notin {"new", "done"}

At(s, r, stage) == serves[r] = s /\ pc[r] = stage

Goto(r, stage) == pc' = [pc EXCEPT ![r] = stage] /\ UNCHANGED answer

Reply(r, a) ==
  /\ pc' = [pc EXCEPT ![r] = "done"]
  /\ answer' = [answer EXCEPT ![r] = a]

ReplyOneOf(r, as) == \E a \in as : Reply(r, a)

Fault == faults < MaxFaults /\ faults' = faults + 1

-----------------------------------------------------------------------------
\* Let the request through to the next stage, or turn it away.
Filter(r, ok, next, refusal) ==
  /\ \/ ok /\ Goto(r, next)
     \/ ~ok /\ Reply(r, refusal)
  /\ UNCHANGED <<storeVars, linkVars>>

\* Mutant: a number in use is waited for.
LookUpAgain(r, found, ok, conflict, invalid) ==
  /\ \/ found /\ Goto(r, "exists")
     \/ ~found /\ ok /\ Goto(r, "insert")
     \/ ~found /\ ~ok /\ Reply(r, invalid)
  /\ UNCHANGED <<storeVars, linkVars>>

\* The look-up of the number, and the domain rules that follow it.
LookUp(r, found, ok, conflict, invalid) ==
  /\ \/ found /\ Reply(r, conflict)
     \/ ~found /\ ok /\ Goto(r, "insert")
     \/ ~found /\ ~ok /\ Reply(r, invalid)
  /\ UNCHANGED <<storeVars, linkVars>>

(***************************************************************************)
(* INSERT INTO bill: the row goes in, or waits for an open transaction     *)
(* with the same number (no disjunct is enabled), or hits the unique       *)
(* index, or a value the columns refuse.                                   *)
(***************************************************************************)
TryInsertBill(r, conflict, misfit) ==
  /\ \/ BillFits(body[r]) /\ InsertBill(r, number[r]) /\ Goto(r, "lines")
     \/ BillFits(body[r]) /\ Taken(number[r]) /\ Rollback(r) /\ Reply(r, conflict)
     \/ ~BillFits(body[r]) /\ Rollback(r) /\ Reply(r, misfit)
  /\ UNCHANGED linkVars

\* All lines in one statement or batch.
TryInsertLines(r, misfit) ==
  /\ \/ /\ LinesFit(body[r])
        /\ InsertLines(r, LineNos(body[r]))
        /\ Goto(r, "commit")
     \/ ~LinesFit(body[r]) /\ Rollback(r) /\ Reply(r, misfit)
  /\ UNCHANGED linkVars

\* Mutant: the loop over the lines ends one line early.
InsertAllLinesButOne(r, misfit) ==
  LET todo == LineNos(body[r]) \ InsertedLines(r)
  IN  \E i \in todo :
        /\ \A j \in todo : i <= j
        /\ \/ /\ LineFits(body[r].lines[i])
              /\ InsertLines(r, {i})
              /\ Goto(r, IF Cardinality(todo) <= 2 THEN "commit" ELSE "lines")
           \/ ~LineFits(body[r].lines[i]) /\ Rollback(r) /\ Reply(r, misfit)
        /\ UNCHANGED linkVars

\* One statement per line; the last one leads on to the commit.
TryInsertNextLine(r, misfit) ==
  LET done == InsertedLines(r)
      todo == LineNos(body[r]) \ done
  IN  \E i \in todo :
        /\ \A j \in todo : i <= j
        /\ \/ /\ LineFits(body[r].lines[i])
              /\ InsertLines(r, {i})
              /\ Goto(r, IF todo = {i} THEN "commit" ELSE "lines")
           \/ ~LineFits(body[r].lines[i]) /\ Rollback(r) /\ Reply(r, misfit)
        /\ UNCHANGED linkVars

TryCommit(r) == Commit(r) /\ Goto(r, "publish") /\ UNCHANGED linkVars

-----------------------------------------------------------------------------
\* The publish call returns normally; the connection ends up in state c.
Sent(s, r, c) == Deliver(s, r, c) /\ Goto(r, "respond") /\ UNCHANGED storeVars

\* It returns normally and the message is lost.
SentNowhere(s, r, c) == Lose(s, c) /\ Goto(r, "respond") /\ UNCHANGED storeVars

\* It raises.
Unsent(s, r, c, as) == Lose(s, c) /\ ReplyOneOf(r, as) /\ UNCHANGED storeVars

Unconnected(s) == conn[s] \in {"none", "closed"}

\* The call connects; it goes on to publish in its next step.
Reconnected(s) ==
  /\ broker = "up"
  /\ Lose(s, "open")
  /\ UNCHANGED <<storeVars, pc, answer>>

\* Mutant: the call that connects does not go on to publish.
PublishOrConnect(s, r, refused, broken) ==
  \/ conn[s] = "open" /\ Sent(s, r, "open")
  \/ Unconnected(s) /\ broker = "up" /\ SentNowhere(s, r, "open")
  \/ Unconnected(s) /\ broker = "down" /\ Unsent(s, r, conn[s], refused)
  \/ conn[s] = "stale" /\ Unsent(s, r, "closed", broken)

\* Mutant: an event that cannot be sent is logged and forgotten.
PublishBestEffort(s, r, refused, broken) ==
  \/ conn[s] = "open" /\ Sent(s, r, "open")
  \/ Unconnected(s) /\ Reconnected(s)
  \/ Unconnected(s) /\ broker = "down" /\ SentNowhere(s, r, conn[s])
  \/ conn[s] = "stale" /\ SentNowhere(s, r, "closed")

(***************************************************************************)
(* A publisher that keeps one connection under a lock and opens a new one  *)
(* when the library reports it closed.  refused is what the client is told *)
(* when there is no broker to connect to, broken when the publish on a     *)
(* dead connection raises.                                                 *)
(***************************************************************************)
PublishReconnecting(s, r, refused, broken) ==
  \/ conn[s] = "open" /\ Sent(s, r, "open")
  \/ Unconnected(s) /\ Reconnected(s)
  \/ Unconnected(s) /\ broker = "down" /\ Unsent(s, r, conn[s], refused)
  \/ conn[s] = "stale" /\ Unsent(s, r, "closed", broken)
  \/ conn[s] = "stale" /\ SentNowhere(s, r, "stale")

Respond(r) == Reply(r, "201") /\ UNCHANGED <<storeVars, linkVars>>

-----------------------------------------------------------------------------
\* Mutant: a failed statement is reported and its transaction left open.
DbBreaksOpen(r, as) ==
  /\ pc[r] \in DbStages /\ UNCHANGED storeVars
  /\ ReplyOneOf(r, as)
  /\ UNCHANGED linkVars

(***************************************************************************)
(* A database call of r breaks: the statement fails and its transaction is *)
(* undone, or a commit takes effect and its acknowledgement never arrives. *)
(***************************************************************************)
DbBreaks(r, as) ==
  /\ \/ pc[r] \in DbStages /\ Rollback(r)
     \/ pc[r] = "commit" /\ Commit(r)
  /\ ReplyOneOf(r, as)
  /\ UNCHANGED linkVars
=============================================================================
