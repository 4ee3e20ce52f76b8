------------------------------ MODULE Benchmark ------------------------------
(***************************************************************************)
(* The POST benchmark: run_compare.sh starts benchmark_post.py once for    *)
(* each service and round, one after the other.  Each run posts its bills  *)
(* from a pool of workers with a timeout, then deletes from the table all  *)
(* bills whose number starts with its prefix.  A service is reduced to     *)
(* what BillsContract leaves of it: it stores the bill or not, then        *)
(* answers, and does not care whether the client still listens.            *)
(***************************************************************************)
EXTENDS Naturals, FiniteSets

CONSTANTS
  Runs,         \* how many runs there are
  Requests,     \* bills posted in each of them
  Concurrency,  \* workers of a run
  Covers        \* <<m, n>> when run m's LIKE pattern matches the bills of run n

\* "...-R1%" also matches round 10, but never an earlier round.
ASSUME BenchmarkAssumption ==
  /\ Runs \in Nat /\ Requests \in Nat /\ Concurrency \in Nat
  /\ \A m, n \in 1..Runs : <<m, n>> \in Covers => m <= n
  /\ \A n \in 1..Runs : <<n, n>> \in Covers

VARIABLES
  current,   \* the run under way, Runs + 1 when there is none
  phase,     \* "load" or "clean"
  client,    \* what the worker that posts a bill knows of it
  handler,   \* how far the service has come with it
  table,     \* the benchmark's rows in table bill
  cleanup,   \* "none", "done" or "error": the clean-up of each run
  deleted    \* deleted_bill_ids of each run

vars == <<current, phase, client, handler, table, cleanup, deleted>>

Run == 1..Runs
Bill == [run: Run, idx: 1..Requests]

BillsOf(n) == {b \in Bill : b.run = n}

TypeOK ==
  /\ current \in 1..(Runs + 1)
  /\ phase \in {"load", "clean"}
  /\ client \in [Bill -> {"queued", "waiting", "ok", "refused", "lost"}]
  /\ handler \in [Bill -> {"none", "running", "stored", "ended"}]
  /\ table \subseteq Bill
  /\ cleanup \in [Run -> {"none", "done", "error"}]
  /\ deleted \in [Run -> SUBSET Bill]

Init ==
  /\ current = 1 /\ phase = "load"
  /\ client = [b \in Bill |-> "queued"]
  /\ handler = [b \in Bill |-> "none"]
  /\ table = {}
  /\ cleanup = [n \in Run |-> "none"]
  /\ deleted = [n \in Run |-> {}]

-----------------------------------------------------------------------------
Waiting(b) == client[b] = "waiting"

\* A worker takes the next payload from the queue of the executor.
Send(b) ==
  /\ phase = "load" /\ b.run = current
  /\ client[b] = "queued"
  /\ \A c \in BillsOf(current) : client[c] = "queued" => b.idx <= c.idx
  /\ Cardinality({c \in BillsOf(current) : Waiting(c)}) < Concurrency
  /\ client' = [client EXCEPT ![b] = "waiting"]
  /\ handler' = [handler EXCEPT ![b] = "running"]
  /\ UNCHANGED <<current, phase, table, cleanup, deleted>>

\* The service commits the bill.
Insert(b) ==
  /\ handler[b] = "running"
  /\ handler' = [handler EXCEPT ![b] = "stored"]
  /\ table' = table \cup {b}
  /\ UNCHANGED <<current, phase, client, cleanup, deleted>>

\* It answers: 201 only for a stored bill, an error for any.
Answer(b) ==
  /\ handler[b] \in {"running", "stored"}
  /\ handler' = [handler EXCEPT ![b] = "ended"]
  /\ \/ Waiting(b) /\ handler[b] = "stored"
        /\ client' = [client EXCEPT ![b] = "ok"]
     \/ Waiting(b) /\ client' = [client EXCEPT ![b] = "refused"]
     \/ ~Waiting(b) /\ UNCHANGED client
  /\ UNCHANGED <<current, phase, table, cleanup, deleted>>

\* Mutant: a post without a timeout.
GiveUpAtTheEnd(b) ==
  /\ Waiting(b) /\ handler[b] = "ended"
  /\ client' = [client EXCEPT ![b] = "lost"]
  /\ UNCHANGED <<current, phase, handler, table, cleanup, deleted>>

\* The timeout, or any other requests.RequestException.
GiveUp(b) ==
  /\ Waiting(b)
  /\ client' = [client EXCEPT ![b] = "lost"]
  /\ UNCHANGED <<current, phase, handler, table, cleanup, deleted>>

-----------------------------------------------------------------------------
\* Mutant: the executor is not waited for.
LoadSubmitted ==
  /\ current \in Run /\ phase = "load"
  /\ phase' = "clean"
  /\ UNCHANGED <<current, client, handler, table, cleanup, deleted>>

\* Every future has completed.
LoadEnds ==
  /\ current \in Run /\ phase = "load"
  /\ \A b \in BillsOf(current) : client[b] \in {"ok", "refused", "lost"}
  /\ phase' = "clean"
  /\ UNCHANGED <<current, client, handler, table, cleanup, deleted>>

\* Mutant: the pattern and the name are swapped.
MatchesSwapped(n) == {b \in table : <<b.run, n>> \in Covers}

\* What DELETE ... WHERE bill_number LIKE the prefix of run n finds.
Matches(n) == {b \in table : <<n, b.run>> \in Covers}

NextRun == current' = current + 1 /\ phase' = "load"

\* Mutant: only the bills of which the client got the id are deleted.
CleanUpCreated ==
  LET created == {b \in Matches(current) : client[b] = "ok"}
  IN  /\ current \in Run /\ phase = "clean"
      /\ table' = table \ created
      /\ deleted' = [deleted EXCEPT ![current] = created]
      /\ cleanup' = [cleanup EXCEPT ![current] = "done"]
      /\ NextRun
      /\ UNCHANGED <<client, handler>>

CleanUp ==
  /\ current \in Run /\ phase = "clean"
  /\ table' = table \ Matches(current)
  /\ deleted' = [deleted EXCEPT ![current] = Matches(current)]
  /\ cleanup' = [cleanup EXCEPT ![current] = "done"]
  /\ NextRun
  /\ UNCHANGED <<client, handler>>

\* The database raises; only when the commit did may the rows be gone.
CleanUpFails ==
  /\ current \in Run /\ phase = "clean"
  /\ table' \in {table, table \ Matches(current)}
  /\ cleanup' = [cleanup EXCEPT ![current] = "error"]
  /\ NextRun
  /\ UNCHANGED <<client, handler, deleted>>

\* The benchmark is killed in the middle of a run; the services go on.
Killed ==
  /\ current \in Run
  /\ current' = Runs + 1 /\ phase' = "load"
  /\ client' = [b \in Bill |-> IF Waiting(b) THEN "lost" ELSE client[b]]
  /\ UNCHANGED <<handler, table, cleanup, deleted>>

-----------------------------------------------------------------------------
Serve == \E b \in Bill : Insert(b) \/ Answer(b)

Load == \E b \in Bill : Send(b) \/ GiveUp(b)

\* The comparison is over, and so are the handlers it left behind.
Over ==
  /\ current = Runs + 1
  /\ \A b \in Bill : handler[b] \in {"none", "ended"}
  /\ UNCHANGED vars

Next == Serve \/ Load \/ LoadEnds \/ CleanUp \/ CleanUpFails \/ Killed \/ Over

Spec ==
  /\ Init /\ [][Next]_vars
  /\ WF_vars(Load) /\ WF_vars(LoadEnds) /\ WF_vars(CleanUp \/ CleanUpFails)

-----------------------------------------------------------------------------
\* A clean-up deletes bills of its own run only, although its pattern may
\* match the bills of a later one: rounds follow each other.
OwnRowsOnly == \A n \in Run : deleted[n] \subseteq BillsOf(n)

\* Every bill reported as created is among those reported as deleted, unless
\* the clean-up says that it failed.
CreatedAreDeleted ==
  \A b \in Bill :
    cleanup[b.run] = "done" /\ client[b] = "ok" => b \in deleted[b.run]

\* A bill that outlives the clean-up of its run is one whose client gave up
\* waiting; an error after the commit leaves nothing behind.
LeftBehind ==
  \A b \in table : cleanup[b.run] = "done" => client[b] = "lost"

\* The comparison ends whatever the services do: it needs their answers in no
\* way, only its own timeouts.
Completes == <>(current = Runs + 1)

\* "... then deletes created rows after the run." (benchmark-client/README.md:129)
NothingLeft == \A b \in table : cleanup[b.run] # "done"

-----------------------------------------------------------------------------
\* Why it holds: only the current run and earlier ones have been posted, a
\* client that does not wait for a live handler has given up on it, and a run
\* is cleaned up once none of its clients waits.
Past(n) == n < current

Posted ==
  \A b \in Bill :
    /\ handler[b] = "none" <=> client[b] = "queued"
    /\ handler[b] # "none" => b.run <= current
    /\ handler[b] \in {"running", "stored"} => client[b] \in {"waiting", "lost"}
    /\ client[b] = "waiting" => b.run = current /\ phase = "load"

Recorded ==
  \A b \in Bill :
    /\ b \in table => handler[b] \in {"stored", "ended"}
    /\ (handler[b] = "stored" \/ client[b] = "ok") /\ cleanup[b.run] = "none"
         => b \in table

CleanedUp ==
  /\ \A n \in Run : cleanup[n] # "none" => Past(n)
  /\ phase = "clean" =>
       \A b \in BillsOf(current) : client[b] \in {"ok", "refused", "lost"}

\* The inductive invariant of the benchmark.
BenchInv ==
  /\ TypeOK /\ Posted /\ Recorded /\ CleanedUp
  /\ OwnRowsOnly /\ CreatedAreDeleted /\ LeftBehind
=============================================================================
