----------------------------- MODULE Measurement -----------------------------
(***************************************************************************)
(* The load of benchmark.py: warm-up requests one after the other, then    *)
(* the measured ones from a pool of workers, and the report.  (The load of *)
(* benchmark_post.py is the same without the warm-up; what becomes of its  *)
(* bills is in Benchmark.)                                                 *)
(***************************************************************************)
EXTENDS Statistics, FiniteSets

CONSTANTS
  Requests,     \* requests that are measured
  Concurrency,  \* workers
  Warmups,      \* requests that are not
  MaxTime       \* bound on the clock

ASSUME MeasurementAssumption ==
  /\ Requests \in Nat \ {0} /\ Concurrency \in Nat \ {0}
  /\ Warmups \in Nat /\ MaxTime \in Nat

VARIABLES
  now,       \* time.perf_counter
  warmed,    \* warm-up requests sent
  started,   \* when the load began, -1 before
  sentAt,    \* when a worker sent each request, -1 before
  outcome,   \* what came of each request
  results,   \* the outcomes in the order as_completed yields them
  report     \* the report, or NoReport

vars == <<now, warmed, started, sentAt, outcome, results, report>>

Request == 1..Requests

\* A status code, or the exception that was raised.
Status == {"201", "500", "Timeout"}

Exceptions == {"Timeout"}

Ok(status) == status = "201"

Result == [request: Request, status: Status, latency: Int]

Pending == [status |-> "none", latency |-> 0]

NoReport == [total |-> 0]

Init ==
  /\ now = 0 /\ warmed = 0 /\ started = -1
  /\ sentAt = [i \in Request |-> -1]
  /\ outcome = [i \in Request |-> Pending]
  /\ results = <<>>
  /\ report = NoReport

-----------------------------------------------------------------------------
Successes(rs) == {i \in DOMAIN rs : Ok(rs[i].status)}

Failures(rs) == {i \in DOMAIN rs : ~Ok(rs[i].status)}

WithStatus(rs, status) == {i \in DOMAIN rs : rs[i].status = status}

SuccessRate(rs) == Rounded(10000 * Cardinality(Successes(rs)), Len(rs))

\* Mutant: the latencies are taken as they come.
LatenciesUnsorted(rs) == [i \in DOMAIN rs |-> rs[i].latency]

Latencies(rs) == Sorted([i \in DOMAIN rs |-> rs[i].latency])

\* build_report, of the results and the wall time.
BuildReport(rs, wall) ==
  LET latencies == Latencies(rs)
      number(s) == Cardinality(s)
  IN  [total |-> Len(rs),
       success |-> number(Successes(rs)),
       failure |-> number(Failures(rs)),
       successRate |-> SuccessRate(rs),
       throughput |-> IF wall > 0 THEN Rounded(100000 * Len(rs), wall) ELSE 0,
       wall |-> wall,
       min |-> 100 * latencies[1],
       avg |-> Rounded(100 * SumFunction(latencies), Len(rs)),
       median |-> Median(latencies),
       p90 |-> Percentile(latencies, 90),
       p95 |-> Percentile(latencies, 95),
       p99 |-> Percentile(latencies, 99),
       max |-> 100 * latencies[Len(rs)],
       codes |-> [c \in Status \ Exceptions |-> number(WithStatus(rs, c))],
       errors |-> [e \in Exceptions |-> number(WithStatus(rs, e))]]

-----------------------------------------------------------------------------
InFlight == {i \in Request : sentAt[i] >= 0 /\ outcome[i] = Pending}

Tick ==
  /\ now < MaxTime /\ report = NoReport
  /\ now' = now + 1
  /\ UNCHANGED <<warmed, started, sentAt, outcome, results, report>>

\* A warm-up request; its result is thrown away.
WarmUp ==
  /\ started = -1 /\ warmed < Warmups
  /\ warmed' = warmed + 1
  /\ UNCHANGED <<now, started, sentAt, outcome, results, report>>

\* The clock of the load starts, and all requests are handed to the executor.
Start ==
  /\ started = -1 /\ warmed = Warmups
  /\ started' = now
  /\ UNCHANGED <<now, warmed, sentAt, outcome, results, report>>

\* Mutant: the clock of a request starts when it is submitted.
SendSubmitted(i) ==
  /\ started >= 0 /\ sentAt[i] = -1
  /\ \A j \in 1..(i - 1) : sentAt[j] >= 0
  /\ Cardinality(InFlight) < Concurrency
  /\ sentAt' = [sentAt EXCEPT ![i] = started]
  /\ UNCHANGED <<now, warmed, started, outcome, results, report>>

\* A free worker takes the next request and starts its clock.
Send(i) ==
  /\ started >= 0 /\ sentAt[i] = -1
  /\ \A j \in 1..(i - 1) : sentAt[j] >= 0
  /\ Cardinality(InFlight) < Concurrency
  /\ sentAt' = [sentAt EXCEPT ![i] = now]
  /\ UNCHANGED <<now, warmed, started, outcome, results, report>>

\* The response has arrived, or an exception; both are timed.
Finish(i) ==
  /\ i \in InFlight
  /\ \E status \in Status :
       outcome' = [outcome EXCEPT ![i] = [status |-> status, latency |-> now - sentAt[i]]]
  /\ UNCHANGED <<now, warmed, started, sentAt, results, report>>

Collected == {results[k].request : k \in DOMAIN results}

\* as_completed yields the futures that are done in any order.
Collect(i) ==
  /\ outcome[i] # Pending /\ i \notin Collected
  /\ results' = Append(results, [request |-> i, status |-> outcome[i].status,
                                 latency |-> outcome[i].latency])
  /\ UNCHANGED <<now, warmed, started, sentAt, outcome, report>>

\* Mutant: the report is made when the last request is sent.
ReportEarly ==
  /\ report = NoReport /\ results # <<>>
  /\ \A i \in Request : sentAt[i] >= 0
  /\ report' = BuildReport(results, now - started)
  /\ UNCHANGED <<now, warmed, started, sentAt, outcome, results>>

\* The executor has shut down and the report is made.
Report ==
  /\ report = NoReport /\ Len(results) = Requests
  /\ report' = BuildReport(results, now - started)
  /\ UNCHANGED <<now, warmed, started, sentAt, outcome, results>>

Reported == report # NoReport /\ UNCHANGED vars

Next ==
  \/ Tick \/ WarmUp \/ Start \/ Report \/ Reported
  \/ \E i \in Request : Send(i) \/ Finish(i) \/ Collect(i)

Spec == Init /\ [][Next]_vars

-----------------------------------------------------------------------------
Done == report # NoReport

\* The report counts every request of the load once, whatever the order in
\* which the workers end, and tells failures by their code or exception.
EveryRequestCounted ==
  Done =>
    /\ report.total = Requests
    /\ report.success + report.failure = report.total
    /\ report.success = report.codes["201"]
    /\ report.failure = report.codes["500"] + report.errors["Timeout"]

\* "100.0" means that nothing failed, in a load of less than 20000 requests;
\* above that one failure is rounded away.
FullMarksAreEarned ==
  Done /\ Requests < 20000 => (report.successRate = 10000 <=> report.failure = 0)

\* The order in which the futures complete does not show in the report.
OrderIrrelevant == Done => report = BuildReport(outcome, report.wall)

\* The latencies of the report are in the order a reader expects.
LatenciesOrdered ==
  Done =>
    /\ report.min <= report.median /\ report.median <= report.p90
    /\ report.p90 <= report.p95 /\ report.p95 <= report.p99
    /\ report.p99 <= report.max
    /\ report.min <= report.avg /\ report.avg <= report.max

\* Throughput times average latency is at most the number of workers: the
\* clock of a request runs while a worker has it, not while it is queued.
LittlesLaw ==
  Done =>
    SumFunction([i \in Request |-> outcome[i].latency]) <= Concurrency * report.wall

-----------------------------------------------------------------------------
\* The inductive invariant behind the counts.
CountsInv ==
  /\ now \in Nat /\ sentAt \in [Request -> Int]
  /\ outcome \in [Request -> [status: Status \cup {"none"}, latency: Int]]
  /\ \A i \in Request : outcome[i].status = "none" => outcome[i] = Pending
  /\ results \in Seq(Result)
  /\ EveryRequestCounted
  /\ FullMarksAreEarned

\* The time that workers have spent on a request until now.
Spent(i) ==
  IF outcome[i] # Pending THEN outcome[i].latency
  ELSE IF sentAt[i] >= 0 THEN now - sentAt[i] ELSE 0

Spending == [i \in Request |-> Spent(i)]

\* Clocks run forward, and the workers have not spent more time than there was.
ClocksInv ==
  /\ started \in Int /\ -1 <= started /\ started <= now
  /\ \A i \in Request :
       /\ sentAt[i] = -1 \/ (0 <= started /\ started <= sentAt[i] /\ sentAt[i] <= now)
       /\ outcome[i] # Pending => 0 <= sentAt[i] /\ 0 <= outcome[i].latency
  /\ Cardinality(InFlight) <= Concurrency
  /\ SumFunction(Spending) <= Concurrency * (now - started)

\* The results are what came of different requests, and the report is of all.
ResultsInv ==
  /\ \A k \in DOMAIN results :
       LET i == results[k].request
       IN  /\ outcome[i] # Pending
           /\ results[k].status = outcome[i].status
           /\ results[k].latency = outcome[i].latency
  /\ \A j, k \in DOMAIN results : results[j].request = results[k].request => j = k
  /\ Done => Len(results) = Requests /\ report = BuildReport(results, now - started)

\* The inductive invariant behind the figures of the report.
MeasurementInv == CountsInv /\ ClocksInv /\ ResultsInv
=============================================================================
