# api-lang-arena in TLA+

`api-lang-arena` is one small HTTP API written seven times: Python, Go, .NET,
Java, Kotlin, Node and Rust services with the same endpoints, over **one**
PostgreSQL database and **one** RabbitMQ broker (`docker-compose.yml`). This
directory models its one operation that changes anything, `POST /bills`, in all
seven services at once, the parts of it that are hard on their own (publishers,
pools, the life of a process, money), and the benchmark that compares the
services. TLC checks it on small instances, TLAPS proves its safety.

The question behind the project: do seven implementations, written separately
and tested separately, keep *one* contract on the tables and the queue they share?

## 1. Inventory

### Components, their state and operations

| Component | State | Operations | What makes it correct |
|---|---|---|---|
| PostgreSQL schema (`db/seed.sql`) | tables `bill`, `bill_line`; open transactions | look-up by number, INSERT bill, INSERT lines, COMMIT, ROLLBACK | unique number, bills with all their lines, no row left locked |
| RabbitMQ | one durable queue; a connection per service | publish (no confirms, not mandatory), outage, dropped client | at most one event per bill, only for stored bills |
| Seven services: `POST /bills` | one handler per request; one AMQP connection each | bind, validate, look up, insert, commit, publish, answer | the answer is true, every request is answered, nothing happens after the answer |
| Rules for the body | none | the checks of binding, request objects and domain objects | the seven sets of rules admit the same bodies |
| Rounding of money | none | line amount, subtotal, tax, total | event, answer, row and readers agree; seven languages agree |
| Python process | pools, lazy engine, publisher, its lock | start, serve three endpoints on worker threads, shut down | resources are there while used; readers do not wait for the broker; the engines are few and settle |
| Python publisher | connection, channel, lock | publish, reopen, declare, close | the queue is there before the message; an exception means no message |
| Node publisher | connection, channel, promise of one in the making | publish, retry with reset, callbacks | a retry makes up for what the first try ran into; one connection at a time; a call comes back |
| Connection pools | connections in use | wait, take, time out, give back | nobody waits in a circle; nothing leaks |
| `GET /bills`, `GET /bills-minimal` | none | one SELECT each | the total is the one the client was told |
| Benchmark client: POST load | rows under a prefix | load, clean-up | the clean-up removes what the load created |
| Benchmark client: measurement | clocks, results, report | warm up, send, collect, report | every request counted once; the numbers mean what they say |
| Configuration, ORM entities, wiring | none | start | - |

### How they interact

A client posts a body to one service. The handler of that request binds and
validates it, looks the bill number up, inserts the bill and its lines in one
transaction, commits, publishes `bill.created`, and answers 201. The services
never talk to each other: they meet in the unique index on `bill_number`
(`db/seed.sql:3`), where the second of two inserts waits for the first
transaction, and in the queue. Commit and publish are two steps on two systems;
nothing makes them one (no outbox, no confirms).

### What is hard

* Look-up and insert are not atomic; two requests, in two languages, may race.
* The row of an open transaction blocks others; every error path, crash and
  cancellation must end its transaction.
* Commit and publish can be separated by a crash, a broker outage, a ten-second
  context (Go), a cancellation token (.NET) or a dropped future (Rust).
* A dead AMQP connection is noticed at once, late, or (pika) only inside a call;
  a publish into one returns normally and the event is gone.
* A commit whose acknowledgement is lost has two outcomes.
* A publisher is shared by all requests of a service: threads queue up at one
  lock (Python), or coroutines share fields that the callbacks of *any*
  connection, old or new, may clear between two awaits (Node).
* A handler waits for a connection of its pool, then for another handler's
  transaction, then for the broker; what it holds meanwhile others lack.
* The Python engine is made on first use, by several threads, without a lock.
* Amounts cross decimals, binary floats and NUMERIC(12,2) columns.
* Every service maps exceptions to statuses in its own way.
* Two layers of rules in each of seven services must agree at every boundary.

`PROJECT.json` lists these hazards line by line with the properties that watch
them.

## 2. Modules

| Module | Models | Extends |
|---|---|---|
| `Payloads` | the body of a request as the rules see it; what the columns take | - |
| `Validation` | binding, request-object rules and domain rules of each service | `Payloads` |
| `Deployment` | which services run, requests, numbers, fault budget | `Validation` |
| `BillStore` | the tables and the transactions writing to them | `Deployment` |
| `Broker` | the queue and the connections to it | `Deployment` |
| `Handling` | the stages of a handler and the steps services share | `BillStore`, `Broker` |
| `PyService` ... `RustService` | one service each: one action per stage, plus its failures | `Handling` |
| `Arena` | all services together; crashes, restarts, outages; `Spec` | the seven |
| `BillsContract` | the abstract specification of `POST /bills` | - |
| `Correctness` | properties, the inductive invariant, the refinement | `Arena` |
| `Bodies` | where the seven sets of rules agree | `Validation` |
| `PyPublisher` | the publisher of the Python service; instantiates `PyService` | - |
| `PyProcess` | one process of the Python service and its three endpoints | - |
| `NodePublisher` | the publisher of the Node service | - |
| `Pools` | database connections of `POST /bills` in all services | - |
| `Money` | the amounts of a bill from the request to the readers | - |
| `Benchmark` | the POST benchmark with its clean-up | - |
| `Statistics` | percentiles, medians and rounded quotients of the reports | - |
| `Measurement` | the load of `benchmark.py` and its report | `Statistics` |
| `MCArena`, `MCBodies`, `MCBenchmark` | bodies and values for TLC | `Correctness`, `Bodies`, `Benchmark` |
| `ArenaProofs` | theorems about `POST /bills` in the seven services | `Correctness` |
| `BodiesProofs` | theorems about bodies and the money in them | `Bodies`, `Money` |
| `PyPublisherProofs`, `PyProcessProofs`, `NodePublisherProofs`, `PoolsProofs`, `BenchmarkProofs`, `MeasurementProofs` | theorems | their modules |

The modules that need no bodies or named values beyond what a `.cfg` can say are
checked as they are, without an `MC` module.

### State and code

* `bill`, `line` are the committed rows, `newBill`, `newLine` the rows of open
  transactions. A request inserts one bill in one transaction, so the request
  stands for the transaction and the key. Look-ups see committed rows only (READ
  COMMITTED); the index also sees open ones. An insert that has to wait is an
  action that is not enabled.
* `conn[s]` is what service `s` believes of its AMQP connection: `none`, `open`,
  `stale` (dead, not noticed) or `closed` (dead, noticed). `queued[r]` counts
  the events of `r` that reached the queue.
* `pc[r]` is the stage of the handler: `received`, `resolve` (.NET builds its
  publisher), `exists`, `insert`, `lines`, `commit`, `publish`, `respond`,
  `done`. A stage is one round trip to the database or the broker, the
  points where another request, a crash or a cancellation can come in between.
  Validation has no such point and is part of `received` or, for the domain
  rules, which every service applies after the look-up, of `exists`.
* `answer[r]` is the status; `gone` is a client that gets none.
* `faults` counts what has gone wrong, up to `MaxFaults`.

### What differs from service to service

| | lines | event on a dead connection | database error | cut short by |
|---|---|---|---|---|
| Python | one statement | reconnects; 503 | 500 | crash |
| Go | one statement | reconnects; 500 or 503 | 500 | context of 10 s, client |
| .NET | one batch | reconnects, also in the background; 500 | 500 | client (token) |
| Java | one statement each | reconnects; 503 | 500, every integrity violation a 409 | crash |
| Kotlin | one statement each | reconnects; 503 | 500, every integrity violation a 409 | crash |
| Node | one statement | retries once; 500 or 503 | 500, or 503 by its code | crash |
| Rust | one statement each | never reconnects; 503 | 500 | client (dropped future) |

Steps that read the same in several services are one operator of `Handling`
(`TryInsertBill`, `PublishReconnecting`, ...). The map names one service's code
for such an operator; the actions of every service are mapped to their own code.

### The publishers

`PyPublisher` opens up the one step `PyPublish`: `holder` is `self._lock`,
`connection` and `channel` are the two fields as pika would report them, with
`stale` for a handle that the broker has given up and pika, which reads its
socket only inside a call, has not noticed. A call that waits for an answer
(`channel()`, `queue_declare`) finds out and raises; `basic_publish` may also
return. `queue` says whether the broker has the queue: a durable queue survives a
restart, not a new container. `at[t]` is the line thread `t` has come to.

`NodePublisher` takes what runs between two awaits as one step, and lets code
that can run do so before the event loop takes the next event (`Turn`). A reply
and the code behind the await of it are two steps: amqplib handles all frames of
a chunk it has read, and calls the callbacks of line 55 on, before that code
runs. A close may therefore come behind a reply (`Replied`, `Reads`). Behind the
last one the callbacks find the fields still null, and lines 78-79 then store a
connection that is dead and of which nothing more will be heard; behind an earlier one
the callbacks are not attached yet. Only the reset of a second try, which clears
the fields whatever they hold, gets rid of a dead connection stored like that.
Connections are numbered and have one channel each; `connection`, `channel` and
`connecting` hold numbers, 0 for null. `setup[c]` is how far the promise of
connection `c` has come, `old[r]` what the reset of request `r` is closing.
Nothing frees what is left behind: a channel error leaves its connection open
when the next one is made, and a reset forgets a promise whose connection then
still opens. Such strays cost sockets, not messages.

### The Python process

`phase` is the lifespan of `main.py`. Requests run on worker threads, and the
model takes `create_session` and `get_engine` one look at a global or one
assignment to it at a time. `engine` and `factory` are engines by number, so
that `Using` can tell their pools apart. After a race the global `_engine` need
not be the engine the factory is bound to, and an engine nobody uses keeps
whatever it has; `SettledForGood` says that there are never more engines, each
with a pool of its own, than worker threads, and that the race ends. What a POST does to tables and queue is
in `PyService`, here it takes resources and gives them back: with
`expire_on_commit=False` the commit gives the connection back and nothing asks
for it again before the end of the `with` block.

### Pools

`Pools` leaves of a handler only what it holds and waits for. In the Python, Java
and Kotlin services the look-up and the inserts use one connection from beginning
to end (`OneConnection`); in the others the look-up gives its connection back.
node-postgres waits for a connection without limit (`Patient`), the other pools
time out. The pools need not be fair.

### Money

`Money` follows the amounts of one bill of two lines: `row` in cents as the
columns keep them, `told` in mills as the answer and the event say them (.NET
answers with a tax it has not rounded), `seen` the totals that readers compute.
The Go and Node services use binary floats. A float is taken for the number that
was sent, except that a value halfway between two cents may go either way; the
`Number.EPSILON` of Node is one of the two ways.

### The benchmark

`run_compare.sh` runs `benchmark_post.py` once per service and round, one after
the other; `current` is the run, `phase` whether it loads or cleans up.
`client[b]` is what a worker knows of bill `b`: `queued` in the executor,
`waiting`, `ok`, `refused` (an error status) or `lost` (timeout or another
`RequestException`). `handler[b]` is how far the service has come, whether or
not the client still waits. `table` has the rows, `cleanup` and `deleted` what
each clean-up reports. A service is reduced to what `BillsContract` leaves of it,
since numbers are unique here: it stores the bill, then answers. `Covers` says
whose rows a LIKE pattern matches: `...-R1%` also matches round 10, so a run may
cover later ones (`BenchmarkAssumption`), not earlier ones.

### Abstractions

* A text is its length before and after trimming; blanks are the only thing
  trimmed. Lengths are characters: Go counts bytes, so the model is about ASCII
  there. Numbers are integers in thousandths. A date is one of four kinds.
* `number[r]` is the bill number after trimming. Go looks it up untrimmed: its
  look-up misses when the body's number is padded (`GoExists`).
* In `Arena` rounding appears only where it decides whether a value fits its
  column (`Cents`, `LineCents`, `SubtotalCents`); `Money` has the amounts.
* In `Arena` a handler always gets a database connection, and a publish is one
  step, or two with a step that connects; `Pools` and the modules of the
  publishers have the rest. The tries of the Node publisher are not counted
  there: where faults fall inside one call, `NodePublish` may connect once more
  than the code does.
* `Statistics` computes exactly, in hundredths of a millisecond, what the code
  computes in floats and rounds to two decimals. Response sizes, the standard
  deviation and the printing of the report are left out.
* `MaxQuantity` and `MaxAmount` stand for NUMERIC(10,2) and NUMERIC(12,2); the
  runs use small values so that overflow happens.
* The event's content is the request it belongs to.
* A failed statement may hit a handler at any database stage; its transaction is
  rolled back. A `commit` that fails may have taken effect; which of the two is
  decided in the step in which the handler learns of the failure.
* A crash of a service ends all its handlers; of each commit on its way the
  database decides.
* A disposed .NET connection and one being recovered are both `closed`:
  `DotNetRecovers` may reconnect either, the library only the second. The model
  has more behaviours than the code here.
* In `Benchmark` a kill falls before a DELETE or after its report, never between
  the two, where rows would be gone and not reported.
* A Rust handler dropped before its first query has done nothing; that case is
  the one dropped at `exists`.

## 3. Runs

All bounds are constants in the `.cfg` files; `MCArena` gives the bodies.

| Run | Configuration | Shows |
|---|---|---|
| `race` | Python, Go, Kotlin, 2 requests for 1 number, five kinds of bodies, 1 fault | `Answered`, `EventFollowsCommit` |
| `faults` | seven services, 2 requests for 1 number, three kinds of bodies, 3 faults, symmetric requests | `UniqueNumbers`, `WholeBills`, `EventHasBill`, `AnswerMeansEffect`, `BrokerErrorMeansStored`, `NoStrandedRows`, `ConflictIsReal`, `SmoothRun`, `EventAfterCommit`, `NothingLate`, `Contract`, `OnlyDeadConnectionsLose` |
| `bodies` | every combination of boundary values of the fields | `PlainAgreement`, `OneLimit`, `JvmQuantities` |
| `benchmark` | 2 runs of 2 bills, 1 worker, run 1 covers run 2 | `OwnRowsOnly`, `CreatedAreDeleted`, `LeftBehind`, `Completes` |
| `py_publisher` | 3 threads, 3 faults | `QueueBeforeMessage`, `RaisedSendsNothing`, `ImplementsPublish`, `Returns` |
| `py_process` | 3 requests of any kind, 2 worker threads, pools of 1 | `ResourcesReady`, `SettledForGood`, `ReadersGoOn` |
| `node_publisher` | 3 requests, 2 faults | `RaisedSendsNothing`, `RetryRecovers`, `OneInTheMaking`, `Returns` |
| `pools` | Rust, Java, Node, 3 requests, 2 numbers, pools of 1 | `NothingLeaks`, `EveryoneServed` |
| `money` | 7 services, 5 quantities, 5 unit amounts, 3 taxes | `TotalsAgree`, `ServicesAgree` |
| `measurement` | 3 requests, 2 workers, 1 warm-up, clock up to 4 | `EveryRequestCounted`, `OrderIrrelevant`, `LatenciesOrdered`, `LittlesLaw` |
| `nothing_left` | 2 runs of 1 bill | violates `NothingLeft` |
| `already_exists` | Java, an overflowing second line | violates `AlreadyExists` |

### Why the bounds are enough

Requests meet only in a bill number and in the connection of a service. Two
requests for one number give every pair of services, or one service with itself,
as holder and waiter; a third request would wait like the second. Requests for
different numbers share nothing but the connection, whose states the faults
already produce. Three faults reach the compound cases: a crash of both services
with the broker down, a lost commit acknowledgement and then a hang-up in a
service whose connection has died. A bill has two lines, which is the least number with a
point between two lines. The bodies of `faults` are one that is stored, one whose
second line overflows its column, so that a transaction has to go back on the
bill it inserted, and one that is not JSON, which .NET and Node treat in a way of
their own.

`race` checks liveness, which is dearer: it takes one service of each kind of
insertion and of cancellation (all lines at once, with a deadline, line by line),
one fault, which is what it takes for the holder of a number to crash or to fail
while another request waits, and all the ways a request can end: stored, refused
by a rule after the look-up, refused by a column of the bill or of a line, and a
padded number that only the index stops. The safety properties are also proved
without bounds (section 5).

In `benchmark` two runs are a covering and a covered one, two bills with one
worker make the queue and the limit of workers matter, and a handler left behind
by a timeout overlaps with the next post and with the next run.

In `py_publisher` and `node_publisher` two callers make a pair that interferes
and the third finds what they left; the faults reach a restart followed by a loss
of the new connection. Two faults are as many as `RetryRecovers` says cannot make
a request fail where no connection is refused, in whatever order three requests
share and reset the fields; three faults can, so one more would
check nothing more of it. `py_process` has more requests than threads, so that one
comes after a race, and pools of one connection, where any connection kept too
long blocks somebody. `pools` has one service of each way of using a connection;
with three requests for two numbers one can hold a number, one wait for it with a
connection and one wait for that connection. The amounts of `money` lie on both
sides of, and exactly at, half a cent, for factors and products alike (1.005,
1.15, 2.333 by 0.10 or 1.99). In `measurement` three results have a median that
is one of them and percentiles between two of them, and one worker is used
twice.

`faults` uses symmetry: the two requests are interchangeable, and its properties
are safety properties. It also has a view: nothing that happens to a request
depends on a service no request is sent to, so the connection of such a service
and whether it is up do not tell states apart (ten times fewer states). The
liveness runs use neither.

### Properties worth a remark

* `AnswerMeansEffect` says of a 5xx or of no answer: nothing. That is as much as
  the code offers: after a 500 the bill may be stored.
* `BrokerErrorMeansStored`: outside Node a 503 means that the bill *is* stored
  and only its event may be missing. A client that repeats the request gets a
  409, and the event is never sent. Node is left out because its error handler
  goes by the error code (`error-handler.ts:30`): a refused connection to
  PostgreSQL is also a "Message broker error", with nothing stored.
* `JvmQuantities` is stated of Java and Kotlin only: the other services compare a
  quantity with zero before they round it (`entities.py:40` and its like), so
  0.004 passes and is stored as 0.00.
* `OneLimit` says that a currency has at most three letters, not that it has
  three: the .NET service measures it untrimmed (`Bill.cs:36`), admits two letters
  and a blank and stores two letters.
* `ConflictIsReal` has an exception for Java and Kotlin, which report an overflow
  as a conflict (finding below); that no other service does is the content of it.
* `EventHasBill` is *at most one event*. *At least one* holds without faults
  (`SmoothRun`) and not with them: a crash between commit and publish, or a
  publish into a dead connection, loses the event for good.
* `OnlyDeadConnectionsLose` and `EventFollowsCommit` say who learns of a lost
  event. After a crash, a refused connection, a connection or channel noticed to
  be dead, a deadline, a token or a dropped future the client gets an error or no
  answer. A 201 without its event has one cause: the message was written to a
  connection dead unnoticed, where `basic_publish`, `sendToQueue` and the others
  return normally, since nobody waits for a confirm. That goes for a
  connection which the broker has closed for want of heartbeats as well. The first
  is the safety of every step, faults or not, in all seven services; the second
  adds that a request that has come to its commit does get there.
* `NothingLate` is about the cancellations: after the client has its answer no
  commit and no event follows.
* `RetryRecovers` (Node) is what "Recover stale/broken AMQP channel and retry
  once" (`RabbitMqPublisher.ts:30`) is worth. `sendToQueue` does throw on fields
  that were stored dead, and a set-up may die at any of its steps. Where no connection
  is refused, a client is told of an error only after three deaths: that of the
  connection in use, and that of the new one in each of the two tries. Requests
  reset fields and forget promises for each other meanwhile, and this never makes
  it two. It is about connections that are *known* to be dead: a write to one that died
  unnoticed does not throw, so that nothing is retried and the event is lost.
* `OneInTheMaking` (Node) holds until the first reset: a reset clears
  `connecting`, and the next request opens a second connection beside it.
* `SettledForGood` (Python) permits more than one engine, because two threads
  that both find none make one each; it bounds them by the worker threads, which
  bounds the connections to the database by as many pools.
* `ReadersGoOn` (Python) assumes nothing of the broker: with a broker that never
  answers, every request that does not publish is answered, and those that do
  wait without a database connection. (They do keep their worker threads; once
  all are waiting, nobody is *accepted* any more.)
* `TotalsAgree` is exact but for .NET, whose answer has the tax as it was sent.
  `ServicesAgree` says that on lines in whole cents, which is what the benchmark
  sends, the services store the same up to a tie of floats.
* `FullMarksAreEarned` (proved, in no run) has a bound because a report rounds to
  two decimals: from 20000 requests on a single failure can read as 100.0.
* `LittlesLaw` says that latencies do not contain the time a request waits in the
  executor.

### Refinement

`BillsContract` has five actions: a bill appears with all its lines, its
event is queued, a 201, a refusal, a failure of some requests at once (a crash),
some of whose bills appear. `Correctness!Contract` is its specification with
`wanted` for the line numbers in the body and the other variables under their
own names. Look-ups, open transactions, stages, connections and the broker
are hidden: seven different protocols implement one contract. Checked by TLC in
`faults`, proved in `ArenaProofs`.

`PyPublisher` implements the publish step of `PyService`: its `connection` and
`channel` together are one `conn`, everything up to the answer is the stage
`publish`, and each of its steps is a `PyPublish` of the calling thread, or a
connection lost or forgotten outside the calls, or invisible
(`ImplementsPublish`). This is what entitles `Arena` to take the call as atomic.
`NodePublisher` is not shown to implement `NodePublish`: with a connection per
reset, `conn` of `Broker` has too few states. `NodePublish` allows what
`NodePublisher` shows to happen: a message or none on a return, none on an error,
a new connection that dies before the write, an error that comes although the
broker is back.

### Fairness

`Spec` asks weak fairness of `HandleOf(r)`, the next step of the handler of each
request: a handler that has a next step takes it (the runtime runs it, the
database and the broker answer or an error does). A handler waiting on the index
has no step, so the waiting must *end*: it does because the holder is itself a
fair handler, or has failed or crashed and its rows are gone. Nothing else is
fair: services need not restart, the broker need not come back, libraries need
not notice or recover. `Post` is not fair either: nobody has to send a request.
Weak fairness is enough since no handler's step is disabled again and again by
others: once the holder is gone the number is free or taken for good, or held by
another waiter, of which there are finitely many.

`Benchmark` asks it of the benchmark alone: workers send and time out (`Load`; a
post has a timeout, so waiting ends), the executor returns, and the clean-up ends
with or without an error. Nothing is asked of the services; `Completes` does not
need them.

The other modules ask weak fairness of the code and its libraries alone:
`PyPublisher` of the steps of a call (the broker answers or the socket fails, as
pika's timeouts see to), which with a lock passed on at the end of each call is
enough for `Returns`; `NodePublisher` of the requests and of the promises of
amqplib, not of the broker coming back; `PyProcess` of what waits for nothing but
a thread, not of publishing and not of timeouts; `Pools` of the handlers, not of
timeouts. Weak fairness suffices in `Pools` because requests are finitely many:
a handler that others overtake for a connection is overtaken finitely often.
`Money` and `Measurement` have safety properties only.

Deadlock is checked in every run; `Quiet` (`Over` in
`Benchmark`, `Stopped` in `PyProcess`, `Reported` in `Measurement`) is the state in
which everything is done; `Money` goes on reading for ever.

## 4. Findings

| Run | Code | What |
|---|---|---|
| `already_exists` | `CreateBillService.java:60`, `CreateBillService.kt:43` | Any `DataIntegrityViolationException`, an overflow included, is answered with 409 "Bill number ... already exists", although no bill has the number. |
| `nothing_left` | `benchmark_post.py:292` | The README of the benchmark says that created rows are deleted after the run; the bill of a client that timed out may be committed after the clean-up and stays. |

Four more places where the code and its own words part are described with the
properties that have to make room for them (section 3): `BrokerErrorMeansStored`,
`JvmQuantities`, `OneLimit` and `OnlyDeadConnectionsLose`.

## 5. Proofs

Every safety property of the passing runs is a theorem, for every value of the
constants that the named assumptions of its module admit. TLC evaluates these
assumptions in the runs.

### The services

`ArenaProofs` (for every set of requests, services, bodies, numbers, and every
number of faults; from `PayloadAssumption`, `CapacityAssumption` and
`DeploymentAssumption` only):

| Theorem | Property |
|---|---|
| `Invariance` | `Inv` (in no run) |
| `TypeCorrect` | `TypeOK` (in no run) |
| `NumbersUnique` | `UniqueNumbers` |
| `BillsWhole` | `WholeBills` |
| `EventsHaveBills` | `EventHasBill` |
| `AnswersTellTheTruth` | `AnswerMeansEffect` |
| `NothingStranded` | `NoStrandedRows` |
| `EventsFollowCommits` | `EventAfterCommit` |
| `ContractKept` | `Contract` |
| `NothingComesLate` | `NothingLate` |
| `ConflictsAreReal` | `ConflictIsReal` |
| `BrokerErrorsMeanStored` | `BrokerErrorMeansStored` |
| `RunsSmoothly` | `SmoothRun` |
| `LossesAreTold` | `OnlyDeadConnectionsLose` |
| `RulesAreApplied` | `RulesApplied` (in no run) |
| `HandlersGoForward` | `HandlersAdvance` (in no run) |
| `NobodyIsStuck` | `NobodyStuck` (in no run) |

None of the safety properties is inductive alone. That a commit adds no second
bill with a number needs uniqueness over uncommitted rows too (`UniqueNumbers`
is stated over `Rows`); that a committed bill has all its lines needs to know
which lines its transaction holds at each stage (`StageOfLines`); that an event
has its bill needs that a handler at `publish` is past its commit
(`StageOfRows`, `StageOfEvents`). `Inv` is these with the type invariant.

Seven services have some sixty actions. The argument does not go through them
one by one: each is first shown to be one of six *kinds* of steps (`Move`,
`Insert`, `AddLines`, `Store`, `Announce`, `Close`; lemmas `PyKind` ... `RustKind`,
`MishapKind`, `CrashCloses`), and each kind is shown to preserve `Inv`
(`MoveInv` ... `CloseInv`). What happens aside of requests preserves it since it
touches none of it (`AsideInv`). `EventsFollowCommits` follows from the kinds as
well: only `Announce` changes the queue, and only of a stored bill.

The kinds also give the refinement: under `Inv` each kind is an action of
`BillsContract` or changes nothing it speaks of (`KindKeepsContract`); a crash is
a `Fail` of all requests of a service with the commits the database lets through
(`CrashKeepsContract`). `NothingComesLate` follows since the contract itself
loses nothing (`ContractLosesNothing`). The meaning of an answer needs more than
its kind, namely why it was given: for each shared step of `Handling`, and then
for each service, a step that answers has a reason (another bill with the number,
a value that does not fit, a commit that went before) that stays true, since
bills stay (`Reason`). `LossesAreTold` is shown the same way of going on to the
201 (`Honest`): the event is queued or the connection was dead, where that it is
queued *once* needs of `Inv` that nothing was queued before the publish
(`SentHonestly`). `SmoothRun` is not inductive: `Undisturbed` adds that without
faults every service is up, the broker too, and a connection is open or not yet
made.

The last three of the table are the safety under `Answered`. `NobodyStuck` says that a handler
under way can go on or waits for a number whose holder can: there is no deadlock
and no circle of waiting in any state, faults or not. `HandlersAdvance` says that
no handler goes back a stage and that each of its own steps brings it a stage, a
line or a connection further. Since stages and lines are finitely many and a
connection is lost only by a fault, a handler that keeps taking steps comes to
its answer; that it keeps taking them is the fairness, with which TLC finishes
the argument in `race`. Their invariant, `Progressing`, follows a body through the
layers of rules, because a body without lines would leave a handler that inserts
line by line with nothing to insert: that no service admits one is
`AdmittedHaveLines`. It also says that a service handling requests is up and that
one which connects before it listens has connected, without which the Rust
handler, which never reconnects, could not go on at `publish`. `CanGoOn` is the
guard of a handler's steps written as a formula, since `ENABLED` is out of the
prover's reach; TLC agreed on two instances (the one of `race`, and Python, Rust,
Node and .NET with the bodies of `faults`) that the two are the same in every
state.

### The parts

`BodiesProofs`, bodies (of any size; from `ChoicesAssumption` and the two on
payloads): `PlainBodiesAgree` (`PlainAgreement`), `LimitsAgree` (`OneLimit`) and
`JvmQuantitiesPositive` (`JvmQuantities`). The rules are compared layer by layer:
on a plain body every layer of every service reduces to parts of `CommonRule`
(`LineRules`, `BodyRules`); without that premise each service's layers still
imply the limits (`LineLimits`, `BodyLimits`).

`BodiesProofs`, money (any amounts; from `MoneyAssumption`): `ReadersConfirm`
(`TotalsAgree`), which bounds what rounding the tax can move, and `StoredAlike`
(`ServicesAgree`): a number of whole cents is its own rounding, and the product
of two is rounded from the exact one in every service (`WholeCentsKept`,
`ProductInCents`, `RoundedProduct`).

`PyPublisherProofs` (for any number of threads and faults; from
`ThreadAssumption`): `QueueComesFirst`, `RaisedIsUnsent` and `PublishImplemented`.
The invariant adds to the lock (`OneAtATime`) what the handles imply of each
other and of the broker (`LiveHandles`: an open channel has its queue declared
unless a thread is just about to) and what a thread in the middle of
`_ensure_channel` may rely on (`Known`).

`PyProcessProofs` (any number of requests, threads and connections; from
`ProcessAssumption`): `ResourcesThere` (`ResourcesReady`) and `EngineSettles`
(`SettledForGood`). A thread may make an engine only if it found none, and those
that did were on different threads when there was none; so engines made and
engines about to be made are together no more than the worker threads
(`OneEnginePerThread`), which is an argument by cardinalities.

`NodePublisherProofs` (any number of requests and faults; from
`PublisherAssumption`): `RaisedIsUnsent` (`RaisedSendsNothing`),
`ConnectionsShared` (`OneInTheMaking`), `RetriesRecover` (`RetryRecovers`), and in
no run `PromisesKept` (`NobodyForgotten`): whatever a request waits for is
settled or can still be. `IInv` has three parts: what the library has made
(`LibraryInv`: sockets and channels appear in the order of the set-up, and every
field or variable that names a connection names one that *was* set up, though it
may have died since), what is promised (`PromiseInv`), and what requests may
still do (`RequestInv`).

`RetriesRecover` needs an invariant beside it, `RecoveryInv`, which counts deaths.
The first death is that of the connection the service started with, and makes no
request fail: the next connection is sound (`OneDeath`). Before the first reset
no connection is made beside one in use (`BeforeReset`). The first reset
therefore comes after a second death and finds nothing in the making, so that
whatever second tries come to wait for is younger than that death, hence sound
unless there is a third (`TwoDeaths`, `RetriesWork`). This would fail if a second try could wait for a
set-up in which a death is already counted but not yet acted upon; that no code
is then left behind an await is `OneAtATime`. What a reset closes has been
set up before, so no other try depends on it.

`PoolsProofs` (any number of requests, services, numbers and connections; from
`PoolAssumption`): `ConnectionsComeBack` (`NothingLeaks`), and in no run
`PoolsKept` (`PoolsBounded`) and `NoCircle` (`WaitingEnds`). The last says why
nobody waits in a circle: who waits for a connection waits for those who have
one, each of whom can go on or waits for a number; who waits for a number waits
for an open transaction, which has its connection and waits for nothing
(`InsertedHeld`, `InsertedGoOn`). `CanGoOn` says this of a state; that it is
the guard of the steps was compared by TLC, since `ENABLED` is out of the
prover's reach.

`BenchmarkProofs` (for any number of runs, bills and workers; from
`BenchmarkAssumption`): `OnlyOwnRowsDeleted` (`OwnRowsOnly`),
`CreatedBillsDeleted` (`CreatedAreDeleted`) and `OnlyLostLeftBehind`
(`LeftBehind`). The inductive invariant `BenchInv` adds that nothing of a later
run exists yet (`Posted`), that a stored bill stays until its run is cleaned up
(`Recorded`), and that no client waits once a run is being cleaned up
(`CleanedUp`). With it a pattern finds exactly the bills of its run
(`MatchesOwn`).

`MeasurementProofs` (any number of requests and workers; from
`MeasurementAssumption`):

| Theorem | Property |
|---|---|
| `RequestsCounted` | `EveryRequestCounted` |
| `FullMarksEarned` | `FullMarksAreEarned` (in no run) |
| `OrderDoesNotShow` | `OrderIrrelevant` |
| `LatenciesInOrder` | `LatenciesOrdered` |
| `LittlesLawHolds` | `LittlesLaw` |
| `PercentilesOrdered` | a fact about `Percentile` |

`MeasurementInv` has three parts. `CountsInv` counts the results by status.
`ClocksInv` charges to every request the time a worker has spent on it
until now (`Spent`): with at most `Concurrency` in flight, one tick adds at most
`Concurrency` to the sum, which is Little's law before the load is over.
`ResultsInv` says that the results are what came of different requests; when all
are in they are a permutation of the outcomes, so both have the same sum
(`SumOfParts`) and sort to the same list (`SortSame`).

These are facts about sums and sorting, which recursion or choice define, and the
provers cannot instantiate an induction theorem. The lemmas therefore argue by
the least number in a set (`Least`) and by sets of numbers and of parts
(`Induction`, `PartInduction`: a set that is closed under one more step is the
whole set), which is first-order. `SumFunction` of the community modules is
unfolded once (`SumUnfolds`); that the function it chooses exists is
`SumExists`. `Sorted` is *a* rearrangement in ascending order: that there is one
is `SortExists`, by adding one element at a time, and that there is only one is
`SortSame`, since two would have to differ in how many elements lie below some
place (`NotAhead`). The median is the 50th percentile (`MedianIsPercentile`),
which puts it among the others.

Only model-checked: the liveness properties (`Answered`, `EventFollowsCommit`,
`Completes`, `Returns` of both publishers, `ReadersGoOn`, `EveryoneServed`), which
are out of the prover's reach. `NobodyIsStuck`, `HandlersGoForward`, `PromisesKept` and
`NoCircle` are the safety they rest on.

## 6. Not modelled

* The rows the GET endpoints return, apart from the total; their order. One
  read-only statement each.
* The pools of `GET /bills-minimal` outside Python, and `close()` of the Node
  publisher.
* The inside of the .NET, Go, Java, Kotlin and Rust publishers. A lock or the
  library serializes their calls as `PyPublisher` shows for Python.
* Start-up of the services against a broker that comes late: a service that does
  not start is one that is not `running` in `Arena`.
* `--skip-cleanup`, the order of the targets, response sizes, standard
  deviation; the seed generator (tables start empty), configuration, metrics,
  wording of messages, layout of JSON.

## 7. Plan

Done, in this order: `Payloads`, `Validation`, `Deployment`, `BillStore`, `Broker`,
`Handling`, the seven services, `Arena`, `Correctness`, `BillsContract`,
`Bodies`, `Benchmark` and their proofs; then `PyPublisher`, `PyProcess`, `NodePublisher`, `Pools`, `Money`, `Statistics`,
`Measurement` and their proofs.

To extend the model:

1. Start-up against a broker and a database that come late, with the restarts of
   `docker-compose.yml`.
2. The other publishers in the manner of `PyPublisher`, the .NET one with its
   recovery in the background first.

To prove more: of `Pools`, `NodePublisher` and `PyPublisher` what
`HandlersAdvance` says of the handlers, that their steps lead forward; that stored
bills of any service keep the limits of all (`RulesApplied` with `OneLimit`).
