------------------------------ MODULE PyProcess ------------------------------
(***************************************************************************)
(* One process of the Python service: its start and shutdown, the worker   *)
(* threads on which its three endpoints run, and what they share: the      *)
(* engine and the session factory of db.py, made by the first request that *)
(* needs them and without a lock, the pool of the minimal endpoint, and    *)
(* the publisher with its lock.  What a POST does to the tables and to the *)
(* queue is in PyService; here it takes resources and gives them back.     *)
(***************************************************************************)
EXTENDS Naturals, FiniteSets

CONSTANTS
  Request,      \* the requests of one life of the process
  nobody,       \* holder of a free lock
  Workers,      \* threads for handlers (AnyIO's limiter)
  PoolSize,     \* PY_DB_POOL_SIZE + PY_DB_MAX_OVERFLOW
  MinimalSize   \* POSTGRES_POOL_MAX_SIZE

ASSUME ProcessAssumption ==
  /\ nobody \notin Request /\ IsFiniteSet(Request)
  /\ Workers \in Nat /\ PoolSize \in Nat /\ MinimalSize \in Nat

VARIABLES
  phase,      \* how far the lifespan has come
  minimal,    \* minimal_pool: "none", "made", "open" or "closed"
  publisher,  \* event_publisher: "none", "made" or "closed"
  engine,     \* _engine, 0 for None; engines are numbered as they are made
  factory,    \* _session_factory: the engine it is bound to, 0 for None
  made,       \* engines made so far
  kind,       \* the endpoint of each request
  at,         \* where its handler is
  local,      \* the engine its handler has got hold of
  held,       \* whether it has a connection of a pool
  lock        \* the publisher's lock

lifespan == <<phase, minimal, publisher>>
globals == <<engine, factory, made>>
vars == <<lifespan, globals, kind, at, local, held, lock>>

Kind == {"minimal", "list", "post"}

\* get_engine and what create_session does with its result.
Creating == {"engine", "create", "return", "bind"}

\* "unready": a resource of the lifespan was not there.
Ended == {"answered", "timeout", "unready"}

Place ==
  {"new", "factory", "open", "checkout", "query", "lock", "publish", "end"}
    \cup Creating \cup Ended

Active == {r \in Request : at[r] \notin {"new"} \cup Ended}

Creators == {r \in Request : at[r] \in Creating}

TypeOK ==
  /\ phase \in {"starting", "serving", "draining", "closing", "stopped"}
  /\ minimal \in {"none", "made", "open", "closed"}
  /\ publisher \in {"none", "made", "closed"}
  /\ made \in Nat /\ engine \in 0..made /\ factory \in 0..made
  /\ kind \in [Request -> Kind]
  /\ at \in [Request -> Place]
  /\ local \in [Request -> 0..made]
  /\ held \in [Request -> BOOLEAN]
  /\ lock \in Request \cup {nobody}

Init ==
  /\ phase = "starting" /\ minimal = "none" /\ publisher = "none"
  /\ engine = 0 /\ factory = 0 /\ made = 0
  /\ kind \in [Request -> Kind]
  /\ at = [r \in Request |-> "new"]
  /\ local = [r \in Request |-> 0]
  /\ held = [r \in Request |-> FALSE]
  /\ lock = nobody

Goto(r, place) == at' = [at EXCEPT ![r] = place]

-----------------------------------------------------------------------------
\* The lifespan up to its yield.  When the pool cannot reach the database in
\* time the process does not start.
MakePool ==
  /\ phase = "starting" /\ minimal = "none"
  /\ minimal' = "made"
  /\ UNCHANGED <<phase, publisher, globals, kind, at, local, held, lock>>

OpenPool ==
  /\ phase = "starting" /\ minimal = "made"
  /\ \/ minimal' = "open" /\ UNCHANGED phase
     \/ phase' = "stopped" /\ UNCHANGED minimal
  /\ UNCHANGED <<publisher, globals, kind, at, local, held, lock>>

MakePublisher ==
  /\ phase = "starting" /\ minimal = "open"
  /\ publisher' = "made" /\ phase' = "serving"
  /\ UNCHANGED <<minimal, globals, kind, at, local, held, lock>>

\* Uvicorn stops accepting, and resumes the lifespan when it has answered
\* the requests it had accepted.
StopAccepting ==
  /\ phase = "serving" /\ phase' = "draining"
  /\ UNCHANGED <<minimal, publisher, globals, kind, at, local, held, lock>>

\* Mutant: the lifespan is resumed without waiting for the requests.
ClosePublisherNow ==
  /\ phase = "draining" /\ lock = nobody
  /\ publisher' = "closed" /\ phase' = "closing"
  /\ UNCHANGED <<minimal, globals, kind, at, local, held, lock>>

\* close() may raise, and then the pool is left open.
ClosePublisher ==
  /\ phase = "draining" /\ Active = {} /\ lock = nobody
  /\ \/ publisher' = "closed" /\ phase' = "closing"
     \/ UNCHANGED publisher /\ phase' = "stopped"
  /\ UNCHANGED <<minimal, globals, kind, at, local, held, lock>>

ClosePool ==
  /\ phase = "closing"
  /\ minimal' = "closed" /\ phase' = "stopped"
  /\ UNCHANGED <<publisher, globals, kind, at, local, held, lock>>

Lifespan ==
  \/ MakePool \/ OpenPool \/ MakePublisher
  \/ StopAccepting \/ ClosePublisher \/ ClosePool

-----------------------------------------------------------------------------
\* A request gets a thread.
Accept(r) ==
  /\ phase = "serving" /\ at[r] = "new"
  /\ Cardinality(Active) < Workers
  /\ Goto(r, IF kind[r] = "minimal" THEN "open" ELSE "factory")
  /\ UNCHANGED <<lifespan, globals, kind, local, held, lock>>

\* Mutant: create_session always makes a factory.
CheckFactoryNever(r) ==
  /\ at[r] = "factory"
  /\ Goto(r, "engine")
  /\ UNCHANGED <<lifespan, globals, kind, local, held, lock>>

\* create_session and get_engine, one look at a global or one assignment to
\* it at a time: another thread may come between any two.
CheckFactory(r) ==
  /\ at[r] = "factory"
  /\ Goto(r, IF factory = 0 THEN "engine" ELSE "open")
  /\ UNCHANGED <<lifespan, globals, kind, local, held, lock>>

CheckEngine(r) ==
  /\ at[r] = "engine"
  /\ Goto(r, IF engine = 0 THEN "create" ELSE "return")
  /\ UNCHANGED <<lifespan, globals, kind, local, held, lock>>

CreateEngine(r) ==
  /\ at[r] = "create"
  /\ made' = made + 1 /\ engine' = made + 1
  /\ Goto(r, "return")
  /\ UNCHANGED <<lifespan, factory, kind, local, held, lock>>

ReturnEngine(r) ==
  /\ at[r] = "return"
  /\ local' = [local EXCEPT ![r] = engine]
  /\ Goto(r, "bind")
  /\ UNCHANGED <<lifespan, globals, kind, held, lock>>

BindFactory(r) ==
  /\ at[r] = "bind"
  /\ factory' = local[r]
  /\ Goto(r, "open")
  /\ UNCHANGED <<lifespan, engine, made, kind, local, held, lock>>

\* The resource an endpoint asks for before its first query.  A publisher
\* that is closed would connect again.
Ready(r) ==
  /\ kind[r] = "minimal" => minimal = "open"
  /\ kind[r] = "post" => publisher # "none"

\* A session takes no connection yet; it is made by whatever factory is
\* there now.
Open(r) ==
  /\ at[r] = "open"
  /\ local' = [local EXCEPT ![r] = IF kind[r] = "minimal" THEN 0 ELSE factory]
  /\ Goto(r, IF Ready(r) THEN "checkout" ELSE "unready")
  /\ UNCHANGED <<lifespan, globals, kind, held, lock>>

-----------------------------------------------------------------------------
\* The requests with a connection of the pool that r takes its own from.
Using(r) == {q \in Request : held[q] /\ local[q] = local[r]}

Size(r) == IF kind[r] = "minimal" THEN MinimalSize ELSE PoolSize

\* The first statement, or pool.connection(), takes a connection.
Checkout(r) ==
  /\ at[r] = "checkout" /\ Cardinality(Using(r)) < Size(r)
  /\ held' = [held EXCEPT ![r] = TRUE]
  /\ Goto(r, "query")
  /\ UNCHANGED <<lifespan, globals, kind, local, lock>>

CheckoutTimesOut(r) ==
  /\ at[r] = "checkout" /\ Cardinality(Using(r)) >= Size(r)
  /\ Goto(r, "timeout")
  /\ UNCHANGED <<lifespan, globals, kind, local, held, lock>>

\* Mutant: expire_on_commit is left on, and reading the new id after the
\* commit takes the connection back.
QueryAndRefresh(r) ==
  /\ at[r] = "query"
  /\ \/ kind[r] = "post" /\ Goto(r, "lock") /\ UNCHANGED held
     \/ Goto(r, "end") /\ UNCHANGED held
  /\ UNCHANGED <<lifespan, globals, kind, local, lock>>

\* The statements.  The commit of a POST gives the connection back; a
\* refusal, an error and the end of a GET leave that to the with block.
Query(r) ==
  /\ at[r] = "query"
  /\ \/ /\ kind[r] = "post"
        /\ held' = [held EXCEPT ![r] = FALSE]
        /\ Goto(r, "lock")
     \/ Goto(r, "end") /\ UNCHANGED held
  /\ UNCHANGED <<lifespan, globals, kind, local, lock>>

TakeLock(r) ==
  /\ at[r] = "lock" /\ lock = nobody
  /\ lock' = r
  /\ Goto(r, "publish")
  /\ UNCHANGED <<lifespan, globals, kind, local, held>>

\* publish returns or raises, after a time that is the broker's to choose.
Publish(r) ==
  /\ at[r] = "publish"
  /\ lock' = nobody
  /\ Goto(r, "end")
  /\ UNCHANGED <<lifespan, globals, kind, local, held>>

\* The with block closes the session, or returns the connection.
End(r) ==
  /\ at[r] = "end"
  /\ held' = [held EXCEPT ![r] = FALSE]
  /\ Goto(r, "answered")
  /\ UNCHANGED <<lifespan, globals, kind, local, lock>>

\* Steps that wait for nothing but another thread.
Step(r) ==
  \/ CheckFactory(r) \/ CheckEngine(r) \/ CreateEngine(r) \/ ReturnEngine(r)
  \/ BindFactory(r) \/ Open(r) \/ Checkout(r) \/ Query(r) \/ End(r)

Handle(r) ==
  Accept(r) \/ Step(r) \/ CheckoutTimesOut(r) \/ TakeLock(r) \/ Publish(r)

Stopped == phase = "stopped" /\ UNCHANGED vars

Next == Lifespan \/ Stopped \/ \E r \in Request : Handle(r)

\* Nothing is assumed of the broker, nor that time runs out.
Spec == Init /\ [][Next]_vars /\ \A r \in Request : WF_vars(Step(r))

-----------------------------------------------------------------------------
\* A request under way has an open pool and a publisher that is not closed,
\* so that the two RuntimeErrors of main.py are never raised.
ResourcesReady ==
  /\ Active # {} => minimal = "open" /\ publisher = "made"
  /\ \A r \in Request : at[r] # "unready"

Settled == factory # 0 /\ Creators = {}

\* Threads that find no engine together make one each, with a pool of its own:
\* the database sees at most as many pools as there are threads.  Once there is
\* a factory and no thread is still making one, all that follow use it: no
\* engine is made or replaced any more.
SettledForGood ==
  [][made' <= Workers /\ (Settled => Settled' /\ UNCHANGED globals)]_vars

\* A broker that never answers holds up no request that is not about to
\* publish: each is answered, or reaches the publisher, without a timeout.
ReadersGoOn ==
  \A r \in Request :
    at[r] \notin {"new", "lock", "publish"} ~> at[r] \in Ended \cup {"lock"}

-----------------------------------------------------------------------------
\* Requests are under way only between the two halves of the lifespan.
ServedWhileUp ==
  /\ phase \in {"serving", "draining"} => minimal = "open" /\ publisher = "made"
  /\ phase \in {"starting", "closing", "stopped"} => Active = {}

\* A connection is held between its checkout and the end of the with block.
HeldInBlock == \A r \in Request : held[r] => at[r] \in {"query", "end"}

\* Only the threads that found no engine can make one, and they were on
\* different threads when there was none.
CreateEngines == {r \in Request : at[r] = "create"}

OneEnginePerThread ==
  /\ Cardinality(Active) <= Workers
  /\ made = 0 <=> engine = 0
  /\ made + Cardinality(CreateEngines) <= Workers

\* The inductive invariant.
Inv ==
  /\ TypeOK
  /\ ServedWhileUp
  /\ HeldInBlock
  /\ OneEnginePerThread
  /\ \A r \in Request : at[r] # "unready"
=============================================================================
