----------------------------- MODULE PyPublisher -----------------------------
(***************************************************************************)
(* The publisher of the Python service.  The threads that have stored a    *)
(* bill call publish; a lock lets one of them at a time use the connection *)
(* and the channel, which it opens again when pika reports them closed.    *)
(*                                                                         *)
(* pika's blocking connection reads its socket only inside a call.  A      *)
(* connection or a channel that the broker has given up is therefore       *)
(* "stale" until a call runs into it; a call that waits for an answer      *)
(* (channel, queue_declare) then raises, one that does not (basic_publish) *)
(* may also return as if nothing were wrong.                               *)
(***************************************************************************)
EXTENDS Naturals

CONSTANTS
  Thread,     \* the threads that call publish, one call each
  nobody,     \* holder of a free lock
  MaxFaults   \* bound on broker stops, dropped connections and channel errors

ASSUME ThreadAssumption == nobody \notin Thread /\ MaxFaults \in Nat

VARIABLES
  holder,      \* self._lock
  connection,  \* self._connection: "none", "open", "stale", "closed"
  channel,     \* self._channel, likewise
  at,          \* where each thread is in publish
  queued,      \* messages of each thread in the queue
  broker,      \* "up" or "down"
  queue,       \* whether the broker knows the queue
  faults       \* faults so far

own == <<holder, connection, channel, at, queued>>
world == <<broker, queue, faults>>
vars == <<own, world>>

Handle == {"none", "open", "stale", "closed"}

(***************************************************************************)
(* "connected": a new connection without a channel; "opened": a channel on *)
(* which the queue is not declared yet; "ready": _ensure_channel returns.  *)
(***************************************************************************)
Place == {"idle", "waiting", "ensure", "connected", "opened", "look", "ready",
          "published", "raised"}

Holding == {"ensure", "connected", "opened", "look", "ready"}

TypeOK ==
  /\ holder \in Thread \cup {nobody}
  /\ connection \in Handle /\ channel \in Handle
  /\ at \in [Thread -> Place]
  /\ queued \in [Thread -> Nat]
  /\ broker \in {"up", "down"} /\ queue \in BOOLEAN
  /\ faults \in 0..MaxFaults

Init ==
  /\ holder = nobody
  /\ connection = "none" /\ channel = "none"
  /\ at = [t \in Thread |-> "idle"]
  /\ queued = [t \in Thread |-> 0]
  /\ broker = "up" /\ queue \in BOOLEAN
  /\ faults = 0

-----------------------------------------------------------------------------
Goto(t, place) == at' = [at EXCEPT ![t] = place]

\* The with block ends, with or without an exception.
Leave(t, place) == Goto(t, place) /\ holder' = nobody

Unusable(h) == h \in {"none", "closed"}

\* A call that waits for the broker's answer finds the connection or the
\* channel dead.
Discover(t) ==
  /\ Leave(t, "raised")
  /\ connection' = IF connection = "stale" THEN "closed" ELSE connection
  /\ channel' = IF channel = "none" THEN "none" ELSE "closed"
  /\ UNCHANGED <<queued, world>>

Call(t) ==
  /\ at[t] = "idle" /\ Goto(t, "waiting")
  /\ UNCHANGED <<holder, connection, channel, queued, world>>

Enter(t) ==
  /\ at[t] = "waiting" /\ holder = nobody
  /\ holder' = t /\ Goto(t, "ensure")
  /\ UNCHANGED <<connection, channel, queued, world>>

\* Mutant: publish waits for the broker to come back.
KeepTrying(t) ==
  /\ at[t] = "ensure"
  /\ \/ /\ ~Unusable(connection)
        /\ Goto(t, "look") /\ UNCHANGED connection
     \/ /\ Unusable(connection) /\ broker = "up"
        /\ connection' = "open"
        /\ Goto(t, "connected")
  /\ UNCHANGED <<holder, channel, queued, world>>

\* The first half of _ensure_channel, up to the new connection.
EnsureConnection(t) ==
  /\ at[t] = "ensure"
  /\ \/ /\ ~Unusable(connection)
        /\ Goto(t, "look") /\ UNCHANGED <<holder, connection>>
     \/ /\ Unusable(connection) /\ broker = "up"
        /\ connection' = "open"
        /\ Goto(t, "connected") /\ UNCHANGED holder
     \/ /\ Unusable(connection) /\ broker = "down"
        /\ Leave(t, "raised") /\ UNCHANGED connection
  /\ UNCHANGED <<channel, queued, world>>

\* The second half: a channel that is missing or closed.
Look(t) ==
  /\ at[t] = "look"
  /\ Goto(t, IF Unusable(channel) THEN "connected" ELSE "ready")
  /\ UNCHANGED <<holder, connection, channel, queued, world>>

\* Mutant: a new channel on an old connection needs no queue.
OpenChannelOnly(t) ==
  /\ at[t] = "connected"
  /\ \/ /\ connection = "open"
        /\ channel' = "open" /\ Goto(t, "ready")
        /\ UNCHANGED <<holder, connection, queued, world>>
     \/ connection = "stale" /\ Discover(t)

OpenChannel(t) ==
  /\ at[t] = "connected"
  /\ \/ /\ connection = "open"
        /\ channel' = "open" /\ Goto(t, "opened")
        /\ UNCHANGED <<holder, connection, queued, world>>
     \/ connection = "stale" /\ Discover(t)

DeclareQueue(t) ==
  /\ at[t] = "opened"
  /\ \/ /\ connection = "open" /\ channel = "open"
        /\ queue' = TRUE /\ Goto(t, "look")
        /\ UNCHANGED <<holder, connection, channel, queued, broker, faults>>
     \/ "stale" \in {connection, channel} /\ Discover(t)

\* Mutant: an error of the broker is swallowed.
PublishSwallowing(t) ==
  /\ at[t] = "ready"
  /\ \/ /\ connection = "open" /\ channel = "open"
        /\ queued' = [queued EXCEPT ![t] = @ + 1]
        /\ Leave(t, "published")
        /\ UNCHANGED <<connection, channel, world>>
     \/ /\ "stale" \in {connection, channel}
        /\ connection' = "closed" /\ channel' = "closed"
        /\ Leave(t, "published")
        /\ UNCHANGED <<queued, world>>

\* Mutant: a call closes the connection after its message, which may raise.
PublishAndClose(t) ==
  /\ at[t] = "ready"
  /\ connection' = "closed" /\ channel' = "closed"
  /\ \/ /\ connection = "open" /\ channel = "open"
        /\ queued' = [queued EXCEPT ![t] = @ + 1]
        /\ Leave(t, "published") \/ Leave(t, "raised")
     \/ /\ "stale" \in {connection, channel}
        /\ Leave(t, "raised") /\ UNCHANGED queued
  /\ UNCHANGED world

\* basic_publish to the default exchange, neither mandatory nor confirmed: a
\* message for a queue that is not there is dropped.
Publish(t) ==
  /\ at[t] = "ready"
  /\ \/ /\ connection = "open" /\ channel = "open"
        /\ queued' = [queued EXCEPT ![t] = IF queue THEN @ + 1 ELSE @]
        /\ Leave(t, "published")
        /\ UNCHANGED <<connection, channel, world>>
     \/ /\ "stale" \in {connection, channel}
        /\ Leave(t, "published")
        /\ UNCHANGED <<connection, channel, queued, world>>
     \/ "stale" \in {connection, channel} /\ Discover(t)

PublishStep(t) ==
  \/ Enter(t) \/ EnsureConnection(t) \/ Look(t) \/ OpenChannel(t)
  \/ DeclareQueue(t) \/ Publish(t)

(***************************************************************************)
(* close, at the end of the lifespan, when every request is answered.      *)
(* Closing a connection that the broker has given up may raise, and then   *)
(* nothing is forgotten.                                                   *)
(***************************************************************************)
Close ==
  /\ holder = nobody
  /\ \A t \in Thread : at[t] \in {"published", "raised"}
  /\ connection # "none"
  /\ \/ connection' = "none" /\ channel' = "none"
     \/ connection = "stale" /\ connection' = "closed" /\ channel' = "closed"
  /\ UNCHANGED <<holder, at, queued, world>>

-----------------------------------------------------------------------------
Fault == faults < MaxFaults /\ faults' = faults + 1

Stale(h) == IF h = "open" THEN "stale" ELSE h

BrokerStops ==
  /\ broker = "up" /\ broker' = "down"
  /\ connection' = Stale(connection) /\ channel' = Stale(channel)
  /\ Fault
  /\ UNCHANGED <<holder, at, queued, queue>>

\* A durable queue survives a restart, but not a new container.
BrokerStarts ==
  /\ broker = "down" /\ broker' = "up"
  /\ queue' \in {queue, FALSE}
  /\ UNCHANGED <<own, faults>>

\* A missed heartbeat.
ConnectionDrops ==
  /\ connection = "open"
  /\ connection' = "stale" /\ channel' = Stale(channel)
  /\ Fault
  /\ UNCHANGED <<holder, at, queued, broker, queue>>

\* The broker closes the channel alone, after an error of a command on it.
ChannelFails ==
  /\ channel = "open" /\ channel' = "stale"
  /\ Fault
  /\ UNCHANGED <<holder, connection, at, queued, broker, queue>>

Outside == BrokerStops \/ BrokerStarts \/ ConnectionDrops \/ ChannelFails

\* Every thread has made its call: nothing need happen any more.
Quiet == (\A t \in Thread : at[t] \in {"published", "raised"}) /\ UNCHANGED vars

Next ==
  \/ \E t \in Thread : Call(t) \/ PublishStep(t)
  \/ Close \/ Outside \/ Quiet

Spec ==
  /\ Init /\ [][Next]_vars
  /\ \A t \in Thread : WF_vars(PublishStep(t))
-----------------------------------------------------------------------------
\* At most one thread is past the lock, and it is the holder.
OneAtATime == \A t \in Thread : at[t] \in Holding <=> holder = t

\* A message is only sent on a live channel when the queue is there to take
\* it, however connections, channels and queues have come and gone: without
\* the mandatory flag the broker would drop it in silence.
QueueBeforeMessage ==
  \A t \in Thread :
    at[t] = "ready" /\ connection = "open" /\ channel = "open" => queue

\* A call leaves at most one message, and a call that raises leaves none, so
\* that a 503 tells the client that the event is missing.
RaisedSendsNothing ==
  \A t \in Thread : queued[t] = 0 \/ (queued[t] = 1 /\ at[t] = "published")

-----------------------------------------------------------------------------
(***************************************************************************)
(* The publish step of PyService, where the whole call is one or two       *)
(* steps: connecting, when it has to, and publishing.                      *)
(***************************************************************************)
AsConn ==
  IF "stale" \in {connection, channel} THEN "stale"
  ELSE IF "closed" \in {connection, channel} THEN "closed"
  ELSE IF channel = "open" THEN "open" ELSE "none"

AsStage(place) ==
  IF place = "published" THEN "respond"
  ELSE IF place = "raised" THEN "done" ELSE "publish"

AsAnswer(place) == IF place = "raised" THEN "503" ELSE "none"

conn == [s \in {"py"} |-> AsConn]
pc == [t \in Thread |-> AsStage(at[t])]
answer == [t \in Thread |-> AsAnswer(at[t])]

Service == INSTANCE PyService WITH
  Services <- {"py"}, Req <- Thread, Number <- {},
  Payload <- {}, MaxQuantity <- 0, MaxAmount <- 0,
  bill <- {}, line <- {}, newBill <- {}, newLine <- {},
  serves <- [t \in Thread |-> "py"], body <- [t \in Thread |-> nobody],
  number <- [t \in Thread |-> nobody], running <- {"py"}

\* Outside the calls a connection can be lost or forgotten, never opened.
Lost ==
  /\ UNCHANGED <<pc, answer, queued>>
  /\ conn' = conn \/ AsConn' # "open"

\* Threads, lock, channel and declarations together do what PyService says a
\* publish does: to the client, to the queue and to the connection.
ImplementsPublish ==
  [][(\E t \in Thread : Service!PyPublish(t)) \/ Lost]_vars

\* Every call returns or raises: no thread waits for the lock for ever.
Returns ==
  \A t \in Thread : at[t] = "waiting" ~> at[t] \in {"published", "raised"}

-----------------------------------------------------------------------------
\* An open connection leads to a running broker; an open channel belongs to
\* one, and its queue is declared unless that is the next thing to be done.
LiveHandles ==
  /\ connection = "open" => broker = "up"
  /\ channel = "open" => connection = "open"
  /\ Unusable(connection) => Unusable(channel)
  /\ channel = "open" => queue \/ \E t \in Thread : at[t] = "opened"

\* What a thread under way in _ensure_channel knows of its handles.
Known ==
  \A t \in Thread :
    /\ at[t] \in {"connected", "opened", "look", "ready"} => ~Unusable(connection)
    /\ at[t] = "connected" => Unusable(channel)
    /\ at[t] \in {"opened", "ready"} => ~Unusable(channel)

\* The inductive invariant.
Inv ==
  /\ TypeOK
  /\ OneAtATime
  /\ LiveHandles
  /\ Known
  /\ RaisedSendsNothing
=============================================================================
