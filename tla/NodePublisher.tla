---------------------------- MODULE NodePublisher ----------------------------
(***************************************************************************)
(* The publisher of the Node service.  Requests share three fields: the    *)
(* connection, its channel, and the promise of a connection in the making. *)
(* Whatever runs between two awaits is one step.  Whoever can run on does  *)
(* so, in any order, before the event loop takes the next event.  But the  *)
(* library handles all frames of a chunk it has read from a socket, and    *)
(* calls the callbacks, before the code behind an await runs: a close may  *)
(* come right behind a reply.  The fields are cleared by the callbacks of  *)
(* every connection ever made, the current one or not, and by a request    *)
(* that resets the publisher to try a second time.                         *)
(*                                                                         *)
(* Connections are numbered, each has one channel, and the promise of a    *)
(* connection has its number.                                              *)
(***************************************************************************)
EXTENDS Naturals, FiniteSets

CONSTANTS
  Request,    \* the requests that publish, one event each
  MaxFaults   \* bound on broker stops, lost connections and channel errors

ASSUME PublisherAssumption == IsFiniteSet(Request) /\ MaxFaults \in Nat

\* init makes the first connection, and every request tries twice at most.
Connections == 1 .. 1 + 2 * Cardinality(Request)

VARIABLES
  connection, \* this.connection, 0 for null
  channel,    \* this.channel, by its connection
  connecting, \* this.connecting, by its connection
  setup,      \* how far the promise of each connection has come
  socket,     \* state of each connection
  chan,       \* state of its channel
  at,         \* where each request is in publishBillCreated
  waits,      \* the promise it awaits
  tries,      \* how often it has tried
  old,        \* what its reset is closing, <<channel, connection>>
  queued,     \* its messages in the queue
  broker,     \* "up" or "down"
  faults      \* faults so far

fields == <<connection, channel, connecting>>
objects == <<setup, socket, chan>>
calls == <<at, waits, tries, old, queued>>
world == <<broker, faults>>
vars == <<fields, objects, calls, world>>

TypeOK ==
  /\ {connection, channel, connecting} \subseteq {0} \cup Connections
  /\ setup \in [Connections -> {"none", "connect", "connected", "channel", "opened",
                                "queue", "declared", "ok", "failed"}]
  /\ socket \in [Connections -> {"none", "open", "stale", "closed"}]
  /\ chan \in [Connections -> {"none", "open", "closed"}]
  /\ at \in [Request -> {"idle", "ensure", "waiting", "closeChannel",
                         "closeConnection", "returned", "raised"}]
  /\ waits \in [Request -> {0} \cup Connections]
  /\ tries \in [Request -> 0..2]
  /\ queued \in [Request -> Nat]
  /\ broker \in {"up", "down"} /\ faults \in 0..MaxFaults

First(first, rest) == [c \in Connections |-> IF c = 1 THEN first ELSE rest]

\* The service accepts requests when init has connected.
Init ==
  /\ connection = 1 /\ channel = 1 /\ connecting = 0
  /\ setup = First("ok", "none")
  /\ socket = First("open", "none")
  /\ chan = First("open", "none")
  /\ at = [r \in Request |-> "idle"]
  /\ waits = [r \in Request |-> 0]
  /\ tries = [r \in Request |-> 0]
  /\ old = [r \in Request |-> <<0, 0>>]
  /\ queued = [r \in Request |-> 0]
  /\ broker = "up" /\ faults = 0

-----------------------------------------------------------------------------
Goto(r, place) == at' = [at EXCEPT ![r] = place]

Set(f, c, value) == [f EXCEPT ![c] = value]

\* The library writes unless it knows the channel to be closed.
Writable(c) == socket[c] \in {"open", "stale"} /\ chan[c] = "open"

Channel(r) == old[r][1]
Connection(r) == old[r][2]

\* What r awaits is there, or was never going to be waited for.
Runnable(r) ==
  \/ at[r] = "ensure"
  \/ at[r] = "waiting" /\ setup[waits[r]] \in {"ok", "failed"}
  \/ at[r] = "closeChannel" /\ (Channel(r) # 0 => chan[Channel(r)] = "closed")
  \/ at[r] = "closeConnection" /\ (Connection(r) # 0 => socket[Connection(r)] = "closed")

\* The reply to the last call that sets c up has been read, and the code
\* behind its await has not run yet.
Replied(c) == setup[c] \in {"connected", "opened", "declared"}

\* What the set-up of c awaits will not come.
Refused(c) ==
  \/ setup[c] = "channel" /\ socket[c] = "closed"
  \/ setup[c] = "queue" /\ chan[c] = "closed"

\* The event loop takes the next event when nobody can run on.
Turn ==
  /\ \A r \in Request : ~Runnable(r)
  /\ \A c \in Connections : ~Replied(c) /\ ~Refused(c)

\* The library comes to a frame of c, of the next chunk or of the one that
\* the reply was in.
Reads(c) == Turn \/ Replied(c)

Call(r) ==
  /\ at[r] = "idle" /\ Turn /\ Goto(r, "ensure")
  /\ tries' = Set(tries, r, 1)
  /\ UNCHANGED <<fields, objects, waits, old, queued, world>>

\* Mutant: a full write buffer is taken for an error.
SendOrFull(r, c) ==
  /\ Writable(c)
  /\ queued' = [queued EXCEPT ![r] = IF socket[c] = "open" THEN @ + 1 ELSE @]
  /\ \/ Goto(r, "returned") /\ UNCHANGED <<fields, tries, old>>
     \/ /\ tries[r] = 1 /\ tries' = Set(tries, r, 2)
        /\ connection' = 0 /\ channel' = 0 /\ connecting' = 0
        /\ old' = Set(old, r, <<channel, connection>>)
        /\ Goto(r, "closeChannel")

\* sendToQueue on channel c.
Send(r, c) ==
  /\ Writable(c)
  /\ queued' = [queued EXCEPT ![r] = IF socket[c] = "open" THEN @ + 1 ELSE @]
  /\ Goto(r, "returned")
  /\ UNCHANGED <<fields, tries, old>>

\* Mutant: the second try begins with the fields of the first.
RetryWithoutReset(r) ==
  /\ tries[r] = 1 /\ tries' = Set(tries, r, 2)
  /\ Goto(r, "ensure")
  /\ UNCHANGED <<fields, old, queued>>

\* The first half of resetConnection: the fields are cleared, whatever has
\* been put there since the error.
Reset(r) ==
  /\ tries[r] = 1 /\ tries' = Set(tries, r, 2)
  /\ connection' = 0 /\ channel' = 0 /\ connecting' = 0
  /\ old' = Set(old, r, <<channel, connection>>)
  /\ Goto(r, "closeChannel")
  /\ UNCHANGED queued

Raise(r) == tries[r] = 2 /\ Goto(r, "raised") /\ UNCHANGED <<fields, tries, old, queued>>

\* The catch block, the first time; the second error is the caller's.
Fail(r) == Reset(r) \/ Raise(r)

Write(r, c) == Send(r, c) \/ (~Writable(c) /\ Fail(r))

\* ensureChannel with both fields set, and the send that follows it.
UseCurrent(r) ==
  /\ at[r] = "ensure" /\ connection # 0 /\ channel # 0
  /\ Write(r, channel)
  /\ UNCHANGED <<objects, waits, world>>

AwaitConnecting(r) ==
  /\ at[r] = "ensure" /\ 0 \in {connection, channel} /\ connecting # 0
  /\ waits' = Set(waits, r, connecting) /\ Goto(r, "waiting")
  /\ UNCHANGED <<fields, objects, tries, old, queued, world>>

\* Mutant: a connection in the making is not waited for.
ConnectAlways(r) ==
  /\ at[r] = "ensure" /\ 0 \in {connection, channel}
  /\ \E c \in Connections :
       /\ setup[c] = "none" /\ \A d \in Connections : d < c => setup[d] # "none"
       /\ setup' = Set(setup, c, "connect")
       /\ connecting' = c /\ waits' = Set(waits, r, c)
  /\ Goto(r, "waiting")
  /\ UNCHANGED <<connection, channel, socket, chan, tries, old, queued, world>>

Connect(r) ==
  /\ at[r] = "ensure" /\ 0 \in {connection, channel} /\ connecting = 0
  /\ \E c \in Connections :
       /\ setup[c] = "none" /\ \A d \in Connections : d < c => setup[d] # "none"
       /\ setup' = Set(setup, c, "connect")
       /\ connecting' = c /\ waits' = Set(waits, r, c)
  /\ Goto(r, "waiting")
  /\ UNCHANGED <<connection, channel, socket, chan, tries, old, queued, world>>

\* The promise that r awaits is settled.
Resume(r) ==
  /\ at[r] = "waiting"
  /\ \/ setup[waits[r]] = "ok" /\ Write(r, waits[r])
     \/ setup[waits[r]] = "failed" /\ Fail(r)
  /\ UNCHANGED <<objects, waits, world>>

-----------------------------------------------------------------------------
\* The callbacks of a connection and of a channel.
OnClose == connection' = 0 /\ channel' = 0

OnChannelClose == channel' = 0 /\ UNCHANGED connection

\* The rest of resetConnection.  Closing what is closed already fails, and
\* that is ignored; closing what is stale waits for the socket to close.
CloseChannel(r) ==
  /\ at[r] = "closeChannel" /\ Goto(r, "closeConnection")
  /\ \/ Runnable(r) /\ UNCHANGED <<connection, channel, chan>>
     \/ /\ Turn /\ socket[Channel(r)] = "open"
        /\ chan' = Set(chan, Channel(r), "closed")
        /\ OnChannelClose
  /\ UNCHANGED <<connecting, setup, socket, waits, tries, old, queued, world>>

CloseConnection(r) ==
  /\ at[r] = "closeConnection" /\ Goto(r, "ensure")
  /\ \/ Runnable(r) /\ UNCHANGED <<connection, channel, chan, socket>>
     \/ /\ Turn /\ socket[Connection(r)] = "open"
        /\ socket' = Set(socket, Connection(r), "closed")
        /\ chan' = Set(chan, Connection(r), "closed")
        /\ OnClose
  /\ UNCHANGED <<connecting, setup, waits, tries, old, queued, world>>

-----------------------------------------------------------------------------
\* The promise of connection c is settled; the call that made it clears
\* connecting, which may meanwhile be another one.
Settle(c, result) == setup' = Set(setup, c, result) /\ connecting' = 0


\* amqplib.connect comes back.
Dial(c) ==
  /\ setup[c] = "connect" /\ Turn
  /\ \/ /\ broker = "up"
        /\ socket' = Set(socket, c, "open")
        /\ setup' = Set(setup, c, "connected") /\ UNCHANGED connecting
     \/ broker = "down" /\ Settle(c, "failed") /\ UNCHANGED socket
  /\ UNCHANGED <<connection, channel, chan, calls, world>>

\* Once the callbacks of the connection are attached a channel is asked for;
\* on a closed connection that throws.
CreateChannel(c) ==
  /\ setup[c] = "connected"
  /\ \/ socket[c] # "closed" /\ setup' = Set(setup, c, "channel") /\ UNCHANGED connecting
     \/ socket[c] = "closed" /\ Settle(c, "failed")
  /\ UNCHANGED <<connection, channel, socket, chan, calls, world>>

ChannelOpens(c) ==
  /\ setup[c] = "channel" /\ socket[c] = "open" /\ Turn
  /\ chan' = Set(chan, c, "open")
  /\ setup' = Set(setup, c, "opened")
  /\ UNCHANGED <<fields, socket, calls, world>>

\* The same for the callbacks of the channel and the queue.
AssertQueue(c) ==
  /\ setup[c] = "opened"
  /\ \/ chan[c] = "open" /\ setup' = Set(setup, c, "queue") /\ UNCHANGED connecting
     \/ chan[c] = "closed" /\ Settle(c, "failed")
  /\ UNCHANGED <<connection, channel, socket, chan, calls, world>>

QueueDeclared(c) ==
  /\ setup[c] = "queue" /\ socket[c] = "open" /\ chan[c] = "open" /\ Turn
  /\ setup' = Set(setup, c, "declared")
  /\ UNCHANGED <<fields, socket, chan, calls, world>>

\* The fields are set, whatever has been read behind the reply.
StoreFields(c) ==
  /\ setup[c] = "declared"
  /\ connection' = c /\ channel' = c /\ Settle(c, "ok")
  /\ UNCHANGED <<socket, chan, calls, world>>

\* createChannel or assertQueue rejects.
Refuse(c) ==
  /\ Refused(c) /\ Settle(c, "failed")
  /\ UNCHANGED <<connection, channel, socket, chan, calls, world>>

\* The library reads the end of a connection.
Notice(c) ==
  /\ socket[c] = "stale" /\ Reads(c)
  /\ socket' = Set(socket, c, "closed")
  /\ chan' = IF chan[c] = "open" THEN Set(chan, c, "closed") ELSE chan
  /\ IF setup[c] = "connected" THEN UNCHANGED <<connection, channel>> ELSE OnClose
  /\ UNCHANGED <<connecting, setup, calls, world>>

-----------------------------------------------------------------------------
Fault == faults < MaxFaults /\ faults' = faults + 1

BrokerStops ==
  /\ broker = "up" /\ broker' = "down" /\ Fault
  /\ socket' = [c \in Connections |-> IF socket[c] = "open" THEN "stale" ELSE socket[c]]
  /\ UNCHANGED <<fields, setup, chan, calls>>

BrokerStarts ==
  /\ broker = "down" /\ broker' = "up"
  /\ UNCHANGED <<fields, objects, calls, faults>>

Drop(c) ==
  /\ socket[c] = "open" /\ socket' = Set(socket, c, "stale") /\ Fault
  /\ UNCHANGED <<fields, setup, chan, calls, broker>>

ChannelFails(c) ==
  /\ socket[c] = "open" /\ chan[c] = "open" /\ Reads(c) /\ Fault
  /\ chan' = Set(chan, c, "closed")
  /\ IF setup[c] = "opened" THEN UNCHANGED <<connection, channel>> ELSE OnChannelClose
  /\ UNCHANGED <<connecting, setup, socket, calls, broker>>

Quiet == (\A r \in Request : at[r] \in {"returned", "raised"}) /\ UNCHANGED vars

Publish(r) ==
  \/ UseCurrent(r) \/ AwaitConnecting(r) \/ Connect(r) \/ Resume(r)
  \/ CloseChannel(r) \/ CloseConnection(r)

Library(c) ==
  \/ Dial(c) \/ CreateChannel(c) \/ ChannelOpens(c) \/ AssertQueue(c)
  \/ QueueDeclared(c) \/ StoreFields(c) \/ Refuse(c) \/ Notice(c)

Next ==
  \/ \E r \in Request : Call(r) \/ Publish(r)
  \/ \E c \in Connections : Library(c) \/ Drop(c) \/ ChannelFails(c)
  \/ BrokerStops \/ BrokerStarts \/ Quiet

Spec ==
  /\ Init /\ [][Next]_vars
  /\ \A r \in Request : WF_vars(Publish(r))
  /\ \A c \in Connections : WF_vars(Library(c))

-----------------------------------------------------------------------------
\* A request leaves at most one message, for all its tries, and none when the
\* client is told of an error.
RaisedSendsNothing ==
  \A r \in Request : queued[r] = 0 \/ (queued[r] = 1 /\ at[r] = "returned")

\* What the retry is worth.  Where no connection is refused, an error takes
\* three deaths: that of the connection in use and, in each of the two tries,
\* that of the new one, at whatever step of its set-up and behind whatever
\* reply.  That requests share connections, promises and fields, and reset
\* them for each other, never makes it less.
RetryRecovers ==
  \A r \in Request :
    at[r] = "raised" =>
      \/ faults > 2
      \/ \E c \in Connections : setup[c] = "failed" /\ socket[c] = "none"

\* Connections that are being set up.
InTheMaking == {c \in Connections : setup[c] \notin {"none", "ok", "failed"}}

\* Requests that find no channel wait for the same new connection. Only a
\* reset, which forgets the promise, lets a second one be made beside it.
OneInTheMaking ==
  (\A r \in Request : tries[r] < 2) => Cardinality(InTheMaking) <= 1

\* A request that calls the publisher comes back, though the broker may stay
\* away for ever.
Returns == \A r \in Request : at[r] = "ensure" ~> at[r] \in {"returned", "raised"}
=============================================================================
