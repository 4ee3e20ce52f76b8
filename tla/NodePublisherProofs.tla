------------------------ MODULE NodePublisherProofs ------------------------
(***************************************************************************)
(* The publisher of the Node service, for any number of requests and       *)
(* faults.                                                                 *)
(***************************************************************************)
EXTENDS NodePublisher, FiniteSetTheorems, TLAPS

-----------------------------------------------------------------------------
Pending == {"connect", "connected", "channel", "opened", "queue", "declared"}

\* What a field, or the memory of a reset, refers to has been set up.
Ready(c) == c # 0 => setup[c] = "ok"

\* Sockets and channels appear in the order in which a connection is set up,
\* and no channel outlives its socket.
ObjectsInOrder ==
  \A c \in Connections :
    /\ setup[c] \in {"none", "connect"} => socket[c] = "none" /\ chan[c] = "none"
    /\ setup[c] \in {"connected", "channel"} => socket[c] # "none" /\ chan[c] = "none"
    /\ setup[c] \in {"opened", "queue", "declared", "ok"} =>
         socket[c] # "none" /\ chan[c] # "none"
    /\ chan[c] = "open" => socket[c] \in {"open", "stale"}

FieldsAreReady ==
  /\ Ready(connection) /\ Ready(channel)
  /\ old \in [Request -> ({0} \cup Connections) \X ({0} \cup Connections)]
  /\ \A r \in Request : Ready(Channel(r)) /\ Ready(Connection(r))

\* The promise in connecting is not settled yet, and nobody waits for one that
\* was never made.
PromisesMade ==
  /\ connecting # 0 => setup[connecting] \in Pending
  /\ \A r \in Request : at[r] = "waiting" => waits[r] # 0 /\ setup[waits[r]] # "none"

\* Until somebody resets, the only connection in the making is the promised
\* one.
OnePromise == (\A r \in Request : tries[r] < 2) => InTheMaking \subseteq {connecting}

\* A request starts with its first try.
IdleIsNew == \A r \in Request : at[r] = "idle" => tries[r] = 0

\* The fields belong to one connection, which may be dead.
FieldsTogether == connection # 0 /\ channel # 0 => channel = connection

LibraryInv == ObjectsInOrder /\ FieldsAreReady /\ FieldsTogether
PromiseInv == PromisesMade /\ OnePromise
RequestInv == IdleIsNew /\ RaisedSendsNothing

IInv == TypeOK /\ LibraryInv /\ PromiseInv /\ RequestInv

\* Whatever a request waits for can still come: a promise that is settled or
\* in the making, a channel and a socket that are closed or can be.
NobodyForgotten ==
  \A r \in Request :
    /\ at[r] = "waiting" => setup[waits[r]] \in Pending \cup {"ok", "failed"}
    /\ at[r] = "closeChannel" /\ Channel(r) # 0 =>
         \/ chan[Channel(r)] = "closed"
         \/ socket[Channel(r)] \in {"open", "stale"}
    /\ at[r] = "closeConnection" /\ Connection(r) # 0 =>
         socket[Connection(r)] \in {"open", "stale", "closed"}

-----------------------------------------------------------------------------
\* Connections are numbered from 1; 0 is null.
LEMMA Numbers == 1 \in Connections /\ Connections \subseteq Nat /\ 0 \notin Connections
  BY PublisherAssumption, FS_CardinalityType DEF Connections

USE Numbers DEF fields, objects, calls, world, Goto, Set

\* A first try.
LEMMA CallInv ==
  ASSUME IInv, NEW r \in Request, Call(r)
  PROVE  IInv'
  <1>1. TypeOK'
    BY DEF IInv, TypeOK, Call
  <1>2. LibraryInv'
    BY DEF IInv, TypeOK, LibraryInv, ObjectsInOrder, FieldsAreReady, Ready, Channel, Connection,
      FieldsTogether, Call
  <1>3. PromiseInv'
    BY DEF IInv, TypeOK, PromiseInv, PromisesMade, Pending, OnePromise, InTheMaking,
      RequestInv, IdleIsNew, Call
  <1>4. RequestInv'
    BY DEF IInv, TypeOK, RequestInv, IdleIsNew, RaisedSendsNothing, Call
  <1>5. QED
    BY <1>1, <1>2, <1>3, <1>4 DEF IInv

\* A message is written; it is the only one, since the request returns.
LEMMA SendInv ==
  ASSUME IInv, NEW r \in Request, at[r] \in {"ensure", "waiting"},
         NEW c \in Connections, Send(r, c), UNCHANGED <<objects, waits, world>>
  PROVE  IInv'
  <1>1. TypeOK'
    BY DEF IInv, TypeOK, Send
  <1>2. LibraryInv'
    BY DEF IInv, TypeOK, LibraryInv, ObjectsInOrder, FieldsAreReady, Ready, Channel, Connection,
      FieldsTogether, Send
  <1>3. PromiseInv'
    BY DEF IInv, TypeOK, PromiseInv, PromisesMade, Pending, OnePromise, InTheMaking, Send
  <1>4. RequestInv'
    BY DEF IInv, TypeOK, RequestInv, IdleIsNew, RaisedSendsNothing, Send
  <1>5. QED
    BY <1>1, <1>2, <1>3, <1>4 DEF IInv

\* A reset clears the fields and forgets the promise.
LEMMA ResetInv ==
  ASSUME IInv, NEW r \in Request, at[r] \in {"ensure", "waiting"}, Reset(r),
         UNCHANGED <<objects, waits, world>>
  PROVE  IInv'
  <1>1. TypeOK'
    BY DEF IInv, TypeOK, Reset
  <1>2. LibraryInv'
    BY DEF IInv, TypeOK, LibraryInv, ObjectsInOrder, FieldsAreReady, Ready, Channel, Connection,
      FieldsTogether, Reset
  <1>3. PromiseInv'
    BY DEF IInv, TypeOK, PromiseInv, PromisesMade, Pending, OnePromise, InTheMaking, Reset
  <1>4. RequestInv'
    BY DEF IInv, TypeOK, RequestInv, IdleIsNew, RaisedSendsNothing, Reset
  <1>5. QED
    BY <1>1, <1>2, <1>3, <1>4 DEF IInv

\* The second error is the caller's.
LEMMA RaiseInv ==
  ASSUME IInv, NEW r \in Request, at[r] \in {"ensure", "waiting"}, Raise(r),
         UNCHANGED <<objects, waits, world>>
  PROVE  IInv'
  <1>1. TypeOK'
    BY DEF IInv, TypeOK, Raise
  <1>2. LibraryInv'
    BY DEF IInv, TypeOK, LibraryInv, ObjectsInOrder, FieldsAreReady, Ready, Channel, Connection,
      FieldsTogether, Raise
  <1>3. PromiseInv'
    BY DEF IInv, TypeOK, PromiseInv, PromisesMade, Pending, OnePromise, InTheMaking, Raise
  <1>4. RequestInv'
    BY DEF IInv, TypeOK, RequestInv, IdleIsNew, RaisedSendsNothing, Raise
  <1>5. QED
    BY <1>1, <1>2, <1>3, <1>4 DEF IInv

\* Writing, with what comes of an error.
LEMMA WriteInv ==
  ASSUME IInv, NEW r \in Request, at[r] \in {"ensure", "waiting"},
         NEW c \in Connections, Write(r, c) \/ Fail(r), UNCHANGED <<objects, waits, world>>
  PROVE  IInv'
  BY SendInv, ResetInv, RaiseInv DEF Write, Fail

LEMMA UseCurrentInv ==
  ASSUME IInv, NEW r \in Request, UseCurrent(r)
  PROVE  IInv'
  <1>1. channel \in Connections
    BY DEF IInv, TypeOK, UseCurrent
  <1>2. QED
    BY <1>1, WriteInv DEF UseCurrent

LEMMA ResumeInv ==
  ASSUME IInv, NEW r \in Request, Resume(r)
  PROVE  IInv'
  <1>1. waits[r] \in Connections
    BY DEF IInv, TypeOK, PromiseInv, PromisesMade, Resume
  <1>2. QED
    BY <1>1, WriteInv DEF Resume

\* The promise that is in the field is waited for.
LEMMA AwaitConnectingInv ==
  ASSUME IInv, NEW r \in Request, AwaitConnecting(r)
  PROVE  IInv'
  <1>1. TypeOK'
    BY DEF IInv, TypeOK, AwaitConnecting
  <1>2. LibraryInv'
    BY DEF IInv, TypeOK, LibraryInv, ObjectsInOrder, FieldsAreReady, Ready, Channel, Connection,
      FieldsTogether, AwaitConnecting
  <1>3. PromiseInv'
    BY DEF IInv, TypeOK, PromiseInv, PromisesMade, Pending, OnePromise, InTheMaking, AwaitConnecting
  <1>4. RequestInv'
    BY DEF IInv, TypeOK, RequestInv, IdleIsNew, RaisedSendsNothing, AwaitConnecting
  <1>5. QED
    BY <1>1, <1>2, <1>3, <1>4 DEF IInv

LEMMA ConnectInv ==
  ASSUME IInv, NEW r \in Request, Connect(r)
  PROVE  IInv'
  <1>1. PICK c \in Connections :
          /\ setup[c] = "none" /\ setup' = [setup EXCEPT ![c] = "connect"]
          /\ connecting' = c /\ waits' = [waits EXCEPT ![r] = c]
    BY DEF Connect
  <1> USE <1>1 DEF Connect
  <1>2. TypeOK'
    BY DEF IInv, TypeOK
  <1>3. LibraryInv'
    BY DEF IInv, TypeOK, LibraryInv, ObjectsInOrder, FieldsAreReady, Ready, Channel, Connection,
      FieldsTogether
  <1>4. PromiseInv'
    BY DEF IInv, TypeOK, PromiseInv, PromisesMade, Pending, OnePromise, InTheMaking
  <1>5. RequestInv'
    BY DEF IInv, TypeOK, RequestInv, IdleIsNew, RaisedSendsNothing
  <1>6. QED
    BY <1>2, <1>3, <1>4, <1>5 DEF IInv

\* The callback of the channel clears its field.
LEMMA CloseChannelInv ==
  ASSUME IInv, NEW r \in Request, CloseChannel(r)
  PROVE  IInv'
  <1>1. TypeOK'
    BY DEF IInv, TypeOK, CloseChannel, OnChannelClose
  <1>2. LibraryInv'
    BY DEF IInv, TypeOK, LibraryInv, ObjectsInOrder, FieldsAreReady, Ready, Channel, Connection,
      FieldsTogether, CloseChannel, OnChannelClose
  <1>3. PromiseInv'
    BY DEF IInv, TypeOK, PromiseInv, PromisesMade, Pending, OnePromise, InTheMaking, CloseChannel, OnChannelClose
  <1>4. RequestInv'
    BY DEF IInv, TypeOK, RequestInv, IdleIsNew, RaisedSendsNothing, CloseChannel, OnChannelClose
  <1>5. QED
    BY <1>1, <1>2, <1>3, <1>4 DEF IInv

\* The callback of the connection clears both.
LEMMA CloseConnectionInv ==
  ASSUME IInv, NEW r \in Request, CloseConnection(r)
  PROVE  IInv'
  <1>1. TypeOK'
    BY DEF IInv, TypeOK, CloseConnection, OnClose
  <1>2. LibraryInv'
    BY DEF IInv, TypeOK, LibraryInv, ObjectsInOrder, FieldsAreReady, Ready, Channel, Connection,
      FieldsTogether, CloseConnection, OnClose
  <1>3. PromiseInv'
    BY DEF IInv, TypeOK, PromiseInv, PromisesMade, Pending, OnePromise, InTheMaking, CloseConnection, OnClose
  <1>4. RequestInv'
    BY DEF IInv, TypeOK, RequestInv, IdleIsNew, RaisedSendsNothing, CloseConnection, OnClose
  <1>5. QED
    BY <1>1, <1>2, <1>3, <1>4 DEF IInv

\* A promise that fails leaves no trace in the fields.
LEMMA FailedInv ==
  ASSUME IInv, NEW c \in Connections, setup[c] \in Pending, Settle(c, "failed"),
         UNCHANGED <<connection, channel, socket, chan, calls, world>>
  PROVE  IInv'
  <1>1. TypeOK'
    BY DEF IInv, TypeOK, Pending, Settle
  <1>2. LibraryInv'
    BY DEF IInv, TypeOK, LibraryInv, ObjectsInOrder, FieldsAreReady, Ready, Channel, Connection,
      FieldsTogether, Pending, Settle
  <1>3. PromiseInv'
    BY DEF IInv, TypeOK, PromiseInv, PromisesMade, Pending, OnePromise, InTheMaking, Pending, Settle
  <1>4. RequestInv'
    BY DEF IInv, TypeOK, RequestInv, IdleIsNew, RaisedSendsNothing, Pending, Settle
  <1>5. QED
    BY <1>1, <1>2, <1>3, <1>4 DEF IInv

\* A connection is made.
LEMMA DialedInv ==
  ASSUME IInv, NEW c \in Connections, setup[c] = "connect",
         socket' = [socket EXCEPT ![c] = "open"], setup' = [setup EXCEPT ![c] = "connected"],
         UNCHANGED <<connecting, connection, channel, chan, calls, world>>
  PROVE  IInv'
  <1>1. TypeOK'
    BY DEF IInv, TypeOK
  <1>2. LibraryInv'
    BY DEF IInv, TypeOK, LibraryInv, ObjectsInOrder, FieldsAreReady, Ready, Channel, Connection,
      FieldsTogether
  <1>3. PromiseInv'
    BY DEF IInv, TypeOK, PromiseInv, PromisesMade, Pending, OnePromise, InTheMaking
  <1>4. RequestInv'
    BY DEF IInv, TypeOK, RequestInv, IdleIsNew, RaisedSendsNothing
  <1>5. QED
    BY <1>1, <1>2, <1>3, <1>4 DEF IInv

LEMMA DialInv ==
  ASSUME IInv, NEW c \in Connections, Dial(c)
  PROVE  IInv'
  BY FailedInv, DialedInv DEF Dial, Pending

\* The next call of the set-up is made.
LEMMA CalledInv ==
  ASSUME IInv, NEW c \in Connections, NEW stage \in {"channel", "queue"},
         setup[c] = IF stage = "channel" THEN "connected" ELSE "opened",
         setup' = [setup EXCEPT ![c] = stage],
         UNCHANGED <<connecting, connection, channel, socket, chan, calls, world>>
  PROVE  IInv'
  <1>1. TypeOK'
    BY DEF IInv, TypeOK
  <1>2. LibraryInv'
    BY DEF IInv, TypeOK, LibraryInv, ObjectsInOrder, FieldsAreReady, Ready, Channel, Connection,
      FieldsTogether
  <1>3. PromiseInv'
    BY DEF IInv, TypeOK, PromiseInv, PromisesMade, Pending, OnePromise, InTheMaking
  <1>4. RequestInv'
    BY DEF IInv, TypeOK, RequestInv, IdleIsNew, RaisedSendsNothing
  <1>5. QED
    BY <1>1, <1>2, <1>3, <1>4 DEF IInv

LEMMA CreateChannelInv ==
  ASSUME IInv, NEW c \in Connections, CreateChannel(c)
  PROVE  IInv'
  BY FailedInv, CalledInv DEF CreateChannel, Pending

LEMMA AssertQueueInv ==
  ASSUME IInv, NEW c \in Connections, AssertQueue(c)
  PROVE  IInv'
  BY FailedInv, CalledInv DEF AssertQueue, Pending

\* A channel is made.
LEMMA ChannelOpensInv ==
  ASSUME IInv, NEW c \in Connections, ChannelOpens(c)
  PROVE  IInv'
  <1>1. TypeOK'
    BY DEF IInv, TypeOK, ChannelOpens
  <1>2. LibraryInv'
    BY DEF IInv, TypeOK, LibraryInv, ObjectsInOrder, FieldsAreReady, Ready, Channel, Connection,
      FieldsTogether, ChannelOpens
  <1>3. PromiseInv'
    BY DEF IInv, TypeOK, PromiseInv, PromisesMade, Pending, OnePromise, InTheMaking, ChannelOpens
  <1>4. RequestInv'
    BY DEF IInv, TypeOK, RequestInv, IdleIsNew, RaisedSendsNothing, ChannelOpens
  <1>5. QED
    BY <1>1, <1>2, <1>3, <1>4 DEF IInv

\* The queue is there.
LEMMA QueueDeclaredInv ==
  ASSUME IInv, NEW c \in Connections, QueueDeclared(c)
  PROVE  IInv'
  <1>1. TypeOK'
    BY DEF IInv, TypeOK, QueueDeclared
  <1>2. LibraryInv'
    BY DEF IInv, TypeOK, LibraryInv, ObjectsInOrder, FieldsAreReady, Ready, Channel, Connection,
      FieldsTogether, QueueDeclared
  <1>3. PromiseInv'
    BY DEF IInv, TypeOK, PromiseInv, PromisesMade, Pending, OnePromise, InTheMaking, QueueDeclared
  <1>4. RequestInv'
    BY DEF IInv, TypeOK, RequestInv, IdleIsNew, RaisedSendsNothing, QueueDeclared
  <1>5. QED
    BY <1>1, <1>2, <1>3, <1>4 DEF IInv

\* The fields are set, to one connection.
LEMMA StoreFieldsInv ==
  ASSUME IInv, NEW c \in Connections, StoreFields(c)
  PROVE  IInv'
  <1>1. TypeOK'
    BY DEF IInv, TypeOK, StoreFields, Settle
  <1>2. LibraryInv'
    BY DEF IInv, TypeOK, LibraryInv, ObjectsInOrder, FieldsAreReady, Ready, Channel, Connection,
      FieldsTogether, StoreFields, Settle
  <1>3. PromiseInv'
    BY DEF IInv, TypeOK, PromiseInv, PromisesMade, Pending, OnePromise, InTheMaking, StoreFields, Settle
  <1>4. RequestInv'
    BY DEF IInv, TypeOK, RequestInv, IdleIsNew, RaisedSendsNothing, StoreFields, Settle
  <1>5. QED
    BY <1>1, <1>2, <1>3, <1>4 DEF IInv

LEMMA RefuseInv ==
  ASSUME IInv, NEW c \in Connections, Refuse(c)
  PROVE  IInv'
  BY FailedInv DEF Refuse, Refused, Pending

\* The end of a connection is noticed, and clears the fields of any other.
LEMMA NoticeInv ==
  ASSUME IInv, NEW c \in Connections, Notice(c)
  PROVE  IInv'
  <1>1. TypeOK'
    BY DEF IInv, TypeOK, Notice, OnClose
  <1>2. LibraryInv'
    BY DEF IInv, TypeOK, LibraryInv, ObjectsInOrder, FieldsAreReady, Ready, Channel, Connection,
      FieldsTogether, Notice, OnClose
  <1>3. PromiseInv'
    BY DEF IInv, TypeOK, PromiseInv, PromisesMade, Pending, OnePromise, InTheMaking, Notice, OnClose
  <1>4. RequestInv'
    BY DEF IInv, TypeOK, RequestInv, IdleIsNew, RaisedSendsNothing, Notice, OnClose
  <1>5. QED
    BY <1>1, <1>2, <1>3, <1>4 DEF IInv

\* A connection dies unnoticed.
LEMMA DropInv ==
  ASSUME IInv, NEW c \in Connections, Drop(c)
  PROVE  IInv'
  <1>1. TypeOK'
    BY PublisherAssumption DEF IInv, TypeOK, Drop, Fault
  <1>2. LibraryInv'
    BY DEF IInv, TypeOK, LibraryInv, ObjectsInOrder, FieldsAreReady, Ready, Channel, Connection,
      FieldsTogether, Drop, Fault
  <1>3. PromiseInv'
    BY DEF IInv, TypeOK, PromiseInv, PromisesMade, Pending, OnePromise, InTheMaking, Drop, Fault
  <1>4. RequestInv'
    BY DEF IInv, TypeOK, RequestInv, IdleIsNew, RaisedSendsNothing, Drop, Fault
  <1>5. QED
    BY <1>1, <1>2, <1>3, <1>4 DEF IInv

\* A channel dies alone.
LEMMA ChannelFailsInv ==
  ASSUME IInv, NEW c \in Connections, ChannelFails(c)
  PROVE  IInv'
  <1>1. TypeOK'
    BY PublisherAssumption DEF IInv, TypeOK, ChannelFails, OnChannelClose, Fault
  <1>2. LibraryInv'
    BY DEF IInv, TypeOK, LibraryInv, ObjectsInOrder, FieldsAreReady, Ready, Channel, Connection,
      FieldsTogether, ChannelFails, OnChannelClose, Fault
  <1>3. PromiseInv'
    BY DEF IInv, TypeOK, PromiseInv, PromisesMade, Pending, OnePromise, InTheMaking, ChannelFails, OnChannelClose, Fault
  <1>4. RequestInv'
    BY DEF IInv, TypeOK, RequestInv, IdleIsNew, RaisedSendsNothing, ChannelFails, OnChannelClose, Fault
  <1>5. QED
    BY <1>1, <1>2, <1>3, <1>4 DEF IInv

\* The broker stops, which nobody notices yet, or starts.
LEMMA BrokerInv ==
  ASSUME IInv, BrokerStops \/ BrokerStarts
  PROVE  IInv'
  <1>1. TypeOK'
    BY PublisherAssumption DEF IInv, TypeOK, BrokerStops, BrokerStarts, Fault
  <1>2. LibraryInv'
    <2>1. CASE BrokerStops
      BY <2>1 DEF IInv, TypeOK, LibraryInv, ObjectsInOrder, FieldsAreReady, Ready,
        Channel, Connection, FieldsTogether, BrokerStops
    <2>2. CASE BrokerStarts
      BY <2>2 DEF IInv, LibraryInv, ObjectsInOrder, FieldsAreReady, Ready,
        Channel, Connection, FieldsTogether, BrokerStarts
    <2>3. QED
      BY <2>1, <2>2
  <1>3. PromiseInv'
    BY DEF IInv, TypeOK, PromiseInv, PromisesMade, Pending, OnePromise, InTheMaking, BrokerStops, BrokerStarts, Fault
  <1>4. RequestInv'
    BY DEF IInv, TypeOK, RequestInv, IdleIsNew, RaisedSendsNothing, BrokerStops, BrokerStarts, Fault
  <1>5. QED
    BY <1>1, <1>2, <1>3, <1>4 DEF IInv

-----------------------------------------------------------------------------
LEMMA InitInv == Init => IInv
  <1> SUFFICES ASSUME Init PROVE IInv
    OBVIOUS
  <1>1. TypeOK
    BY PublisherAssumption DEF Init, First, TypeOK
  <1>2. LibraryInv
    BY DEF Init, First, LibraryInv, ObjectsInOrder, FieldsAreReady, Ready, Channel,
      Connection, FieldsTogether
  <1>3. PromiseInv
    BY DEF Init, First, PromiseInv, PromisesMade, OnePromise, InTheMaking
  <1>4. RequestInv
    BY DEF Init, RequestInv, IdleIsNew, RaisedSendsNothing
  <1>5. QED
    BY <1>1, <1>2, <1>3, <1>4 DEF IInv

LEMMA NextInv == IInv /\ [Next]_vars => IInv'
  <1> SUFFICES ASSUME IInv, [Next]_vars PROVE IInv'
    OBVIOUS
  <1>1. ASSUME NEW r \in Request, Call(r) \/ Publish(r) PROVE IInv'
    BY <1>1, CallInv, UseCurrentInv, AwaitConnectingInv, ConnectInv, ResumeInv,
      CloseChannelInv, CloseConnectionInv DEF Publish
  <1>2. ASSUME NEW c \in Connections, Library(c) \/ Drop(c) \/ ChannelFails(c)
        PROVE  IInv'
    BY <1>2, DialInv, CreateChannelInv, ChannelOpensInv, AssertQueueInv, QueueDeclaredInv,
      StoreFieldsInv, RefuseInv, NoticeInv, DropInv, ChannelFailsInv DEF Library
  <1>3. CASE UNCHANGED vars
    BY <1>3 DEF vars, IInv, TypeOK, LibraryInv, ObjectsInOrder, FieldsAreReady, Ready,
      Channel, Connection, FieldsTogether, PromiseInv, PromisesMade, OnePromise,
      InTheMaking, RequestInv, IdleIsNew, RaisedSendsNothing
  <1>4. QED
    BY <1>1, <1>2, <1>3, BrokerInv DEF Next, Quiet

THEOREM Invariance == Spec => []IInv
  BY InitInv, NextInv, PTL DEF Spec

\* The fields have connections in them, promises one of nine states.
THEOREM TypeCorrect == Spec => []TypeOK
  BY Invariance, PTL DEF IInv

\* However often a request tries, it leaves one message, and none when its
\* client is told of an error.
THEOREM RaisedIsUnsent == Spec => []RaisedSendsNothing
  <1>1. IInv => RaisedSendsNothing
    BY DEF IInv, RequestInv
  <1>2. QED
    BY <1>1, Invariance, PTL

\* Any number of requests without a channel share one new connection, up to
\* the first reset.
THEOREM ConnectionsShared == Spec => []OneInTheMaking
  <1>1. ASSUME IInv PROVE OneInTheMaking
    <2> SUFFICES ASSUME \A r \in Request : tries[r] < 2
                 PROVE  Cardinality(InTheMaking) <= 1
      BY DEF OneInTheMaking
    <2>1. InTheMaking \subseteq {connecting}
      BY <1>1 DEF IInv, PromiseInv, OnePromise
    <2>2. IsFiniteSet({connecting}) /\ Cardinality({connecting}) = 1
      BY FS_Singleton
    <2>3. QED
      BY <2>1, <2>2, FS_Subset, FS_CardinalityType
  <1>2. QED
    BY <1>1, Invariance, PTL

\* No request waits for a promise that was forgotten by whoever made it, or
\* for the end of something that has no end.
THEOREM PromisesKept == Spec => []NobodyForgotten
  <1>1. ASSUME IInv, NEW r \in Request
        PROVE  /\ at[r] = "waiting" => setup[waits[r]] \in Pending \cup {"ok", "failed"}
               /\ at[r] = "closeChannel" /\ Channel(r) # 0 =>
                    \/ chan[Channel(r)] = "closed"
                    \/ socket[Channel(r)] \in {"open", "stale"}
               /\ at[r] = "closeConnection" /\ Connection(r) # 0 =>
                    socket[Connection(r)] \in {"open", "stale", "closed"}
    <2>1. ASSUME at[r] = "waiting" PROVE setup[waits[r]] \in Pending \cup {"ok", "failed"}
      <3>1. waits[r] \in Connections /\ setup[waits[r]] # "none"
        BY <1>1, <2>1 DEF IInv, TypeOK, PromiseInv, PromisesMade
      <3>2. QED
        BY <1>1, <3>1 DEF IInv, TypeOK, Pending
    <2>2. ASSUME NEW c \in {Channel(r), Connection(r)}, c # 0
          PROVE  /\ c \in Connections /\ setup[c] = "ok"
                 /\ socket[c] # "none" /\ chan[c] # "none"
                 /\ chan[c] = "open" => socket[c] \in {"open", "stale"}
      <3>1. c \in Connections /\ setup[c] = "ok"
        BY <1>1, <2>2 DEF IInv, LibraryInv, FieldsAreReady, Ready, Channel, Connection
      <3>2. QED
        BY <1>1, <3>1 DEF IInv, LibraryInv, ObjectsInOrder
    <2>3. QED
      BY <1>1, <2>1, <2>2 DEF IInv, TypeOK
  <1>2. IInv => NobodyForgotten
    BY <1>1 DEF NobodyForgotten
  <1>3. QED
    BY <1>2, Invariance, PTL

\* Some connection was refused.
Turned == \E c \in Connections : setup[c] = "failed" /\ socket[c] = "none"

\* Nothing has happened to c, as far as it has come.
Sound(c) == socket[c] \in {"none", "open"} /\ chan[c] \in {"none", "open"}

Retried == \E r \in Request : tries[r] = 2

\* There is code to run behind an await of the set-up of c.
Owed(c) == Replied(c) \/ Refused(c)

Resumable(r) == at[r] = "waiting" /\ setup[waits[r]] \in {"ok", "failed"}

FieldsUsable == connection # 0 /\ channel # 0 => Writable(channel)

\* One chunk is handled at a time: code behind an await of one set-up, or
\* requests that can run on.
OneAtATime ==
  \A c \in Connections : Owed(c) =>
    /\ \A d \in Connections : Owed(d) => d = c
    /\ \A r \in Request : ~Runnable(r)

TriesCounted ==
  \A r \in Request :
    at[r] \in {"closeChannel", "closeConnection", "raised"} => tries[r] = 2

\* The connection the service started with is nobody's promise.
FirstConnection ==
  setup[1] = "ok" /\ \A r \in Request : at[r] = "waiting" => waits[r] # 1

\* Up to the first reset no connection is made beside one that is in use, or
\* while requests are to learn what became of the last one.
BeforeReset ==
  ~Retried =>
    /\ connection # 0 /\ channel # 0 => connecting = 0
    /\ \A r \in Request : Resumable(r) =>
         connecting = 0 /\ \A q \in Request : at[q] # "ensure"

\* One death is that of the first connection; it makes no request fail.
OneDeath ==
  /\ faults = 0 =>
       /\ connection = 1 /\ channel = 1 /\ Sound(1)
       /\ \A c \in Connections \ {1} : setup[c] = "none"
  /\ faults <= 1 /\ ~Turned =>
       /\ ~Retried /\ FieldsUsable
       /\ \A c \in Connections \ {1} : Sound(c) /\ setup[c] # "failed"

\* What a second try connects to is sound.
TriesSoundly(r) ==
  at[r] = "waiting" /\ tries[r] = 2 => Sound(waits[r]) /\ setup[waits[r]] # "failed"

RetriesWork ==
  /\ FieldsUsable
  /\ \A c \in InTheMaking : Sound(c)
  /\ \A r \in Request : at[r] # "raised" /\ TriesSoundly(r)

\* A second death makes requests fail once.
TwoDeaths == faults <= 2 /\ ~Turned /\ Retried => RetriesWork

RecoveryInv ==
  /\ OneAtATime /\ TriesCounted /\ FirstConnection
  /\ BeforeReset /\ OneDeath /\ TwoDeaths

-----------------------------------------------------------------------------
\* A first try begins when nobody can run on.
LEMMA CallRecovers ==
  ASSUME IInv, RecoveryInv, NEW r \in Request, Call(r)
  PROVE  RecoveryInv'
  <1>1. OneAtATime'
    BY DEF IInv, TypeOK, LibraryInv, FieldsAreReady, Ready, Channel, Connection,
      RecoveryInv, OneAtATime, Owed, Replied, Refused, Runnable, Call, Turn
  <1>2. TriesCounted'
    BY DEF IInv, TypeOK, RequestInv, IdleIsNew, RecoveryInv, TriesCounted, Call
  <1>3. FirstConnection'
    BY DEF IInv, TypeOK, PromiseInv, PromisesMade, Pending, RecoveryInv,
      FirstConnection, Call
  <1>4. BeforeReset'
    BY DEF IInv, TypeOK, PromiseInv, PromisesMade, Pending, RecoveryInv, OneAtATime,
      Owed, Replied, Refused, TriesCounted, BeforeReset, Retried, Resumable, Runnable,
      Channel, Connection, RequestInv, IdleIsNew, Call, Turn
  <1>5. OneDeath'
    BY DEF IInv, TypeOK, LibraryInv, ObjectsInOrder, FieldsAreReady, Ready,
      FieldsTogether, RecoveryInv, TriesCounted, FirstConnection, OneDeath, Turned, Sound,
      Retried, FieldsUsable, Writable, Call
  <1>6. TwoDeaths'
    BY DEF IInv, TypeOK, LibraryInv, ObjectsInOrder, FieldsAreReady, Ready,
      FieldsTogether, PromiseInv, PromisesMade, InTheMaking, Pending, RecoveryInv,
      OneDeath, TwoDeaths, RetriesWork, TriesSoundly, Turned, Sound, Retried,
      FieldsUsable, Writable, Call
  <1>7. QED
    BY <1>1, <1>2, <1>3, <1>4, <1>5, <1>6 DEF RecoveryInv

\* A request that writes is done.
LEMMA SendRecovers ==
  ASSUME IInv, RecoveryInv, NEW r \in Request, NEW c \in Connections, at[r] \in {"ensure", "waiting"}, Send(r, c),
         UNCHANGED <<objects, waits, world>>
  PROVE  RecoveryInv'
  <1>1. OneAtATime'
    BY DEF IInv, TypeOK, LibraryInv, FieldsAreReady, Ready, Channel, Connection,
      RecoveryInv, OneAtATime, Owed, Replied, Refused, Runnable, Send
  <1>2. TriesCounted'
    BY DEF IInv, TypeOK, RequestInv, IdleIsNew, RecoveryInv, TriesCounted, Send
  <1>3. FirstConnection'
    BY DEF IInv, TypeOK, PromiseInv, PromisesMade, Pending, RecoveryInv,
      FirstConnection, Send
  <1>4. BeforeReset'
    BY DEF IInv, TypeOK, PromiseInv, PromisesMade, Pending, RecoveryInv, OneAtATime,
      Owed, Replied, Refused, TriesCounted, BeforeReset, Retried, Resumable, Runnable,
      Send
  <1>5. OneDeath'
    BY DEF IInv, TypeOK, LibraryInv, ObjectsInOrder, FieldsAreReady, Ready,
      FieldsTogether, RecoveryInv, TriesCounted, FirstConnection, OneDeath, Turned, Sound,
      Retried, FieldsUsable, Writable, Send
  <1>6. TwoDeaths'
    BY DEF IInv, TypeOK, LibraryInv, ObjectsInOrder, FieldsAreReady, Ready,
      FieldsTogether, PromiseInv, PromisesMade, InTheMaking, Pending, RecoveryInv,
      OneDeath, TwoDeaths, RetriesWork, TriesSoundly, Turned, Sound, Retried,
      FieldsUsable, Writable, Send
  <1>7. QED
    BY <1>1, <1>2, <1>3, <1>4, <1>5, <1>6 DEF RecoveryInv

\* A request joins the promise in the making, not that of the first connection.
LEMMA AwaitConnectingRecovers ==
  ASSUME IInv, RecoveryInv, NEW r \in Request, AwaitConnecting(r)
  PROVE  RecoveryInv'
  <1>1. OneAtATime'
    BY DEF IInv, TypeOK, LibraryInv, FieldsAreReady, Ready, Channel, Connection,
      RecoveryInv, OneAtATime, Owed, Replied, Refused, Runnable, AwaitConnecting
  <1>2. TriesCounted'
    BY DEF IInv, TypeOK, RequestInv, IdleIsNew, RecoveryInv, TriesCounted,
      AwaitConnecting
  <1>3. FirstConnection'
    BY DEF IInv, TypeOK, PromiseInv, PromisesMade, Pending, RecoveryInv,
      FirstConnection, AwaitConnecting
  <1>4. BeforeReset'
    BY DEF IInv, TypeOK, PromiseInv, PromisesMade, Pending, RecoveryInv, OneAtATime,
      Owed, Replied, Refused, TriesCounted, BeforeReset, Retried, Resumable, Runnable,
      AwaitConnecting
  <1>5. OneDeath'
    BY DEF IInv, TypeOK, LibraryInv, ObjectsInOrder, FieldsAreReady, Ready,
      FieldsTogether, RecoveryInv, TriesCounted, FirstConnection, OneDeath, Turned, Sound,
      Retried, FieldsUsable, Writable, AwaitConnecting
  <1>6. TwoDeaths'
    <2>1. SUFFICES ASSUME faults' <= 2, ~Turned', Retried' PROVE RetriesWork'
      BY DEF TwoDeaths
    <2>2. RetriesWork
      BY <2>1 DEF IInv, TypeOK, LibraryInv, ObjectsInOrder, RecoveryInv, TwoDeaths,
        OneDeath, Turned, Retried, AwaitConnecting
    <2>3. FieldsUsable'
      BY <2>2 DEF IInv, TypeOK, LibraryInv, ObjectsInOrder, FieldsAreReady, Ready,
        FieldsTogether, RetriesWork, FieldsUsable, Writable, AwaitConnecting
    <2>4. (\A d \in InTheMaking : Sound(d))'
      BY <2>2 DEF IInv, TypeOK, LibraryInv, ObjectsInOrder, FieldsAreReady, Ready,
        RetriesWork, InTheMaking, Sound, AwaitConnecting
    <2>5. ASSUME NEW q \in Request PROVE (at[q] # "raised" /\ TriesSoundly(q))'
      <3>1. at[q] # "raised" /\ TriesSoundly(q)
        BY <2>2 DEF RetriesWork
      <3>2. UNCHANGED <<tries, objects>>
        BY DEF AwaitConnecting, objects
      <3>3. CASE q = r
        <4>1. at'[q] = "waiting" /\ waits'[q] = connecting
          BY <3>3 DEF AwaitConnecting, Goto, Set, IInv, TypeOK
        <4>2. connecting \in InTheMaking
          BY DEF AwaitConnecting, IInv, TypeOK, PromiseInv, PromisesMade, Pending, InTheMaking
        <4>3. Sound(connecting) /\ setup[connecting] # "failed"
          BY <2>2, <4>2 DEF RetriesWork, InTheMaking
        <4>4. QED
          BY <3>2, <4>1, <4>3 DEF TriesSoundly, Sound, objects
      <3>4. CASE q # r
        <4>1. at'[q] = at[q] /\ waits'[q] = waits[q]
          BY <3>4 DEF AwaitConnecting, Goto, Set, IInv, TypeOK
        <4>2. QED
          BY <3>1, <3>2, <4>1 DEF TriesSoundly, Sound, objects
      <3>5. QED
        BY <3>3, <3>4
    <2>6. QED
      BY <2>3, <2>4, <2>5 DEF RetriesWork
  <1>7. QED
    BY <1>1, <1>2, <1>3, <1>4, <1>5, <1>6 DEF RecoveryInv

\* A connection is made when there is none in use and none in the making.
LEMMA ConnectRecovers ==
  ASSUME IInv, RecoveryInv, NEW r \in Request, Connect(r)
  PROVE  RecoveryInv'
  <1>1. OneAtATime'
    <2>1. \A d \in Connections : ~Owed(d)
      BY DEF Connect, RecoveryInv, OneAtATime, Runnable
    <2>2. \A d \in Connections : ~Owed(d)'
      BY <2>1 DEF Connect, IInv, TypeOK, Owed, Replied, Refused
    <2>3. QED
      BY <2>2 DEF OneAtATime
  <1>2. TriesCounted'
    BY DEF IInv, TypeOK, RequestInv, IdleIsNew, RecoveryInv, TriesCounted, Connect
  <1>3. FirstConnection'
    BY DEF IInv, TypeOK, PromiseInv, PromisesMade, Pending, RecoveryInv,
      FirstConnection, Connect
  <1>4. BeforeReset'
    BY DEF IInv, TypeOK, PromiseInv, PromisesMade, Pending, RecoveryInv, OneAtATime,
      Owed, Replied, Refused, TriesCounted, BeforeReset, Retried, Resumable, Runnable,
      Connect
  <1>5. OneDeath'
    BY DEF IInv, TypeOK, LibraryInv, ObjectsInOrder, FieldsAreReady, Ready,
      FieldsTogether, RecoveryInv, TriesCounted, FirstConnection, OneDeath, Turned, Sound,
      Retried, FieldsUsable, Writable, Connect
  <1>6. TwoDeaths'
    BY DEF IInv, TypeOK, LibraryInv, ObjectsInOrder, FieldsAreReady, Ready,
      FieldsTogether, PromiseInv, PromisesMade, InTheMaking, Pending, RecoveryInv,
      OneDeath, TwoDeaths, RetriesWork, TriesSoundly, Turned, Sound, Retried,
      FieldsUsable, Writable, Connect
  <1>7. QED
    BY <1>1, <1>2, <1>3, <1>4, <1>5, <1>6 DEF RecoveryInv

\* What a reset closes has been set up, so no try under way depends on it.
LEMMA CloseChannelRecovers ==
  ASSUME IInv, RecoveryInv, NEW r \in Request, CloseChannel(r)
  PROVE  RecoveryInv'
  <1>1. OneAtATime'
    BY DEF IInv, TypeOK, LibraryInv, FieldsAreReady, Ready, Channel, Connection,
      RecoveryInv, OneAtATime, Owed, Replied, Refused, Runnable, CloseChannel,
      OnChannelClose, Turn
  <1>2. TriesCounted'
    BY DEF IInv, TypeOK, RequestInv, IdleIsNew, RecoveryInv, TriesCounted, CloseChannel,
      OnChannelClose
  <1>3. FirstConnection'
    BY DEF IInv, TypeOK, PromiseInv, PromisesMade, Pending, RecoveryInv,
      FirstConnection, CloseChannel, OnChannelClose
  <1>4. BeforeReset'
    BY DEF IInv, TypeOK, PromiseInv, PromisesMade, Pending, RecoveryInv, OneAtATime,
      Owed, Replied, Refused, TriesCounted, BeforeReset, Retried, Resumable, Runnable,
      CloseChannel, OnChannelClose, Turn
  <1>5. OneDeath'
    BY DEF IInv, TypeOK, LibraryInv, ObjectsInOrder, FieldsAreReady, Ready,
      FieldsTogether, RecoveryInv, TriesCounted, FirstConnection, OneDeath, Turned, Sound,
      Retried, FieldsUsable, Writable, CloseChannel, OnChannelClose
  <1>6. TwoDeaths'
    <2>1. SUFFICES ASSUME faults' <= 2, ~Turned', Retried' PROVE RetriesWork'
      BY DEF TwoDeaths
    <2>2. RetriesWork
      BY <2>1 DEF IInv, TypeOK, LibraryInv, ObjectsInOrder, RecoveryInv, TwoDeaths,
        OneDeath, Turned, Retried, CloseChannel, OnChannelClose
    <2>3. FieldsUsable'
      BY <2>2 DEF IInv, TypeOK, LibraryInv, ObjectsInOrder, FieldsAreReady, Ready,
        FieldsTogether, RetriesWork, FieldsUsable, Writable, CloseChannel, OnChannelClose
    <2>4. (\A d \in InTheMaking : Sound(d))'
      BY <2>2 DEF IInv, TypeOK, LibraryInv, ObjectsInOrder, FieldsAreReady, Ready,
        RetriesWork, InTheMaking, Sound, CloseChannel, OnChannelClose, Channel
    <2>5. ASSUME NEW q \in Request PROVE (at[q] # "raised" /\ TriesSoundly(q))'
      <3>1. at[q] # "raised" /\ TriesSoundly(q)
        BY <2>2 DEF RetriesWork
      <3>2. at[q] = "waiting" => waits[q] \in Connections /\ setup[waits[q]] # "none"
        BY DEF IInv, TypeOK, PromiseInv, PromisesMade
      <3>3. at'[q] = "waiting" =>
              /\ at[q] = "waiting" /\ UNCHANGED <<tries, waits, setup>>
              /\ socket'[waits[q]] = socket[waits[q]] /\ chan'[waits[q]] = chan[waits[q]]
        <4>1. CASE UNCHANGED <<socket, chan>>
          BY <4>1 DEF CloseChannel, IInv, TypeOK
        <4>2. CASE Turn
          <5>1. Channel(r) \in Connections /\ setup[Channel(r)] = "ok"
            BY <4>2 DEF CloseChannel, Turn, Runnable, Channel, IInv, LibraryInv,
              FieldsAreReady, Ready
          <5>2. at[q] = "waiting" => setup[waits[q]] # "ok"
            BY <4>2 DEF Turn, Runnable
          <5>3. QED
            BY <3>2, <5>1, <5>2 DEF CloseChannel, IInv, TypeOK
        <4>3. QED
          BY <4>1, <4>2 DEF CloseChannel
      <3>4. QED
        BY <2>1, <2>2, <2>4, <3>1, <3>2, <3>3 DEF IInv, TypeOK, LibraryInv,
          ObjectsInOrder, RetriesWork, InTheMaking, TriesSoundly, Sound, Turned,
          CloseChannel, OnChannelClose
    <2>6. QED
      BY <2>3, <2>4, <2>5 DEF RetriesWork
  <1>7. QED
    BY <1>1, <1>2, <1>3, <1>4, <1>5, <1>6 DEF RecoveryInv

\* The same for the connection, whose callback clears both fields.
LEMMA CloseConnectionRecovers ==
  ASSUME IInv, RecoveryInv, NEW r \in Request, CloseConnection(r)
  PROVE  RecoveryInv'
  <1>1. OneAtATime'
    BY DEF IInv, TypeOK, LibraryInv, FieldsAreReady, Ready, Channel, Connection,
      RecoveryInv, OneAtATime, Owed, Replied, Refused, Runnable, CloseConnection, OnClose,
      Turn
  <1>2. TriesCounted'
    BY DEF IInv, TypeOK, RequestInv, IdleIsNew, RecoveryInv, TriesCounted,
      CloseConnection, OnClose
  <1>3. FirstConnection'
    BY DEF IInv, TypeOK, PromiseInv, PromisesMade, Pending, RecoveryInv,
      FirstConnection, CloseConnection, OnClose
  <1>4. BeforeReset'
    BY DEF IInv, TypeOK, PromiseInv, PromisesMade, Pending, RecoveryInv, OneAtATime,
      Owed, Replied, Refused, TriesCounted, BeforeReset, Retried, Resumable, Runnable,
      CloseConnection, OnClose, Turn
  <1>5. OneDeath'
    BY DEF IInv, TypeOK, LibraryInv, ObjectsInOrder, FieldsAreReady, Ready,
      FieldsTogether, RecoveryInv, TriesCounted, FirstConnection, OneDeath, Turned, Sound,
      Retried, FieldsUsable, Writable, CloseConnection, OnClose
  <1>6. TwoDeaths'
    <2>1. SUFFICES ASSUME faults' <= 2, ~Turned', Retried' PROVE RetriesWork'
      BY DEF TwoDeaths
    <2>2. RetriesWork
      BY <2>1 DEF IInv, TypeOK, LibraryInv, ObjectsInOrder, RecoveryInv, TwoDeaths,
        OneDeath, Turned, Retried, CloseConnection, OnClose
    <2>3. FieldsUsable'
      BY <2>2 DEF IInv, TypeOK, LibraryInv, ObjectsInOrder, FieldsAreReady, Ready,
        FieldsTogether, RetriesWork, FieldsUsable, Writable, CloseConnection, OnClose
    <2>4. (\A d \in InTheMaking : Sound(d))'
      BY <2>2 DEF IInv, TypeOK, LibraryInv, ObjectsInOrder, FieldsAreReady, Ready,
        RetriesWork, InTheMaking, Sound, CloseConnection, OnClose, Connection
    <2>5. ASSUME NEW q \in Request PROVE (at[q] # "raised" /\ TriesSoundly(q))'
      <3>1. at[q] # "raised" /\ TriesSoundly(q)
        BY <2>2 DEF RetriesWork
      <3>2. at[q] = "waiting" => waits[q] \in Connections /\ setup[waits[q]] # "none"
        BY DEF IInv, TypeOK, PromiseInv, PromisesMade
      <3>3. at'[q] = "waiting" =>
              /\ at[q] = "waiting" /\ UNCHANGED <<tries, waits, setup>>
              /\ socket'[waits[q]] = socket[waits[q]] /\ chan'[waits[q]] = chan[waits[q]]
        <4>1. CASE UNCHANGED <<socket, chan>>
          BY <4>1 DEF CloseConnection, IInv, TypeOK
        <4>2. CASE Turn
          <5>1. Connection(r) \in Connections /\ setup[Connection(r)] = "ok"
            BY <4>2 DEF CloseConnection, Turn, Runnable, Connection, IInv, LibraryInv,
              FieldsAreReady, Ready
          <5>2. at[q] = "waiting" => setup[waits[q]] # "ok"
            BY <4>2 DEF Turn, Runnable
          <5>3. QED
            BY <3>2, <5>1, <5>2 DEF CloseConnection, IInv, TypeOK
        <4>3. QED
          BY <4>1, <4>2 DEF CloseConnection
      <3>4. QED
        BY <2>1, <2>2, <2>4, <3>1, <3>2, <3>3 DEF IInv, TypeOK, LibraryInv,
          ObjectsInOrder, RetriesWork, InTheMaking, TriesSoundly, Sound, Turned,
          CloseConnection, OnClose
    <2>6. QED
      BY <2>3, <2>4, <2>5 DEF RetriesWork
  <1>7. QED
    BY <1>1, <1>2, <1>3, <1>4, <1>5, <1>6 DEF RecoveryInv

\* A refused connection ends what the faults bound; another one is new.
LEMMA DialRecovers ==
  ASSUME IInv, RecoveryInv, NEW c \in Connections, Dial(c)
  PROVE  RecoveryInv'
  <1>1. OneAtATime'
    <2>1. \A d \in Connections \ {c} : ~Owed(d)'
      BY DEF Dial, Settle, Turn, IInv, TypeOK, Owed, Replied, Refused
    <2>2. ASSUME Owed(c)', NEW r \in Request PROVE ~Runnable(r)'
      <3>1. setup' = [setup EXCEPT ![c] = "connected"]
        BY <2>2 DEF Dial, Settle, IInv, TypeOK, Owed, Replied, Refused
      <3>2. \A d \in Connections : setup[d] = "ok" => socket'[d] = socket[d]
        BY DEF Dial, Settle, IInv, TypeOK
      <3>3. QED
        BY <3>1, <3>2 DEF Dial, Turn, Runnable, Channel, Connection, IInv, TypeOK,
          LibraryInv, FieldsAreReady, Ready, PromiseInv, PromisesMade
    <2>3. QED
      BY <2>1, <2>2 DEF OneAtATime
  <1>2. TriesCounted'
    BY DEF IInv, TypeOK, RequestInv, IdleIsNew, RecoveryInv, TriesCounted, Dial, Settle
  <1>3. FirstConnection'
    BY DEF IInv, TypeOK, PromiseInv, PromisesMade, Pending, RecoveryInv,
      FirstConnection, Dial, Settle
  <1>4. BeforeReset'
    BY ZenonT(40) DEF IInv, TypeOK, PromiseInv, PromisesMade, Pending, RecoveryInv, OneAtATime,
      Owed, Replied, Refused, TriesCounted, BeforeReset, Retried, Resumable, Runnable,
      Dial, Settle, Turn
  <1>5. OneDeath'
    <2>1. ASSUME ~Turned' PROVE /\ setup' = [setup EXCEPT ![c] = "connected"]
                               /\ socket' = [socket EXCEPT ![c] = "open"]
      BY <2>1 DEF Dial, Settle, Turned, IInv, TypeOK, LibraryInv, ObjectsInOrder
    <2>2. UNCHANGED <<connection, channel, chan, calls, world>>
      BY DEF Dial
    <2>3. c # 1 /\ setup[c] = "connect"
      BY DEF Dial, RecoveryInv, FirstConnection
    <2>4. ~Turned' => ~Turned
      BY <2>1, <2>2, <2>3 DEF Turned, IInv, TypeOK
    <2>5. faults # 0
      BY <2>3 DEF IInv, TypeOK, RecoveryInv, OneDeath
    <2>6. ASSUME faults <= 1, ~Turned' PROVE ~Retried' /\ FieldsUsable'
      BY <2>1, <2>2, <2>3, <2>4, <2>6 DEF IInv, TypeOK, LibraryInv, FieldsAreReady,
        Ready, FieldsTogether, RecoveryInv, OneDeath, Retried, FieldsUsable, Writable
    <2>7. ASSUME faults <= 1, ~Turned' PROVE (\A d \in Connections \ {1} : Sound(d) /\ setup[d] # "failed")'
      BY <2>1, <2>2, <2>3, <2>4, <2>7 DEF IInv, TypeOK, RecoveryInv, OneDeath, Sound
    <2>8. QED
      BY <2>2, <2>5, <2>6, <2>7 DEF OneDeath
  <1>6. TwoDeaths'
    <2>1. SUFFICES ASSUME faults' <= 2, ~Turned', Retried' PROVE RetriesWork'
      BY DEF TwoDeaths
    <2>2. RetriesWork
      BY <2>1 DEF IInv, TypeOK, LibraryInv, ObjectsInOrder, RecoveryInv, TwoDeaths,
        OneDeath, Turned, Retried, Dial, Settle
    <2>3. FieldsUsable'
      BY <2>2, ZenonT(40) DEF IInv, TypeOK, LibraryInv, ObjectsInOrder, FieldsAreReady, Ready,
        FieldsTogether, RetriesWork, FieldsUsable, Writable, Dial, Settle
    <2>4. (\A d \in InTheMaking : Sound(d))'
      BY <2>2 DEF IInv, TypeOK, LibraryInv, ObjectsInOrder, FieldsAreReady, Ready,
        RetriesWork, InTheMaking, Sound, Dial, Settle
    <2>5. ASSUME NEW q \in Request PROVE (at[q] # "raised" /\ TriesSoundly(q))'
      <3>1. at[q] # "raised" /\ TriesSoundly(q)
        BY <2>2 DEF RetriesWork
      <3>2. at[q] = "waiting" => waits[q] \in Connections /\ setup[waits[q]] # "none"
        BY DEF IInv, TypeOK, PromiseInv, PromisesMade
      <3>3. /\ setup' = [setup EXCEPT ![c] = "connected"]
            /\ socket' = [socket EXCEPT ![c] = "open"]
            /\ UNCHANGED <<chan, at, waits, tries>>
        BY <2>1 DEF Dial, Settle, Turned, IInv, TypeOK, LibraryInv, ObjectsInOrder
      <3>4. QED
        BY <2>1, <2>2, <2>4, <3>1, <3>2, <3>3 DEF IInv, TypeOK, LibraryInv,
          ObjectsInOrder, RetriesWork, InTheMaking, TriesSoundly, Sound, Turned
    <2>6. QED
      BY <2>3, <2>4, <2>5 DEF RetriesWork
  <1>7. QED
    BY <1>1, <1>2, <1>3, <1>4, <1>5, <1>6 DEF RecoveryInv

\* The continuations run on a connection that may have died behind the reply.
LEMMA CreateChannelRecovers ==
  ASSUME IInv, RecoveryInv, NEW c \in Connections, CreateChannel(c)
  PROVE  RecoveryInv'
  <1>1. OneAtATime'
    BY DEF IInv, TypeOK, LibraryInv, FieldsAreReady, Ready, Channel, Connection,
      RecoveryInv, OneAtATime, Owed, Replied, Refused, Runnable, CreateChannel, Settle
  <1>2. TriesCounted'
    BY DEF IInv, TypeOK, RequestInv, IdleIsNew, RecoveryInv, TriesCounted,
      CreateChannel, Settle
  <1>3. FirstConnection'
    BY DEF IInv, TypeOK, PromiseInv, PromisesMade, Pending, RecoveryInv,
      FirstConnection, CreateChannel, Settle
  <1>4. BeforeReset'
    BY ZenonT(40) DEF IInv, TypeOK, PromiseInv, PromisesMade, Pending, RecoveryInv, OneAtATime,
      Owed, Replied, Refused, TriesCounted, BeforeReset, Retried, Resumable, Runnable,
      CreateChannel, Settle
  <1>5. OneDeath'
    BY DEF IInv, TypeOK, LibraryInv, ObjectsInOrder, FieldsAreReady, Ready,
      FieldsTogether, RecoveryInv, TriesCounted, FirstConnection, OneDeath, Turned, Sound,
      Retried, FieldsUsable, Writable, CreateChannel, Settle
  <1>6. TwoDeaths'
    <2>1. SUFFICES ASSUME faults' <= 2, ~Turned', Retried' PROVE RetriesWork'
      BY DEF TwoDeaths
    <2>2. RetriesWork
      BY <2>1 DEF IInv, TypeOK, LibraryInv, ObjectsInOrder, RecoveryInv, TwoDeaths,
        OneDeath, Turned, Retried, CreateChannel, Settle
    <2>3. FieldsUsable'
      BY <2>2 DEF IInv, TypeOK, LibraryInv, ObjectsInOrder, FieldsAreReady, Ready,
        FieldsTogether, RetriesWork, FieldsUsable, Writable, CreateChannel, Settle
    <2>4. (\A d \in InTheMaking : Sound(d))'
      BY <2>2 DEF IInv, TypeOK, LibraryInv, ObjectsInOrder, FieldsAreReady, Ready,
        RetriesWork, InTheMaking, Sound, CreateChannel, Settle
    <2>5. ASSUME NEW q \in Request PROVE (at[q] # "raised" /\ TriesSoundly(q))'
      <3>1. at[q] # "raised" /\ TriesSoundly(q)
        BY <2>2 DEF RetriesWork
      <3>2. at[q] = "waiting" => waits[q] \in Connections /\ setup[waits[q]] # "none"
        BY DEF IInv, TypeOK, PromiseInv, PromisesMade
      <3>3. setup'[c] = "channel"
        BY <2>2 DEF CreateChannel, IInv, TypeOK, RetriesWork, InTheMaking, Sound
      <3>4. QED
        BY <2>1, <2>2, <2>4, <3>1, <3>2, <3>3, ZenonT(40) DEF IInv, TypeOK, LibraryInv,
          ObjectsInOrder, RetriesWork, InTheMaking, TriesSoundly, Sound, Turned,
          CreateChannel, Settle
    <2>6. QED
      BY <2>3, <2>4, <2>5 DEF RetriesWork
  <1>7. QED
    BY <1>1, <1>2, <1>3, <1>4, <1>5, <1>6 DEF RecoveryInv

\* A reply is read when nobody can run on.
LEMMA ChannelOpensRecovers ==
  ASSUME IInv, RecoveryInv, NEW c \in Connections, ChannelOpens(c)
  PROVE  RecoveryInv'
  <1>1. OneAtATime'
    BY DEF IInv, TypeOK, LibraryInv, FieldsAreReady, Ready, Channel, Connection,
      RecoveryInv, OneAtATime, Owed, Replied, Refused, Runnable, ChannelOpens, Turn
  <1>2. TriesCounted'
    BY DEF IInv, TypeOK, RequestInv, IdleIsNew, RecoveryInv, TriesCounted, ChannelOpens
  <1>3. FirstConnection'
    BY DEF IInv, TypeOK, PromiseInv, PromisesMade, Pending, RecoveryInv,
      FirstConnection, ChannelOpens
  <1>4. BeforeReset'
    BY DEF IInv, TypeOK, PromiseInv, PromisesMade, Pending, RecoveryInv, OneAtATime,
      Owed, Replied, Refused, TriesCounted, BeforeReset, Retried, Resumable, Runnable,
      ChannelOpens, Turn
  <1>5. OneDeath'
    BY DEF IInv, TypeOK, LibraryInv, ObjectsInOrder, FieldsAreReady, Ready,
      FieldsTogether, RecoveryInv, TriesCounted, FirstConnection, OneDeath, Turned, Sound,
      Retried, FieldsUsable, Writable, ChannelOpens
  <1>6. TwoDeaths'
    BY DEF IInv, TypeOK, LibraryInv, ObjectsInOrder, FieldsAreReady, Ready,
      FieldsTogether, PromiseInv, PromisesMade, InTheMaking, Pending, RecoveryInv,
      OneDeath, TwoDeaths, RetriesWork, TriesSoundly, Turned, Sound, Retried,
      FieldsUsable, Writable, ChannelOpens
  <1>7. QED
    BY <1>1, <1>2, <1>3, <1>4, <1>5, <1>6 DEF RecoveryInv

\* A channel that died behind the reply is one death more.
LEMMA AssertQueueRecovers ==
  ASSUME IInv, RecoveryInv, NEW c \in Connections, AssertQueue(c)
  PROVE  RecoveryInv'
  <1>1. OneAtATime'
    BY DEF IInv, TypeOK, LibraryInv, FieldsAreReady, Ready, Channel, Connection,
      RecoveryInv, OneAtATime, Owed, Replied, Refused, Runnable, AssertQueue, Settle
  <1>2. TriesCounted'
    BY DEF IInv, TypeOK, RequestInv, IdleIsNew, RecoveryInv, TriesCounted, AssertQueue,
      Settle
  <1>3. FirstConnection'
    BY DEF IInv, TypeOK, PromiseInv, PromisesMade, Pending, RecoveryInv,
      FirstConnection, AssertQueue, Settle
  <1>4. BeforeReset'
    BY ZenonT(40) DEF IInv, TypeOK, PromiseInv, PromisesMade, Pending, RecoveryInv, OneAtATime,
      Owed, Replied, Refused, TriesCounted, BeforeReset, Retried, Resumable, Runnable,
      AssertQueue, Settle
  <1>5. OneDeath'
    BY DEF IInv, TypeOK, LibraryInv, ObjectsInOrder, FieldsAreReady, Ready,
      FieldsTogether, RecoveryInv, TriesCounted, FirstConnection, OneDeath, Turned, Sound,
      Retried, FieldsUsable, Writable, AssertQueue, Settle
  <1>6. TwoDeaths'
    <2>1. SUFFICES ASSUME faults' <= 2, ~Turned', Retried' PROVE RetriesWork'
      BY DEF TwoDeaths
    <2>2. RetriesWork
      BY <2>1 DEF IInv, TypeOK, LibraryInv, ObjectsInOrder, RecoveryInv, TwoDeaths,
        OneDeath, Turned, Retried, AssertQueue, Settle
    <2>3. FieldsUsable'
      BY <2>2 DEF IInv, TypeOK, LibraryInv, ObjectsInOrder, FieldsAreReady, Ready,
        FieldsTogether, RetriesWork, FieldsUsable, Writable, AssertQueue, Settle
    <2>4. (\A d \in InTheMaking : Sound(d))'
      BY <2>2 DEF IInv, TypeOK, LibraryInv, ObjectsInOrder, FieldsAreReady, Ready,
        RetriesWork, InTheMaking, Sound, AssertQueue, Settle
    <2>5. ASSUME NEW q \in Request PROVE (at[q] # "raised" /\ TriesSoundly(q))'
      <3>1. at[q] # "raised" /\ TriesSoundly(q)
        BY <2>2 DEF RetriesWork
      <3>2. at[q] = "waiting" => waits[q] \in Connections /\ setup[waits[q]] # "none"
        BY DEF IInv, TypeOK, PromiseInv, PromisesMade
      <3>3. setup'[c] = "queue"
        BY <2>2 DEF AssertQueue, IInv, TypeOK, RetriesWork, InTheMaking, Sound
      <3>4. QED
        BY <2>1, <2>2, <2>4, <3>1, <3>2, <3>3, ZenonT(40) DEF IInv, TypeOK, LibraryInv,
          ObjectsInOrder, RetriesWork, InTheMaking, TriesSoundly, Sound, Turned,
          AssertQueue, Settle
    <2>6. QED
      BY <2>3, <2>4, <2>5 DEF RetriesWork
  <1>7. QED
    BY <1>1, <1>2, <1>3, <1>4, <1>5, <1>6 DEF RecoveryInv

\* The last reply leaves only the fields to be stored.
LEMMA QueueDeclaredRecovers ==
  ASSUME IInv, RecoveryInv, NEW c \in Connections, QueueDeclared(c)
  PROVE  RecoveryInv'
  <1>1. OneAtATime'
    BY DEF IInv, TypeOK, LibraryInv, FieldsAreReady, Ready, Channel, Connection,
      RecoveryInv, OneAtATime, Owed, Replied, Refused, Runnable, QueueDeclared, Turn
  <1>2. TriesCounted'
    BY DEF IInv, TypeOK, RequestInv, IdleIsNew, RecoveryInv, TriesCounted, QueueDeclared
  <1>3. FirstConnection'
    BY DEF IInv, TypeOK, PromiseInv, PromisesMade, Pending, RecoveryInv,
      FirstConnection, QueueDeclared
  <1>4. BeforeReset'
    BY DEF IInv, TypeOK, PromiseInv, PromisesMade, Pending, RecoveryInv, OneAtATime,
      Owed, Replied, Refused, TriesCounted, BeforeReset, Retried, Resumable, Runnable,
      QueueDeclared, Turn
  <1>5. OneDeath'
    BY DEF IInv, TypeOK, LibraryInv, ObjectsInOrder, FieldsAreReady, Ready,
      FieldsTogether, RecoveryInv, TriesCounted, FirstConnection, OneDeath, Turned, Sound,
      Retried, FieldsUsable, Writable, QueueDeclared
  <1>6. TwoDeaths'
    BY DEF IInv, TypeOK, LibraryInv, ObjectsInOrder, FieldsAreReady, Ready,
      FieldsTogether, PromiseInv, PromisesMade, InTheMaking, Pending, RecoveryInv,
      OneDeath, TwoDeaths, RetriesWork, TriesSoundly, Turned, Sound, Retried,
      FieldsUsable, Writable, QueueDeclared
  <1>7. QED
    BY <1>1, <1>2, <1>3, <1>4, <1>5, <1>6 DEF RecoveryInv

\* What is stored is usable unless it died behind the reply.
LEMMA StoreFieldsRecovers ==
  ASSUME IInv, RecoveryInv, NEW c \in Connections, StoreFields(c)
  PROVE  RecoveryInv'
  <1>1. OneAtATime'
    BY DEF IInv, TypeOK, LibraryInv, FieldsAreReady, Ready, Channel, Connection,
      RecoveryInv, OneAtATime, Owed, Replied, Refused, Runnable, StoreFields, Settle
  <1>2. TriesCounted'
    BY DEF IInv, TypeOK, RequestInv, IdleIsNew, RecoveryInv, TriesCounted, StoreFields,
      Settle
  <1>3. FirstConnection'
    BY DEF IInv, TypeOK, PromiseInv, PromisesMade, Pending, RecoveryInv,
      FirstConnection, StoreFields, Settle
  <1>4. BeforeReset'
    BY DEF IInv, TypeOK, PromiseInv, PromisesMade, Pending, RecoveryInv, OneAtATime,
      Owed, Replied, Refused, TriesCounted, BeforeReset, Retried, Resumable, Runnable,
      StoreFields, Settle
  <1>5. OneDeath'
    BY DEF IInv, TypeOK, LibraryInv, ObjectsInOrder, FieldsAreReady, Ready,
      FieldsTogether, RecoveryInv, TriesCounted, FirstConnection, OneDeath, Turned, Sound,
      Retried, FieldsUsable, Writable, StoreFields, Settle
  <1>6. TwoDeaths'
    BY DEF IInv, TypeOK, LibraryInv, ObjectsInOrder, FieldsAreReady, Ready,
      FieldsTogether, PromiseInv, PromisesMade, InTheMaking, Pending, RecoveryInv,
      OneDeath, TwoDeaths, RetriesWork, TriesSoundly, Turned, Sound, Retried,
      FieldsUsable, Writable, StoreFields, Settle
  <1>7. QED
    BY <1>1, <1>2, <1>3, <1>4, <1>5, <1>6 DEF RecoveryInv

\* An awaited call rejects only on a connection that has died.
LEMMA RefuseRecovers ==
  ASSUME IInv, RecoveryInv, NEW c \in Connections, Refuse(c)
  PROVE  RecoveryInv'
  <1>1. OneAtATime'
    BY DEF IInv, TypeOK, LibraryInv, FieldsAreReady, Ready, Channel, Connection,
      RecoveryInv, OneAtATime, Owed, Replied, Refused, Runnable, Refuse, Settle
  <1>2. TriesCounted'
    BY DEF IInv, TypeOK, RequestInv, IdleIsNew, RecoveryInv, TriesCounted, Refuse,
      Settle
  <1>3. FirstConnection'
    BY DEF IInv, TypeOK, PromiseInv, PromisesMade, Pending, RecoveryInv,
      FirstConnection, Refused, Refuse, Settle
  <1>4. BeforeReset'
    BY DEF IInv, TypeOK, PromiseInv, PromisesMade, Pending, RecoveryInv, OneAtATime,
      Owed, Replied, Refused, TriesCounted, BeforeReset, Retried, Resumable, Runnable,
      Refuse, Settle
  <1>5. OneDeath'
    BY DEF IInv, TypeOK, LibraryInv, ObjectsInOrder, FieldsAreReady, Ready,
      FieldsTogether, RecoveryInv, TriesCounted, FirstConnection, OneDeath, Turned, Sound,
      Retried, FieldsUsable, Writable, Refused, Refuse, Settle
  <1>6. TwoDeaths'
    <2>1. SUFFICES ASSUME faults' <= 2, ~Turned', Retried' PROVE RetriesWork'
      BY DEF TwoDeaths
    <2>2. RetriesWork
      BY <2>1 DEF IInv, TypeOK, LibraryInv, ObjectsInOrder, RecoveryInv, TwoDeaths,
        OneDeath, Turned, Retried, Refuse, Refused, Settle
    <2>3. FieldsUsable'
      BY <2>2 DEF IInv, TypeOK, LibraryInv, ObjectsInOrder, FieldsAreReady, Ready,
        FieldsTogether, RetriesWork, FieldsUsable, Writable, Refuse, Refused, Settle
    <2>4. (\A d \in InTheMaking : Sound(d))'
      BY <2>2 DEF IInv, TypeOK, LibraryInv, ObjectsInOrder, FieldsAreReady, Ready,
        RetriesWork, InTheMaking, Sound, Refuse, Refused, Settle
    <2>5. ASSUME NEW q \in Request PROVE (at[q] # "raised" /\ TriesSoundly(q))'
      <3>1. at[q] # "raised" /\ TriesSoundly(q)
        BY <2>2 DEF RetriesWork
      <3>2. at[q] = "waiting" => waits[q] \in Connections /\ setup[waits[q]] # "none"
        BY DEF IInv, TypeOK, PromiseInv, PromisesMade
      <3>3. QED
        BY <2>1, <2>2, <2>4, <3>1, <3>2 DEF IInv, TypeOK, LibraryInv, ObjectsInOrder,
          RetriesWork, InTheMaking, TriesSoundly, Sound, Turned, Refuse, Refused, Settle
    <2>6. QED
      BY <2>3, <2>4, <2>5 DEF RetriesWork
  <1>7. QED
    BY <1>1, <1>2, <1>3, <1>4, <1>5, <1>6 DEF RecoveryInv

\* A death is counted when it happens, before the library reads it.
LEMMA NoticeRecovers ==
  ASSUME IInv, RecoveryInv, NEW c \in Connections, Notice(c)
  PROVE  RecoveryInv'
  <1>1. OneAtATime'
    BY DEF IInv, TypeOK, LibraryInv, FieldsAreReady, Ready, Channel, Connection,
      RecoveryInv, OneAtATime, Owed, Replied, Refused, Runnable, Notice, OnClose, Reads,
      Turn
  <1>2. TriesCounted'
    BY DEF IInv, TypeOK, RequestInv, IdleIsNew, RecoveryInv, TriesCounted, Notice,
      OnClose, Reads
  <1>3. FirstConnection'
    BY DEF IInv, TypeOK, PromiseInv, PromisesMade, Pending, RecoveryInv,
      FirstConnection, Notice, OnClose, Reads
  <1>4. BeforeReset'
    BY DEF IInv, TypeOK, PromiseInv, PromisesMade, Pending, RecoveryInv, OneAtATime,
      Owed, Replied, Refused, TriesCounted, BeforeReset, Retried, Resumable, Runnable,
      Notice, OnClose, Reads, Turn
  <1>5. OneDeath'
    BY DEF IInv, TypeOK, LibraryInv, ObjectsInOrder, FieldsAreReady, Ready,
      FieldsTogether, RecoveryInv, TriesCounted, FirstConnection, OneDeath, Turned, Sound,
      Retried, FieldsUsable, Writable, LibraryInv, Notice, OnClose, Reads
  <1>6. TwoDeaths'
    BY DEF IInv, TypeOK, LibraryInv, ObjectsInOrder, FieldsAreReady, Ready,
      FieldsTogether, PromiseInv, PromisesMade, InTheMaking, Pending, RecoveryInv,
      OneDeath, TwoDeaths, RetriesWork, TriesSoundly, Turned, Sound, Retried,
      FieldsUsable, Writable, Notice, OnClose, Reads
  <1>7. QED
    BY <1>1, <1>2, <1>3, <1>4, <1>5, <1>6 DEF RecoveryInv

\* A lost connection is one death.
LEMMA DropRecovers ==
  ASSUME IInv, RecoveryInv, NEW c \in Connections, Drop(c)
  PROVE  RecoveryInv'
  <1>1. OneAtATime'
    BY DEF IInv, TypeOK, LibraryInv, FieldsAreReady, Ready, Channel, Connection,
      RecoveryInv, OneAtATime, Owed, Replied, Refused, Runnable, Drop, Fault
  <1>2. TriesCounted'
    BY DEF IInv, TypeOK, RequestInv, IdleIsNew, RecoveryInv, TriesCounted, Drop, Fault
  <1>3. FirstConnection'
    BY DEF IInv, TypeOK, PromiseInv, PromisesMade, Pending, RecoveryInv,
      FirstConnection, Drop, Fault
  <1>4. BeforeReset'
    BY DEF IInv, TypeOK, PromiseInv, PromisesMade, Pending, RecoveryInv, OneAtATime,
      Owed, Replied, Refused, TriesCounted, BeforeReset, Retried, Resumable, Runnable,
      Drop, Fault
  <1>5. OneDeath'
    BY DEF IInv, TypeOK, LibraryInv, ObjectsInOrder, FieldsAreReady, Ready,
      FieldsTogether, RecoveryInv, TriesCounted, FirstConnection, OneDeath, Turned, Sound,
      Retried, FieldsUsable, Writable, Drop, Fault
  <1>6. TwoDeaths'
    BY DEF IInv, TypeOK, LibraryInv, ObjectsInOrder, FieldsAreReady, Ready,
      FieldsTogether, PromiseInv, PromisesMade, InTheMaking, Pending, RecoveryInv,
      OneDeath, TwoDeaths, RetriesWork, TriesSoundly, Turned, Sound, Retried,
      FieldsUsable, Writable, Drop, Fault
  <1>7. QED
    BY <1>1, <1>2, <1>3, <1>4, <1>5, <1>6 DEF RecoveryInv

\* So is a closed channel.
LEMMA ChannelFailsRecovers ==
  ASSUME IInv, RecoveryInv, NEW c \in Connections, ChannelFails(c)
  PROVE  RecoveryInv'
  <1>1. OneAtATime'
    BY DEF IInv, TypeOK, LibraryInv, FieldsAreReady, Ready, Channel, Connection,
      RecoveryInv, OneAtATime, Owed, Replied, Refused, Runnable, ChannelFails,
      OnChannelClose, Reads, Fault, Turn
  <1>2. TriesCounted'
    BY DEF IInv, TypeOK, RequestInv, IdleIsNew, RecoveryInv, TriesCounted, ChannelFails,
      OnChannelClose, Reads, Fault
  <1>3. FirstConnection'
    BY DEF IInv, TypeOK, PromiseInv, PromisesMade, Pending, RecoveryInv,
      FirstConnection, ChannelFails, OnChannelClose, Reads, Fault
  <1>4. BeforeReset'
    BY DEF IInv, TypeOK, PromiseInv, PromisesMade, Pending, RecoveryInv, OneAtATime,
      Owed, Replied, Refused, TriesCounted, BeforeReset, Retried, Resumable, Runnable,
      ChannelFails, OnChannelClose, Reads, Fault, Turn
  <1>5. OneDeath'
    BY DEF IInv, TypeOK, LibraryInv, ObjectsInOrder, FieldsAreReady, Ready,
      FieldsTogether, RecoveryInv, TriesCounted, FirstConnection, OneDeath, Turned, Sound,
      Retried, FieldsUsable, Writable, ChannelFails, OnChannelClose, Reads, Fault
  <1>6. TwoDeaths'
    BY DEF IInv, TypeOK, LibraryInv, ObjectsInOrder, FieldsAreReady, Ready,
      FieldsTogether, PromiseInv, PromisesMade, InTheMaking, Pending, RecoveryInv,
      OneDeath, TwoDeaths, RetriesWork, TriesSoundly, Turned, Sound, Retried,
      FieldsUsable, Writable, ChannelFails, OnChannelClose, Reads, Fault
  <1>7. QED
    BY <1>1, <1>2, <1>3, <1>4, <1>5, <1>6 DEF RecoveryInv

\* A broker that stops takes every connection with it.
LEMMA BrokerStopsRecovers ==
  ASSUME IInv, RecoveryInv, BrokerStops
  PROVE  RecoveryInv'
  <1>1. OneAtATime'
    BY DEF IInv, TypeOK, LibraryInv, FieldsAreReady, Ready, Channel, Connection,
      RecoveryInv, OneAtATime, Owed, Replied, Refused, Runnable, BrokerStops, Fault
  <1>2. TriesCounted'
    BY DEF IInv, TypeOK, RequestInv, IdleIsNew, RecoveryInv, TriesCounted, BrokerStops,
      Fault
  <1>3. FirstConnection'
    BY DEF IInv, TypeOK, PromiseInv, PromisesMade, Pending, RecoveryInv,
      FirstConnection, BrokerStops, Fault
  <1>4. BeforeReset'
    BY DEF IInv, TypeOK, PromiseInv, PromisesMade, Pending, RecoveryInv, OneAtATime,
      Owed, Replied, Refused, TriesCounted, BeforeReset, Retried, Resumable, Runnable,
      BrokerStops, Fault
  <1>5. OneDeath'
    BY DEF IInv, TypeOK, LibraryInv, ObjectsInOrder, FieldsAreReady, Ready,
      FieldsTogether, RecoveryInv, TriesCounted, FirstConnection, OneDeath, Turned, Sound,
      Retried, FieldsUsable, Writable, BrokerStops, Fault
  <1>6. TwoDeaths'
    BY DEF IInv, TypeOK, LibraryInv, ObjectsInOrder, FieldsAreReady, Ready,
      FieldsTogether, PromiseInv, PromisesMade, InTheMaking, Pending, RecoveryInv,
      OneDeath, TwoDeaths, RetriesWork, TriesSoundly, Turned, Sound, Retried,
      FieldsUsable, Writable, BrokerStops, Fault
  <1>7. QED
    BY <1>1, <1>2, <1>3, <1>4, <1>5, <1>6 DEF RecoveryInv

\* A broker that starts changes no connection.
LEMMA BrokerStartsRecovers ==
  ASSUME IInv, RecoveryInv, BrokerStarts
  PROVE  RecoveryInv'
  <1>1. OneAtATime'
    BY DEF IInv, TypeOK, LibraryInv, FieldsAreReady, Ready, Channel, Connection,
      RecoveryInv, OneAtATime, Owed, Replied, Refused, Runnable, BrokerStarts
  <1>2. TriesCounted'
    BY DEF IInv, TypeOK, RequestInv, IdleIsNew, RecoveryInv, TriesCounted, BrokerStarts
  <1>3. FirstConnection'
    BY DEF IInv, TypeOK, PromiseInv, PromisesMade, Pending, RecoveryInv,
      FirstConnection, BrokerStarts
  <1>4. BeforeReset'
    BY DEF IInv, TypeOK, PromiseInv, PromisesMade, Pending, RecoveryInv, OneAtATime,
      Owed, Replied, Refused, TriesCounted, BeforeReset, Retried, Resumable, Runnable,
      BrokerStarts
  <1>5. OneDeath'
    BY DEF IInv, TypeOK, LibraryInv, ObjectsInOrder, FieldsAreReady, Ready,
      FieldsTogether, RecoveryInv, TriesCounted, FirstConnection, OneDeath, Turned, Sound,
      Retried, FieldsUsable, Writable, BrokerStarts
  <1>6. TwoDeaths'
    BY DEF IInv, TypeOK, LibraryInv, ObjectsInOrder, FieldsAreReady, Ready,
      FieldsTogether, PromiseInv, PromisesMade, InTheMaking, Pending, RecoveryInv,
      OneDeath, TwoDeaths, RetriesWork, TriesSoundly, Turned, Sound, Retried,
      FieldsUsable, Writable, BrokerStarts
  <1>7. QED
    BY <1>1, <1>2, <1>3, <1>4, <1>5, <1>6 DEF RecoveryInv

-----------------------------------------------------------------------------
\* A request whose try has come to nothing.
Failing(r) ==
  \/ at[r] = "ensure" /\ ~FieldsUsable
  \/ Resumable(r) /\ (setup[waits[r]] = "ok" => ~Writable(waits[r]))

\* It takes two deaths for a first try to fail, and three for a second.
LEMMA FailingCosts ==
  ASSUME IInv, RecoveryInv, NEW r \in Request, Failing(r), ~Turned
  PROVE  faults > 1 /\ (tries[r] = 2 => faults > 2)
  <1>1. Resumable(r) => waits[r] \in Connections /\ setup[waits[r]] \in {"ok", "failed"}
    BY DEF IInv, TypeOK, PromiseInv, PromisesMade, Resumable
  <1>2. \A c \in Connections : setup[c] = "ok" /\ Sound(c) => Writable(c)
    BY DEF IInv, LibraryInv, ObjectsInOrder, Sound, Writable
  <1>3. ASSUME faults <= 1 PROVE FALSE
    <2>1. FieldsUsable /\ \A c \in Connections \ {1} : Sound(c) /\ setup[c] # "failed"
      BY <1>3 DEF RecoveryInv, OneDeath
    <2>2. Resumable(r) => waits[r] # 1
      BY DEF RecoveryInv, FirstConnection, Resumable
    <2>3. QED
      BY <1>1, <1>2, <2>1, <2>2 DEF Failing
  <1>4. ASSUME faults <= 2, tries[r] = 2 PROVE FALSE
    <2>1. RetriesWork
      BY <1>4 DEF RecoveryInv, TwoDeaths, Retried
    <2>2. Resumable(r) => Sound(waits[r]) /\ setup[waits[r]] # "failed"
      BY <1>4, <2>1 DEF RetriesWork, TriesSoundly, Resumable
    <2>3. QED
      BY <1>1, <1>2, <2>1, <2>2 DEF Failing, RetriesWork
  <1>5. QED
    BY <1>3, <1>4 DEF IInv, TypeOK

\* When nothing has died nothing was refused either.
LEMMA NothingYet ==
  ASSUME IInv, RecoveryInv, faults = 0
  PROVE  ~Turned
  BY DEF RecoveryInv, OneDeath, FirstConnection, Turned

\* Code that can run on leaves no set-up something to run.
LEMMA NobodyOwed ==
  ASSUME RecoveryInv, NEW r \in Request, Runnable(r), UNCHANGED objects
  PROVE  OneAtATime'
  BY DEF RecoveryInv, OneAtATime, Owed, Replied, Refused

\* The first reset finds no connection in the making, so that whatever the
\* second tries come to wait for is younger.
LEMMA ResetRecovers ==
  ASSUME IInv, RecoveryInv, NEW r \in Request, Failing(r), Reset(r),
         UNCHANGED <<objects, waits, world>>
  PROVE  RecoveryInv'
  <1>0. at[r] \in {"ensure", "waiting"} /\ Runnable(r)
    BY DEF Failing, Resumable, Runnable
  <1>1. OneAtATime'
    BY <1>0, NobodyOwed
  <1>2. TriesCounted'
    BY <1>0 DEF IInv, TypeOK, RecoveryInv, TriesCounted, Reset
  <1>3. FirstConnection'
    BY DEF IInv, TypeOK, RecoveryInv, FirstConnection, Reset
  <1>4. Retried' /\ BeforeReset'
    BY DEF IInv, TypeOK, BeforeReset, Retried, Reset
  <1>5. OneDeath'
    BY FailingCosts, NothingYet DEF OneDeath, Turned, IInv, TypeOK
  <1>6. TwoDeaths'
    <2>1. SUFFICES ASSUME faults <= 2, ~Turned PROVE RetriesWork'
      BY DEF TwoDeaths, Turned
    <2>2. tries[r] # 2
      BY DEF Reset
    <2>3. CASE Retried
      <3>1. RetriesWork
        BY <2>1, <2>3 DEF RecoveryInv, TwoDeaths
      <3>2. QED
        BY <3>1 DEF IInv, TypeOK, RetriesWork, TriesSoundly, FieldsUsable, InTheMaking, Sound,
          Reset
    <2>4. CASE ~Retried
      <3>1. connecting = 0
        BY <2>4 DEF RecoveryInv, BeforeReset, Failing, FieldsUsable
      <3>2. \A q \in Request : tries[q] \in {0, 1}
        BY <2>4 DEF IInv, TypeOK, Retried
      <3>3. InTheMaking = {}
        BY <3>1, <3>2 DEF IInv, PromiseInv, OnePromise, InTheMaking
      <3>4. \A q \in Request : at[q] # "raised"
        BY <3>2 DEF RecoveryInv, TriesCounted
      <3>5. \A q \in Request : (at[q] # "raised" /\ TriesSoundly(q))'
        BY <3>2, <3>4 DEF IInv, TypeOK, TriesSoundly, Reset
      <3>6. QED
        BY <3>3, <3>5 DEF RetriesWork, FieldsUsable, InTheMaking, Sound, Reset
    <2>5. QED
      BY <2>3, <2>4
  <1>7. QED
    BY <1>1, <1>2, <1>3, <1>4, <1>5, <1>6 DEF RecoveryInv

LEMMA RaiseRecovers ==
  ASSUME IInv, RecoveryInv, NEW r \in Request, Failing(r), Raise(r),
         UNCHANGED <<objects, waits, world>>
  PROVE  RecoveryInv'
  <1>0. Runnable(r) /\ tries[r] = 2
    BY DEF Failing, Resumable, Runnable, Raise
  <1>1. OneAtATime'
    BY <1>0, NobodyOwed
  <1>2. TriesCounted'
    BY <1>0 DEF IInv, TypeOK, RecoveryInv, TriesCounted, Raise
  <1>3. FirstConnection'
    BY DEF IInv, TypeOK, RecoveryInv, FirstConnection, Raise
  <1>4. BeforeReset'
    BY <1>0 DEF BeforeReset, Retried, Raise
  <1>5. OneDeath'
    BY FailingCosts, NothingYet DEF OneDeath, Turned, IInv, TypeOK
  <1>6. TwoDeaths'
    BY <1>0, FailingCosts DEF TwoDeaths, Turned, IInv, TypeOK
  <1>7. QED
    BY <1>1, <1>2, <1>3, <1>4, <1>5, <1>6 DEF RecoveryInv

LEMMA UseCurrentRecovers ==
  ASSUME IInv, RecoveryInv, NEW r \in Request, UseCurrent(r)
  PROVE  RecoveryInv'
  <1>1. channel \in Connections
    BY DEF IInv, TypeOK, UseCurrent
  <1>2. ~Writable(channel) => Failing(r)
    BY DEF UseCurrent, Failing, FieldsUsable
  <1>3. QED
    BY <1>1, <1>2, SendRecovers, ResetRecovers, RaiseRecovers DEF UseCurrent, Write, Fail

LEMMA ResumeRecovers ==
  ASSUME IInv, RecoveryInv, NEW r \in Request, Resume(r)
  PROVE  RecoveryInv'
  <1>1. waits[r] \in Connections
    BY DEF IInv, TypeOK, PromiseInv, PromisesMade, Resume
  <1>2. setup[waits[r]] = "failed" \/ ~Writable(waits[r]) => Failing(r)
    BY DEF Resume, Failing, Resumable
  <1>3. QED
    BY <1>1, <1>2, SendRecovers, ResetRecovers, RaiseRecovers DEF Resume, Write, Fail

-----------------------------------------------------------------------------
LEMMA InitRecovers == Init => RecoveryInv
  <1> SUFFICES ASSUME Init PROVE RecoveryInv
    OBVIOUS
  <1>1. OneAtATime /\ TriesCounted /\ FirstConnection /\ BeforeReset
    BY DEF Init, First, OneAtATime, Owed, Replied, Refused, TriesCounted, FirstConnection,
      BeforeReset
  <1>2. OneDeath
    BY DEF Init, First, OneDeath, Sound, Retried, FieldsUsable, Writable
  <1>3. TwoDeaths
    BY DEF Init, TwoDeaths, Retried
  <1>4. QED
    BY <1>1, <1>2, <1>3 DEF RecoveryInv

LEMMA NextRecovers == IInv /\ RecoveryInv /\ [Next]_vars => RecoveryInv'
  <1> SUFFICES ASSUME IInv, RecoveryInv, [Next]_vars PROVE RecoveryInv'
    OBVIOUS
  <1>1. ASSUME NEW r \in Request, Call(r) \/ Publish(r) PROVE RecoveryInv'
    BY <1>1, CallRecovers, UseCurrentRecovers, AwaitConnectingRecovers, ConnectRecovers,
      ResumeRecovers, CloseChannelRecovers, CloseConnectionRecovers DEF Publish
  <1>2. ASSUME NEW c \in Connections, Library(c) \/ Drop(c) \/ ChannelFails(c)
        PROVE  RecoveryInv'
    BY <1>2, DialRecovers, CreateChannelRecovers, ChannelOpensRecovers, AssertQueueRecovers,
      QueueDeclaredRecovers, StoreFieldsRecovers, RefuseRecovers, NoticeRecovers, DropRecovers,
      ChannelFailsRecovers DEF Library
  <1>3. CASE UNCHANGED vars
    BY <1>3 DEF vars, RecoveryInv, OneAtATime, Owed, Replied, Refused, Runnable, Channel,
      Connection, TriesCounted, FirstConnection, BeforeReset, Retried, Resumable, OneDeath,
      TwoDeaths, Turned, Sound, FieldsUsable, Writable, RetriesWork, TriesSoundly, InTheMaking
  <1>4. QED
    BY <1>1, <1>2, <1>3, BrokerStopsRecovers, BrokerStartsRecovers DEF Next, Quiet

\* Where no connection is refused a client is told of an error only after
\* three deaths, whatever the other requests do to what they share.
THEOREM RetriesRecover == Spec => []RetryRecovers
  <1>1. ASSUME IInv, RecoveryInv PROVE RetryRecovers
    <2> SUFFICES ASSUME NEW r \in Request, at[r] = "raised", ~Turned PROVE faults > 2
      BY DEF RetryRecovers, Turned
    <2>1. Retried
      BY <1>1 DEF RecoveryInv, TriesCounted, Retried
    <2>2. QED
      BY <1>1, <2>1 DEF RecoveryInv, TwoDeaths, RetriesWork, IInv, TypeOK
  <1>2. Init => RecoveryInv
    BY InitRecovers
  <1>3. IInv /\ RecoveryInv /\ [Next]_vars => RecoveryInv'
    BY NextRecovers
  <1>4. QED
    BY <1>1, <1>2, <1>3, Invariance, PTL DEF Spec
=============================================================================
