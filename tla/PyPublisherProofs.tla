-------------------------- MODULE PyPublisherProofs --------------------------
(***************************************************************************)
(* For any number of threads and faults the publisher of the Python        *)
(* service sends nothing to a queue that is not there, and is the publish  *)
(* step that PyService takes it for.                                       *)
(***************************************************************************)
EXTENDS PyPublisher, TLAPS

USE DEF Place, Holding, Handle, Unusable, Goto, Leave, own, world

\* Nobody has called publish yet.
LEMMA InitInv == Init => Inv
  BY ThreadAssumption DEF Init, Inv, TypeOK, OneAtATime, LiveHandles, Known,
    RaisedSendsNothing

\* A thread that runs into a dead handle gives up the lock and leaves the
\* handle closed.
LEMMA DiscoverInv ==
  ASSUME Inv, NEW t \in Thread, at[t] \in Holding, Discover(t),
         connection # "none", "stale" \in {connection, channel}
  PROVE  Inv'
  <1> USE ThreadAssumption DEF Inv, TypeOK, OneAtATime, Discover
  <1>1. TypeOK' /\ OneAtATime'
    OBVIOUS
  <1>2. LiveHandles'
    BY DEF LiveHandles
  <1>3. Known' /\ RaisedSendsNothing'
    BY DEF Known, RaisedSendsNothing
  <1>4. QED
    BY <1>1, <1>2, <1>3

\* Every step of a call preserves the invariant.
LEMMA CallInv ==
  ASSUME Inv, NEW t \in Thread, Call(t) \/ PublishStep(t)
  PROVE  Inv'
  <1> USE ThreadAssumption DEF Inv, TypeOK, OneAtATime
  <1>1. CASE Call(t)
    BY <1>1 DEF Call, LiveHandles, Known, RaisedSendsNothing
  <1>2. CASE Enter(t)
    BY <1>2 DEF Enter, LiveHandles, Known, RaisedSendsNothing
  <1>3. CASE EnsureConnection(t)
    <2>1. TypeOK' /\ OneAtATime' /\ RaisedSendsNothing'
      BY <1>3 DEF EnsureConnection, RaisedSendsNothing
    <2>2. at'[t] # "opened" /\ \A u \in Thread \ {t} : at'[u] = at[u] /\ at[u] \notin Holding
      BY <1>3 DEF EnsureConnection
    <2>3. LiveHandles'
      BY <1>3, <2>2 DEF EnsureConnection, LiveHandles
    <2>4. Known'
      BY <1>3, <2>2 DEF EnsureConnection, LiveHandles, Known
    <2>5. QED
      BY <2>1, <2>3, <2>4
  <1>4. CASE Look(t)
    BY <1>4 DEF Look, LiveHandles, Known, RaisedSendsNothing
  <1>5. CASE OpenChannel(t)
    <2>1. CASE connection = "stale" /\ Discover(t)
      BY <1>5, <2>1, DiscoverInv DEF OpenChannel
    <2>2. CASE connection = "open" /\ channel' = "open" /\ Goto(t, "opened")
      <3>1. TypeOK' /\ OneAtATime' /\ RaisedSendsNothing'
        BY <1>5, <2>2 DEF OpenChannel, RaisedSendsNothing
      <3>2. at'[t] = "opened" /\ LiveHandles'
        BY <1>5, <2>2 DEF OpenChannel, LiveHandles
      <3>3. Known'
        BY <1>5, <2>2 DEF OpenChannel, Known
      <3>4. QED
        BY <3>1, <3>2, <3>3
    <2>3. QED
      BY <1>5, <2>1, <2>2 DEF OpenChannel
  <1>6. CASE DeclareQueue(t)
    <2>0. connection # "none"
      BY <1>6 DEF DeclareQueue, Known
    <2>1. CASE Discover(t) /\ "stale" \in {connection, channel}
      BY <1>6, <2>0, <2>1, DiscoverInv DEF DeclareQueue
    <2>2. CASE /\ connection = "open" /\ channel = "open" /\ queue' = TRUE
               /\ Goto(t, "look")
               /\ UNCHANGED <<holder, connection, channel, queued, broker, faults>>
      <3>1. TypeOK' /\ OneAtATime' /\ RaisedSendsNothing'
        BY <1>6, <2>2 DEF DeclareQueue, RaisedSendsNothing
      <3>2. LiveHandles' /\ Known'
        BY <1>6, <2>2 DEF DeclareQueue, LiveHandles, Known
      <3>3. QED
        BY <3>1, <3>2
    <2>3. QED
      BY <1>6, <2>1, <2>2 DEF DeclareQueue
  <1>7. CASE Publish(t)
    <2>0. connection # "none"
      BY <1>7 DEF Publish, Known
    <2>1. CASE Discover(t) /\ "stale" \in {connection, channel}
      BY <1>7, <2>0, <2>1, DiscoverInv DEF Publish
    <2>2. CASE Leave(t, "published")
      <3>1. queued[t] = 0 /\ UNCHANGED <<connection, channel, world>>
        BY <1>7, <2>2 DEF Publish, Discover, RaisedSendsNothing
      <3>2. TypeOK' /\ OneAtATime' /\ RaisedSendsNothing'
        BY <1>7, <2>2, <3>1 DEF Publish, Discover, RaisedSendsNothing
      <3>3. LiveHandles' /\ Known'
        BY <1>7, <2>2, <3>1 DEF Publish, LiveHandles, Known
      <3>4. QED
        BY <3>2, <3>3
    <2>3. QED
      BY <1>7, <2>1, <2>2 DEF Publish
  <1>8. QED
    BY <1>1, <1>2, <1>3, <1>4, <1>5, <1>6, <1>7 DEF PublishStep

\* Every step preserves the invariant.
LEMMA NextInv == Inv /\ [Next]_vars => Inv'
  <1> SUFFICES ASSUME Inv, [Next]_vars PROVE Inv'
    OBVIOUS
  <1> USE ThreadAssumption DEF Inv, TypeOK, OneAtATime, LiveHandles, Known,
        RaisedSendsNothing, Stale, Fault
  <1>1. CASE \E t \in Thread : Call(t) \/ PublishStep(t)
    BY <1>1, CallInv
  <1>2. CASE Close
    BY <1>2 DEF Close
  <1>3. CASE BrokerStops
    BY <1>3 DEF BrokerStops
  <1>4. CASE BrokerStarts
    BY <1>4 DEF BrokerStarts
  <1>5. CASE ConnectionDrops
    BY <1>5 DEF ConnectionDrops
  <1>6. CASE ChannelFails
    BY <1>6 DEF ChannelFails
  <1>7. CASE Quiet \/ UNCHANGED vars
    BY <1>7 DEF Quiet, vars
  <1>8. QED
    BY <1>1, <1>2, <1>3, <1>4, <1>5, <1>6, <1>7 DEF Next, Outside

\* Lock, handles, queue and threads stay consistent.
THEOREM Invariance == Spec => []Inv
  <1>1. Init => Inv
    BY InitInv
  <1>2. Inv /\ [Next]_vars => Inv'
    BY NextInv
  <1>3. QED
    BY <1>1, <1>2, PTL DEF Spec

\* No message is sent on a live channel before the queue is declared.
THEOREM QueueComesFirst == Spec => []QueueBeforeMessage
  <1>1. Inv => QueueBeforeMessage
    <2> SUFFICES ASSUME Inv, NEW t \in Thread, at[t] = "ready", channel = "open"
                 PROVE  queue
      BY DEF QueueBeforeMessage
    <2>1. ~\E u \in Thread : at[u] = "opened"
      BY DEF Inv, OneAtATime
    <2>2. QED
      BY <2>1 DEF Inv, LiveHandles
  <1>2. QED
    BY <1>1, Invariance, PTL

\* A call that raises has left no message.
THEOREM RaisedIsUnsent == Spec => []RaisedSendsNothing
  BY Invariance, PTL DEF Inv

-----------------------------------------------------------------------------
\* What a step of thread t does to the stages and answers PyService sees.
LEMMA StageMaps ==
  ASSUME TypeOK, NEW t \in Thread, NEW place \in Place, Goto(t, place),
         AsStage(at[t]) = "publish"
  PROVE  /\ pc' = [pc EXCEPT ![t] = AsStage(place)]
         /\ answer' = [answer EXCEPT ![t] = AsAnswer(place)]
  BY DEF pc, answer, TypeOK

\* A call that is under way looks like one that is about to publish.
LEMMA StillPublishing ==
  ASSUME TypeOK, NEW t \in Thread, NEW place \in Place, Goto(t, place),
         AsStage(at[t]) = "publish", AsStage(place) = "publish"
  PROVE  UNCHANGED <<pc, answer>>
  BY DEF pc, answer, TypeOK, AsStage, AsAnswer

\* Running into a dead handle is the publish of PyService that raises.
LEMMA DiscoverMaps ==
  ASSUME Inv, NEW t \in Thread, at[t] \in Holding, Discover(t),
         connection # "none", "stale" \in {connection, channel}
  PROVE  Service!PyPublish(t)
  <1>1. AsConn = "stale" /\ AsConn' = "closed"
    BY DEF Discover, AsConn, Inv, LiveHandles, TypeOK
  <1>2. conn["py"] = "stale" /\ conn' = [conn EXCEPT !["py"] = "closed"]
    BY <1>1 DEF conn
  <1>3. AsStage(at[t]) = "publish" /\ pc[t] = "publish"
    BY DEF AsStage, pc
  <1>4. /\ pc' = [pc EXCEPT ![t] = "done"]
        /\ answer' = [answer EXCEPT ![t] = "503"]
    BY <1>3, StageMaps DEF Discover, Inv, AsStage, AsAnswer
  <1>5. Service!Unsent("py", t, "closed", {"503"})
    BY <1>2, <1>4 DEF Discover, Service!Unsent, Service!Lose, Service!ReplyOneOf,
      Service!Reply, Service!storeVars
  <1>6. QED
    BY <1>2, <1>3, <1>5 DEF Service!PyPublish, Service!At, Service!PublishReconnecting

\* Every step of a call is a step of the publish of PyService, or none.
LEMMA CallMaps ==
  ASSUME Inv, NEW t \in Thread, Call(t) \/ PublishStep(t)
  PROVE  Service!PyPublish(t) \/ Lost
  <1> USE DEF Inv, TypeOK
  <1>1. CASE Call(t) \/ Enter(t) \/ Look(t)
    <2>1. UNCHANGED <<pc, answer>>
      BY <1>1, StillPublishing DEF Call, Enter, Look, AsStage
    <2>2. UNCHANGED <<conn, queued>>
      BY <1>1 DEF Call, Enter, Look, conn, AsConn
    <2>3. QED
      BY <2>1, <2>2 DEF Lost
  <1>2. CASE EnsureConnection(t)
    <2>1. CASE Unusable(connection) /\ broker = "down" /\ Leave(t, "raised")
                 /\ UNCHANGED connection
      <3>1. conn["py"] \in {"none", "closed"} /\ conn' = [conn EXCEPT !["py"] = conn["py"]]
        BY <1>2, <2>1 DEF EnsureConnection, conn, AsConn, LiveHandles
      <3>2. AsStage(at[t]) = "publish" /\ pc[t] = "publish"
        BY <1>2 DEF EnsureConnection, AsStage, pc
      <3>3. /\ pc' = [pc EXCEPT ![t] = "done"]
            /\ answer' = [answer EXCEPT ![t] = "503"]
        BY <2>1, <3>2, StageMaps DEF AsStage, AsAnswer
      <3>4. Service!Unsent("py", t, conn["py"], {"500", "503"})
        BY <1>2, <3>1, <3>3 DEF EnsureConnection, Service!Unsent, Service!Lose,
          Service!ReplyOneOf, Service!Reply, Service!storeVars
      <3>5. QED
        BY <2>1, <3>1, <3>2, <3>4 DEF Service!PyPublish, Service!At,
          Service!PublishReconnecting, Service!Unconnected
    <2>2. CASE Goto(t, "look") /\ UNCHANGED <<holder, connection>>
      <3>1. UNCHANGED <<pc, answer>>
        BY <1>2, <2>2, StillPublishing DEF EnsureConnection, AsStage
      <3>2. QED
        BY <1>2, <2>2, <3>1 DEF EnsureConnection, Lost, conn, AsConn
    <2>3. CASE Goto(t, "connected") /\ Unusable(connection) /\ connection' = "open"
      <3>1. UNCHANGED <<pc, answer>>
        BY <1>2, <2>3, StillPublishing DEF EnsureConnection, AsStage
      <3>2. AsConn' # "open"
        BY <1>2, <2>3 DEF EnsureConnection, AsConn, LiveHandles
      <3>3. QED
        BY <1>2, <3>1, <3>2 DEF EnsureConnection, Lost
    <2>4. QED
      BY <1>2, <2>1, <2>2, <2>3 DEF EnsureConnection
  <1>3. CASE OpenChannel(t)
    <2>1. CASE connection = "stale" /\ Discover(t)
      BY <1>3, <2>1, DiscoverMaps DEF OpenChannel
    <2>2. CASE connection = "open" /\ channel' = "open" /\ Goto(t, "opened")
                 /\ UNCHANGED <<holder, connection, queued, world>>
      <3>1. UNCHANGED <<pc, answer>>
        BY <1>3, <2>2, StillPublishing DEF OpenChannel, AsStage
      <3>2. conn["py"] \in {"none", "closed"} /\ conn' = [conn EXCEPT !["py"] = "open"]
        BY <1>3, <2>2 DEF OpenChannel, conn, AsConn, Known
      <3>3. broker = "up"
        BY <2>2 DEF LiveHandles
      <3>4. pc[t] = "publish"
        BY <1>3 DEF OpenChannel, pc, AsStage
      <3>5. QED
        BY <2>2, <3>1, <3>2, <3>3, <3>4 DEF Service!PyPublish, Service!At,
          Service!PublishReconnecting, Service!Unconnected, Service!Reconnected,
          Service!Lose, Service!storeVars
    <2>3. QED
      BY <1>3, <2>1, <2>2 DEF OpenChannel
  <1>4. CASE DeclareQueue(t)
    <2>1. CASE "stale" \in {connection, channel} /\ Discover(t)
      BY <1>4, <2>1, DiscoverMaps DEF DeclareQueue, Known
    <2>2. CASE Goto(t, "look") /\ UNCHANGED <<connection, channel, queued>>
      <3>1. UNCHANGED <<pc, answer>>
        BY <1>4, <2>2, StillPublishing DEF DeclareQueue, AsStage
      <3>2. QED
        BY <2>2, <3>1 DEF Lost, conn, AsConn
    <2>3. QED
      BY <1>4, <2>1, <2>2 DEF DeclareQueue
  <1>5. CASE Publish(t)
    <2>1. CASE "stale" \in {connection, channel} /\ Discover(t)
      BY <1>5, <2>1, DiscoverMaps DEF Publish, Known
    <2>2. CASE Leave(t, "published") /\ UNCHANGED <<connection, channel, world>>
      <3>1. /\ pc[t] = "publish" /\ pc' = [pc EXCEPT ![t] = "respond"]
            /\ UNCHANGED answer
        <4>1. AsStage(at[t]) = "publish" /\ AsAnswer(at[t]) = "none" /\ pc[t] = "publish"
          BY <1>5 DEF Publish, AsStage, AsAnswer, pc
        <4>2. /\ pc' = [pc EXCEPT ![t] = "respond"]
              /\ answer' = [answer EXCEPT ![t] = "none"]
          BY <2>2, <4>1, StageMaps DEF AsStage, AsAnswer
        <4>3. QED
          BY <4>1, <4>2 DEF answer
      <3>2. UNCHANGED conn
        BY <2>2 DEF conn, AsConn
      <3>3. CASE /\ connection = "open" /\ channel = "open"
                 /\ queued' = [queued EXCEPT ![t] = IF queue THEN @ + 1 ELSE @]
        <4>1. queue
          <5>1. \A u \in Thread : at[u] # "opened"
            BY <1>5 DEF Publish, OneAtATime
          <5>2. QED
            BY <3>3, <5>1 DEF LiveHandles
        <4>2. queued' = [queued EXCEPT ![t] = @ + 1]
          BY <3>3, <4>1
        <4>3. conn["py"] = "open" /\ conn' = [conn EXCEPT !["py"] = "open"]
          BY <3>2, <3>3 DEF conn, AsConn
        <4>4. QED
          BY <3>1, <4>2, <4>3 DEF Service!PyPublish, Service!At,
            Service!PublishReconnecting, Service!Sent, Service!Deliver, Service!Goto,
            Service!storeVars
      <3>4. CASE "stale" \in {connection, channel} /\ UNCHANGED queued
        <4>1. conn["py"] = "stale" /\ conn' = [conn EXCEPT !["py"] = "stale"]
          BY <3>2, <3>4 DEF conn, AsConn
        <4>2. QED
          BY <3>1, <3>4, <4>1 DEF Service!PyPublish, Service!At,
            Service!PublishReconnecting, Service!SentNowhere, Service!Lose,
            Service!Goto, Service!storeVars
      <3>5. QED
        BY <1>5, <2>2, <3>3, <3>4 DEF Publish, Discover
    <2>3. QED
      BY <1>5, <2>1, <2>2 DEF Publish
  <1>6. QED
    BY <1>1, <1>2, <1>3, <1>4, <1>5 DEF PublishStep

\* Every step is a publish of PyService or leaves its requests alone.
LEMMA NextMaps ==
  ASSUME Inv, Next
  PROVE  (\E t \in Thread : Service!PyPublish(t)) \/ Lost \/ UNCHANGED vars
  <1> USE DEF Inv, TypeOK
  <1>1. CASE \E t \in Thread : Call(t) \/ PublishStep(t)
    BY <1>1, CallMaps
  <1>2. CASE Close \/ Outside
    <2>1. UNCHANGED <<pc, answer, queued>>
      BY <1>2 DEF Close, Outside, BrokerStops, BrokerStarts, ConnectionDrops,
        ChannelFails, pc, answer
    <2>2. conn' = conn \/ AsConn' # "open"
      BY <1>2 DEF Close, Outside, BrokerStops, BrokerStarts, ConnectionDrops,
        ChannelFails, conn, AsConn, Stale
    <2>3. QED
      BY <2>1, <2>2 DEF Lost
  <1>3. QED
    BY <1>1, <1>2 DEF Next, Quiet

\* The lock makes the publish of the Python service the short one of PyService.
THEOREM PublishImplemented == Spec => ImplementsPublish
  <1>1. Inv /\ [Next]_vars => [(\E t \in Thread : Service!PyPublish(t)) \/ Lost]_vars
    BY NextMaps
  <1>2. QED
    BY <1>1, Invariance, PTL DEF Spec, ImplementsPublish
=============================================================================
