------------------------------- MODULE Broker -------------------------------
(***************************************************************************)
(* RabbitMQ as the services use it: one durable queue, one AMQP connection *)
(* per service, publishing without confirms and without the mandatory      *)
(* flag.  A publish therefore ends in one of three ways: the message is in *)
(* the queue, the client library raises, or the bytes go into a socket     *)
(* nobody reads and the call returns normally.                             *)
(***************************************************************************)
EXTENDS Deployment

VARIABLES
  broker,     \* "up" or "down"
  conn,       \* state of the AMQP connection of each service
  queued      \* how many bill.created events of a request reached the queue

linkVars == <<conn, queued>>

(***************************************************************************)
(* "none": the service has not connected yet; "open": connected;           *)
(* "stale": the broker end is gone and the client library has not noticed; *)
(* "closed": the library reports the connection closed.                    *)
(***************************************************************************)
ConnState == {"none", "open", "stale", "closed"}

BrokerTypeOK ==
  /\ broker \in {"up", "down"}
  /\ conn \in [Services -> ConnState]
  /\ queued \in [Req -> Nat]

-----------------------------------------------------------------------------
\* The publish succeeds on connection state c of service s.
Deliver(s, r, c) ==
  /\ queued' = [queued EXCEPT ![r] = @ + 1]
  /\ conn' = [conn EXCEPT ![s] = c]

\* The call ends, with or without an error, and no message is queued.
Lose(s, c) ==
  /\ conn' = [conn EXCEPT ![s] = c]
  /\ UNCHANGED queued

-----------------------------------------------------------------------------
\* Every peer of a connection of the broker becomes stale with it.
BrokerStops ==
  /\ broker = "up"
  /\ broker' = "down"
  /\ conn' = [s \in Services |-> IF conn[s] = "open" THEN "stale" ELSE conn[s]]
  /\ UNCHANGED queued

BrokerStarts ==
  /\ broker = "down"
  /\ broker' = "up"
  /\ UNCHANGED linkVars

\* pika's BlockingConnection reads its socket only inside a call; the other
\* client libraries read it all the time and notice a dead connection.
Unwatched == {"py"}

Notices(s) ==
  /\ s \notin Unwatched /\ conn[s] = "stale"
  /\ conn' = [conn EXCEPT ![s] = "closed"]
  /\ UNCHANGED <<broker, queued>>

\* The broker gives up on one client (a heartbeat it did not get).
BrokerDrops(s) ==
  /\ broker = "up" /\ conn[s] = "open"
  /\ conn' = [conn EXCEPT ![s] = "stale"]
  /\ UNCHANGED <<broker, queued>>
=============================================================================
