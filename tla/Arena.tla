-------------------------------- MODULE Arena --------------------------------
(***************************************************************************)
(* The arena of docker-compose.yml: the services, each with its own POST   *)
(* /bills, over one database and one broker, and what may befall them.     *)
(* Crashes, hang-ups, lost connections and failed statements draw on the   *)
(* budget MaxFaults.                                                       *)
(***************************************************************************)
EXTENDS PyService, GoService, DotNetService, JavaService, KotlinService,
        NodeService, RustService

FreshConn(s) == IF s \in EagerConnect THEN "open" ELSE "none"

Init ==
  /\ StoreInit
  /\ broker = "up"
  /\ conn = [s \in Services |-> FreshConn(s)]
  /\ queued = [r \in Req |-> 0]
  /\ serves \in [Req -> Services]
  /\ body \in [Req -> Payload]
  /\ number \in [Req -> Number]
  /\ pc = [r \in Req |-> "new"]
  /\ answer = [r \in Req |-> "none"]
  /\ running = Services
  /\ faults = 0

-----------------------------------------------------------------------------
Post(r) ==
  /\ pc[r] = "new"
  /\ serves[r] \in running
  /\ Goto(r, "received")
  /\ UNCHANGED <<storeVars, linkVars>>

\* The next thing the handler of r does.
Step(r) ==
  \/ PyStep(r) \/ GoStep(r) \/ DotNetStep(r) \/ JavaStep(r)
  \/ KotlinStep(r) \/ NodeStep(r) \/ RustStep(r)

\* A statement fails, or the handler of r is cut short.
Mishap(r) ==
  \/ PyFails(r) \/ GoFails(r) \/ GoTooLate(r)
  \/ DotNetFails(r) \/ DotNetTooLate(r)
  \/ JavaFails(r) \/ KotlinFails(r) \/ NodeFails(r)
  \/ RustFails(r) \/ RustDropped(r)

InFlightAt(s) == {r \in Req : serves[r] = s /\ InFlight(r)}

\* The database decides about a commit that was on its way.
Crash(s) ==
  /\ s \in running
  /\ running' = running \ {s}
  /\ conn' = [conn EXCEPT ![s] = "none"]
  /\ \E committed \in SUBSET {r \in InFlightAt(s) : pc[r] = "commit"} :
       Settle(InFlightAt(s), committed)
  /\ pc' = [r \in Req |-> IF r \in InFlightAt(s) THEN "done" ELSE pc[r]]
  /\ answer' = [r \in Req |-> IF r \in InFlightAt(s) THEN "gone" ELSE answer[r]]
  /\ UNCHANGED <<queued, broker>>

\* restart: unless-stopped.  Without a broker the eager ones exit again.
Start(s) ==
  /\ s \notin running
  /\ s \in EagerConnect => broker = "up"
  /\ running' = running \cup {s}
  /\ conn' = [conn EXCEPT ![s] = FreshConn(s)]
  /\ UNCHANGED <<storeVars, queued, broker, pc, answer>>

-----------------------------------------------------------------------------
Handle ==
  /\ \E r \in Req : Post(r) \/ Step(r)
  /\ UNCHANGED <<requestVars, systemVars, faults>>

BadLuck ==
  /\ \E r \in Req : Mishap(r)
  /\ Fault
  /\ UNCHANGED <<requestVars, systemVars>>

Outage ==
  /\ \E s \in Services : Crash(s)
  /\ Fault
  /\ UNCHANGED requestVars

Restart ==
  /\ \E s \in Services : Start(s)
  /\ UNCHANGED <<requestVars, faults>>

BrokerOutage ==
  /\ BrokerStops \/ \E s \in Services : BrokerDrops(s)
  /\ Fault
  /\ UNCHANGED <<storeVars, requestVars, running, pc, answer>>

BrokerRestart ==
  /\ BrokerStarts
  /\ UNCHANGED <<storeVars, requestVars, running, pc, answer, faults>>

\* What the client libraries do in the background.
Background ==
  /\ \/ \E s \in Services : Notices(s)
     \/ "dotnet" \in Services /\ DotNetRecovers /\ UNCHANGED broker
  /\ UNCHANGED <<storeVars, requestVars, running, pc, answer, faults>>

\* Every request is answered: nothing need happen any more.
Quiet ==
  /\ \A r \in Req : pc[r] = "done"
  /\ UNCHANGED vars

Next ==
  \/ Handle \/ BadLuck \/ Outage \/ Restart
  \/ BrokerOutage \/ BrokerRestart \/ Background \/ Quiet

HandleOf(r) == Step(r) /\ UNCHANGED <<requestVars, systemVars, faults>>

Spec ==
  /\ Init /\ [][Next]_vars
  /\ \A r \in Req : WF_vars(HandleOf(r))
=============================================================================
