--------------------------- MODULE PyProcessProofs ---------------------------
(***************************************************************************)
(* For any number of requests, threads and connections, the resources of   *)
(* the Python process are there while requests are served, there are at    *)
(* most as many engines as threads, and the engine settles.                *)
(***************************************************************************)
EXTENDS PyProcess, FiniteSetTheorems, TLAPS

USE DEF Place, Creating, Ended, Kind, Active, Goto, lifespan, globals

\* The process starts without a resource and without a request.
LEMMA InitInv == Init => Inv
  <1> SUFFICES ASSUME Init PROVE Inv
    OBVIOUS
  <1>1. Active = {} /\ CreateEngines = {}
    BY DEF Init, CreateEngines
  <1>2. OneEnginePerThread
    BY <1>1, FS_EmptySet, ProcessAssumption DEF Init, OneEnginePerThread
  <1>3. QED
    BY <1>2, ProcessAssumption DEF Init, Inv, TypeOK, ServedWhileUp, HeldInBlock

\* Threads can be counted.
LEMMA Counted ==
  ASSUME NEW S \in SUBSET Request
  PROVE  IsFiniteSet(S) /\ Cardinality(S) \in Nat
  BY FS_Subset, FS_CardinalityType, ProcessAssumption

\* One more thread is one more at most.
LEMMA OneMore ==
  ASSUME NEW S \in SUBSET Request, NEW r
  PROVE  Cardinality(S \cup {r}) <= Cardinality(S) + 1
  <1>1. IsFiniteSet(S) /\ Cardinality(S) \in Nat
    BY Counted
  <1>2. Cardinality(S \cup {r}) = IF r \in S THEN Cardinality(S) ELSE Cardinality(S) + 1
    BY <1>1, FS_AddElement
  <1>3. QED
    BY <1>1, <1>2

\* The lifespan makes what the requests need before the first of them, and
\* closes it after the last.
LEMMA LifespanInv == Inv /\ Lifespan => Inv'
  <1> SUFFICES ASSUME Inv, Lifespan PROVE Inv'
    OBVIOUS
  <1>0. UNCHANGED <<globals, at>>
    BY DEF Lifespan, MakePool, OpenPool, MakePublisher, StopAccepting, ClosePublisher,
      ClosePool
  <1>. OneEnginePerThread'
    BY <1>0 DEF Inv, OneEnginePerThread, CreateEngines
  <1> USE DEF Inv, TypeOK, ServedWhileUp, HeldInBlock
  <1>1. CASE MakePool
    BY <1>1 DEF MakePool
  <1>2. CASE OpenPool
    BY <1>2 DEF OpenPool
  <1>3. CASE MakePublisher
    BY <1>3 DEF MakePublisher
  <1>4. CASE StopAccepting
    BY <1>4 DEF StopAccepting
  <1>5. CASE ClosePublisher
    BY <1>5 DEF ClosePublisher
  <1>6. CASE ClosePool
    BY <1>6 DEF ClosePool
  <1>7. QED
    BY <1>1, <1>2, <1>3, <1>4, <1>5, <1>6 DEF Lifespan

\* The handlers leave the lifespan alone, and run only while it is up.
LEMMA HandleServed ==
  ASSUME Inv, NEW r \in Request, Handle(r)
  PROVE  /\ UNCHANGED lifespan
         /\ phase \in {"serving", "draining"}
         /\ minimal = "open" /\ publisher = "made"
  <1> USE DEF Inv, TypeOK, ServedWhileUp
  <1>1. UNCHANGED lifespan
    BY DEF Handle, Step, Accept, CheckFactory, CheckEngine, CreateEngine,
      ReturnEngine, BindFactory, Open, Checkout, CheckoutTimesOut, Query,
      TakeLock, Publish, End
  <1>2. phase = "serving" \/ r \in Active
    BY DEF Handle, Step, Accept, CheckFactory, CheckEngine, CreateEngine,
      ReturnEngine, BindFactory, Open, Checkout, CheckoutTimesOut, Query,
      TakeLock, Publish, End
  <1>3. phase \in {"serving", "draining"}
    BY <1>2
  <1>4. QED
    BY <1>1, <1>3

\* Only an accepted request adds to the active ones.
LEMMA ActiveStep ==
  ASSUME Inv, NEW r \in Request, Handle(r)
  PROVE  Active' \subseteq Active \/ (Cardinality(Active) < Workers /\ Active' = Active \cup {r})
  <1>1. \A q \in Request \ {r} : at'[q] = at[q]
    BY DEF Inv, TypeOK, Handle, Step, Accept, CheckFactory, CheckEngine, CreateEngine,
      ReturnEngine, BindFactory, Open, Checkout, CheckoutTimesOut, Query,
      TakeLock, Publish, End
  <1>2. CASE Accept(r)
    BY <1>1, <1>2 DEF Inv, TypeOK, Accept
  <1>3. CASE ~Accept(r)
    <2>1. r \in Active
      BY <1>3 DEF Handle, Step, CheckFactory, CheckEngine, CreateEngine,
        ReturnEngine, BindFactory, Open, Checkout, CheckoutTimesOut, Query,
        TakeLock, Publish, End
    <2>2. QED
      BY <1>1, <2>1
  <1>4. QED
    BY <1>2, <1>3

\* A thread that is to make an engine has found none, or is on its way since
\* there was none; the threads there are bound their number.
LEMMA HandleEngines ==
  ASSUME Inv, NEW r \in Request, Handle(r)
  PROVE  OneEnginePerThread'
  <1>1. /\ IsFiniteSet(Active) /\ Cardinality(Active) \in Nat
        /\ IsFiniteSet(CreateEngines) /\ Cardinality(CreateEngines) \in Nat
        /\ IsFiniteSet(Active') /\ Cardinality(Active') \in Nat
        /\ IsFiniteSet(CreateEngines') /\ Cardinality(CreateEngines') \in Nat
    BY Counted DEF CreateEngines
  <1>2. Cardinality(Active') <= Workers
    <2>1. CASE Active' \subseteq Active
      BY <1>1, <2>1, FS_Subset, ProcessAssumption DEF Inv, OneEnginePerThread
    <2>2. CASE Cardinality(Active) < Workers /\ Active' = Active \cup {r}
      <3>1. Cardinality(Active \cup {r}) <= Cardinality(Active) + 1
        BY OneMore
      <3>2. QED
        BY <1>1, <2>2, <3>1, ProcessAssumption
    <2>3. QED
      BY <2>1, <2>2, ActiveStep
  <1>3. \A q \in Request \ {r} : at'[q] = at[q]
    BY DEF Inv, TypeOK, Handle, Step, Accept, CheckFactory, CheckEngine, CreateEngine,
      ReturnEngine, BindFactory, Open, Checkout, CheckoutTimesOut, Query,
      TakeLock, Publish, End
  <1>4. CASE CreateEngine(r)
    <2>1. r \in CreateEngines /\ CreateEngines' = CreateEngines \ {r}
      BY <1>3, <1>4 DEF Inv, TypeOK, CreateEngine, CreateEngines
    <2>2. Cardinality(CreateEngines') = Cardinality(CreateEngines) - 1
      BY <1>1, <2>1, FS_RemoveElement
    <2>3. made' = made + 1 /\ engine' = made + 1
      BY <1>4 DEF CreateEngine
    <2>4. QED
      BY <1>1, <1>2, <2>2, <2>3 DEF Inv, TypeOK, OneEnginePerThread
  <1>5. CASE CheckEngine(r) /\ engine = 0
    <2>1. CreateEngines' \in SUBSET Active'
      BY DEF CreateEngines
    <2>2. Cardinality(CreateEngines') <= Cardinality(Active')
      BY <1>1, <2>1, FS_Subset
    <2>3. made' = 0 /\ engine' = 0
      BY <1>5 DEF CheckEngine, Inv, OneEnginePerThread
    <2>4. QED
      BY <1>1, <1>2, <2>2, <2>3, ProcessAssumption DEF OneEnginePerThread
  <1>6. CASE ~CreateEngine(r) /\ ~(CheckEngine(r) /\ engine = 0)
    <2>1. UNCHANGED <<engine, made>> /\ at'[r] # "create"
      BY <1>6 DEF Inv, TypeOK, Handle, Step, Accept, CheckFactory, CheckEngine,
        ReturnEngine, BindFactory, Open, Checkout, CheckoutTimesOut, Query,
        TakeLock, Publish, End
    <2>2. CreateEngines' \in SUBSET CreateEngines
      BY <1>3, <2>1 DEF CreateEngines
    <2>3. Cardinality(CreateEngines') <= Cardinality(CreateEngines)
      BY <1>1, <2>2, FS_Subset
    <2>4. QED
      BY <1>1, <1>2, <2>1, <2>3, ProcessAssumption DEF Inv, TypeOK, OneEnginePerThread
  <1>7. QED
    BY <1>4, <1>5, <1>6

\* Every step of a handler preserves the invariant.
LEMMA HandleInv ==
  ASSUME Inv, NEW r \in Request, Handle(r)
  PROVE  Inv'
  <1>0. UNCHANGED lifespan /\ phase \in {"serving", "draining"}
        /\ minimal = "open" /\ publisher = "made"
    BY HandleServed
  <1>1. ServedWhileUp'
    BY <1>0 DEF ServedWhileUp
  <1> USE ProcessAssumption DEF Inv, TypeOK, HeldInBlock
  <1>2. TypeOK' /\ HeldInBlock' /\ \A q \in Request : at'[q] # "unready"
    <2>1. CASE Accept(r)
      BY <2>1 DEF Accept
    <2>2. CASE CheckFactory(r)
      BY <2>2 DEF CheckFactory
    <2>3. CASE CheckEngine(r)
      BY <2>3 DEF CheckEngine
    <2>4. CASE CreateEngine(r)
      BY <2>4 DEF CreateEngine
    <2>5. CASE ReturnEngine(r)
      BY <2>5 DEF ReturnEngine
    <2>6. CASE BindFactory(r)
      BY <2>6 DEF BindFactory
    <2>7. CASE Open(r)
      BY <2>7, <1>0 DEF Open, Ready
    <2>8. CASE Checkout(r)
      BY <2>8 DEF Checkout
    <2>9. CASE CheckoutTimesOut(r)
      BY <2>9 DEF CheckoutTimesOut
    <2>10. CASE Query(r)
      BY <2>10 DEF Query
    <2>11. CASE TakeLock(r)
      BY <2>11 DEF TakeLock
    <2>12. CASE Publish(r)
      BY <2>12 DEF Publish
    <2>13. CASE End(r)
      BY <2>13 DEF End
    <2>14. QED
      BY <2>1, <2>2, <2>3, <2>4, <2>5, <2>6, <2>7, <2>8, <2>9, <2>10, <2>11,
        <2>12, <2>13 DEF Handle, Step
  <1>3. QED
    BY <1>1, <1>2, HandleEngines

\* The invariant is inductive.
LEMMA NextInv == Inv /\ [Next]_vars => Inv'
  <1> SUFFICES ASSUME Inv, [Next]_vars PROVE Inv'
    OBVIOUS
  <1>1. CASE Lifespan
    BY <1>1, LifespanInv
  <1>2. CASE \E r \in Request : Handle(r)
    BY <1>2, HandleInv
  <1>3. CASE UNCHANGED vars
    BY <1>3 DEF vars, Inv, TypeOK, ServedWhileUp, HeldInBlock, OneEnginePerThread,
      CreateEngines
  <1>4. QED
    BY <1>1, <1>2, <1>3 DEF Next, Stopped

\* Types, and the bookkeeping of resources and connections.
THEOREM Invariance == Spec => []Inv
  BY InitInv, NextInv, PTL DEF Spec

\* Whatever a request needs of the lifespan is open while it runs.
THEOREM ResourcesThere == Spec => []ResourcesReady
  <1>1. Inv => ResourcesReady
    BY DEF Inv, TypeOK, ServedWhileUp, ResourcesReady
  <1>2. QED
    BY <1>1, Invariance, PTL

-----------------------------------------------------------------------------
\* A settled engine stays: a thread that looks finds the factory, and only
\* threads that are already past that look assign anything.
LEMMA SettledStep ==
  Inv /\ [Next]_vars => (Settled => Settled' /\ UNCHANGED globals)
  <1> SUFFICES ASSUME Inv, [Next]_vars, Settled
               PROVE  Settled' /\ UNCHANGED globals
    OBVIOUS
  <1> USE DEF Inv, TypeOK, Settled, Creators
  <1>1. CASE Lifespan \/ UNCHANGED vars
    BY <1>1 DEF Lifespan, MakePool, OpenPool, MakePublisher, StopAccepting,
      ClosePublisher, ClosePool, vars
  <1>2. CASE \E r \in Request : Handle(r)
    <2>1. PICK r \in Request : Handle(r)
      BY <1>2
    <2>2. at[r] \notin Creating
      OBVIOUS
    <2>3. UNCHANGED globals /\ at'[r] \notin Creating
      BY <2>1, <2>2 DEF Handle, Step, Accept, CheckFactory, CheckEngine,
        CreateEngine, ReturnEngine, BindFactory, Open, Checkout,
        CheckoutTimesOut, Query, TakeLock, Publish, End
    <2>4. \A q \in Request \ {r} : at'[q] = at[q]
      BY <2>1 DEF Handle, Step, Accept, CheckFactory, CheckEngine,
        CreateEngine, ReturnEngine, BindFactory, Open, Checkout,
        CheckoutTimesOut, Query, TakeLock, Publish, End
    <2>5. QED
      BY <2>3, <2>4
  <1>3. QED
    BY <1>1, <1>2 DEF Next, Stopped

\* The race for the first engine makes one for each thread at most, and when it
\* is over there is no other one.
THEOREM EngineSettles == Spec => SettledForGood
  <1>1. Inv' => made' <= Workers
    <2> SUFFICES ASSUME Inv' PROVE made' <= Workers
      OBVIOUS
    <2>1. Cardinality(CreateEngines') \in Nat
      BY Counted DEF CreateEngines
    <2>2. QED
      BY <2>1, ProcessAssumption DEF Inv, TypeOK, OneEnginePerThread
  <1>2. Inv /\ [Next]_vars =>
          [made' <= Workers /\ (Settled => Settled' /\ UNCHANGED globals)]_vars
    BY <1>1, NextInv, SettledStep
  <1>3. QED
    BY <1>2, Invariance, PTL DEF Spec, SettledForGood
=============================================================================
