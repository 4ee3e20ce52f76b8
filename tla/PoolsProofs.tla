----------------------------- MODULE PoolsProofs -----------------------------
(***************************************************************************)
(* Pools and numbers never close a circle: for any number of requests,     *)
(* services and connections.                                               *)
(***************************************************************************)
EXTENDS Pools, FiniteSetTheorems, TLAPS

-----------------------------------------------------------------------------
HeldAt(s) == {q \in held : service[q] = s}

\* A pool hands out no more connections than it has.
PoolsBounded == \A s \in Services : Cardinality(HeldAt(s)) <= PoolSize

\* A bill is inserted and not committed between INSERT and COMMIT, on the
\* connection of its transaction.
InsertedStages == \A r \in Request : r \in inserted <=> pc[r] \in {"lines", "commit"}
InsertedHeld == inserted \subseteq held

\* No two open transactions have the same number.
OneHolder == \A q, r \in inserted : number[q] = number[r] => q = r

IInv ==
  /\ TypeOK /\ IsFiniteSet(held)
  /\ NothingLeaks /\ PoolsBounded
  /\ InsertedStages /\ InsertedHeld /\ OneHolder

-----------------------------------------------------------------------------
\* What a handler waits for before its next step is there.
CanGoOn(r) ==
  \/ Waits(r) /\ Room(service[r])
  \/ pc[r] = "exists" /\ r \in held
  \/ /\ pc[r] = "insert" /\ r \in held
     /\ number[r] \in taken \/ number[r] \notin {number[q] : q \in inserted}
  \/ pc[r] = "lines" /\ r \in held
  \/ pc[r] \in {"commit", "publish"}

\* Whoever waits for a number waits for a transaction that can go on.
AwaitsNumber(r) == \E q \in inserted : number[q] = number[r] /\ CanGoOn(q)

\* The chains of waiting are short and end with somebody who can go on: for a
\* connection a handler waits for those who hold the connections of its pool,
\* and each of them at most for a number.
WaitingEnds ==
  \A r \in Request :
    \/ pc[r] = "done" \/ CanGoOn(r) \/ AwaitsNumber(r)
    \/ /\ HeldAt(service[r]) # {}
       /\ \A q \in HeldAt(service[r]) : CanGoOn(q) \/ AwaitsNumber(q)

-----------------------------------------------------------------------------
\* The stages and the numbers: all of IInv but the counting.
Stages == TypeOK /\ NothingLeaks /\ InsertedStages /\ InsertedHeld /\ OneHolder

\* The holders in one pool are finitely many.
LEMMA FiniteHolders ==
  ASSUME IsFiniteSet(held), NEW s
  PROVE  IsFiniteSet(HeldAt(s)) /\ Cardinality(HeldAt(s)) \in Nat
  BY FS_Subset, FS_CardinalityType DEF HeldAt

\* Giving back keeps the bound.
LEMMA Fewer ==
  ASSUME IInv, held' \subseteq held, service' = service
  PROVE  IsFiniteSet(held') /\ PoolsBounded'
  <1>1. IsFiniteSet(held')
    BY FS_Subset DEF IInv
  <1>2. ASSUME NEW s \in Services
        PROVE  Cardinality(HeldAt(s)') <= PoolSize
    <2>1. HeldAt(s)' \subseteq HeldAt(s)
      BY DEF HeldAt
    <2>2. /\ IsFiniteSet(HeldAt(s)) /\ Cardinality(HeldAt(s)) \in Nat
          /\ Cardinality(HeldAt(s)) <= PoolSize
      BY FiniteHolders DEF IInv, PoolsBounded
    <2>3. Cardinality(HeldAt(s)') \in Nat /\ Cardinality(HeldAt(s)') <= Cardinality(HeldAt(s))
      BY <2>1, <2>2, FS_Subset, FS_CardinalityType
    <2>4. QED
      BY <2>2, <2>3, PoolAssumption
  <1>3. QED
    BY <1>1, <1>2 DEF PoolsBounded

\* A connection is taken only when there is room.
LEMMA AcquireInv ==
  ASSUME IInv, NEW r \in Request, Acquire(r), UNCHANGED asked
  PROVE  IInv'
  <1>1. Stages'
    BY DEF IInv, Stages, TypeOK, DbStages, NothingLeaks, InsertedStages, InsertedHeld,
      OneHolder, Acquire, Waits, asked
  <1>2. IsFiniteSet(held')
    BY FS_AddElement DEF IInv, Acquire
  <1>3. ASSUME NEW s \in Services
        PROVE  Cardinality(HeldAt(s)') <= PoolSize
    <2>1. CASE s = service[r]
      <3>1. HeldAt(s)' = HeldAt(s) \cup {r} /\ r \notin HeldAt(s)
        BY <2>1 DEF HeldAt, Acquire, Waits, asked
      <3>2. Cardinality(HeldAt(s)) \in Nat /\ Cardinality(HeldAt(s)) < PoolSize
        BY <2>1, FiniteHolders DEF IInv, Acquire, Room, HeldAt
      <3>3. Cardinality(HeldAt(s)') = Cardinality(HeldAt(s)) + 1
        BY <3>1, FiniteHolders, FS_AddElement DEF IInv
      <3>4. QED
        BY <3>2, <3>3, PoolAssumption
    <2>2. CASE s # service[r]
      <3>1. HeldAt(s)' = HeldAt(s)
        BY <2>2 DEF HeldAt, Acquire, asked
      <3>2. QED
        BY <3>1 DEF IInv, PoolsBounded
    <2>3. QED
      BY <2>1, <2>2
  <1>4. QED
    BY <1>1, <1>2, <1>3 DEF IInv, Stages, PoolsBounded

\* Every way out of a handler gives back what it has.
LEMMA QuitInv ==
  ASSUME IInv, NEW r \in Request, pc[r] \in DbStages, Quit(r), UNCHANGED <<asked, taken>>
  PROVE  IInv'
  <1>1. Stages'
    BY DEF IInv, Stages, TypeOK, DbStages, NothingLeaks, InsertedStages, InsertedHeld,
      OneHolder, Quit, Release, Goto, asked
  <1>2. QED
    BY <1>1, Fewer DEF IInv, Stages, Quit, Release, asked

\* The look-up.
LEMMA ExistsInv ==
  ASSUME IInv, NEW r \in Request, Exists(r), UNCHANGED asked
  PROVE  IInv'
  <1>1. CASE Quit(r) /\ UNCHANGED taken
    BY <1>1, QuitInv DEF Exists, DbStages
  <1>2. CASE ~(Quit(r) /\ UNCHANGED taken)
    <2>1. /\ Goto(r, "insert") /\ held' \in {held, held \ {r}}
          /\ UNCHANGED <<inserted, taken>>
      BY <1>2 DEF Exists, Release
    <2>2. Stages'
      BY <2>1 DEF IInv, Stages, TypeOK, DbStages, NothingLeaks, InsertedStages,
        InsertedHeld, OneHolder, Exists, Goto, asked
    <2>3. QED
      BY <2>1, <2>2, Fewer DEF IInv, Stages, asked
  <1>3. QED
    BY <1>1, <1>2

\* The index lets one open transaction have the number.
LEMMA InsertBillInv ==
  ASSUME IInv, NEW r \in Request, InsertBill(r), UNCHANGED asked
  PROVE  IInv'
  <1>1. CASE Quit(r) /\ UNCHANGED taken
    BY <1>1, QuitInv DEF InsertBill, DbStages
  <1>2. CASE ~(Quit(r) /\ UNCHANGED taken)
    <2>1. /\ Goto(r, "lines") /\ inserted' = inserted \cup {r}
          /\ number[r] \notin {number[q] : q \in inserted}
          /\ UNCHANGED <<held, taken>>
      BY <1>2 DEF InsertBill
    <2>2. Stages'
      BY <2>1 DEF IInv, Stages, TypeOK, DbStages, NothingLeaks, InsertedStages,
        InsertedHeld, OneHolder, InsertBill, Goto, asked
    <2>3. QED
      BY <2>1, <2>2, Fewer DEF IInv, Stages, asked
  <1>3. QED
    BY <1>1, <1>2

\* The lines go the way of the bill.
LEMMA InsertLinesInv ==
  ASSUME IInv, NEW r \in Request, InsertLines(r), UNCHANGED asked
  PROVE  IInv'
  <1>1. Stages'
    BY DEF IInv, Stages, TypeOK, DbStages, NothingLeaks, InsertedStages, InsertedHeld,
      OneHolder, InsertLines, Goto, asked
  <1>2. QED
    BY <1>1, Fewer DEF IInv, Stages, InsertLines, Goto, asked

\* The commit ends the transaction and gives its connection back.
LEMMA CommitInv ==
  ASSUME IInv, NEW r \in Request, Commit(r), UNCHANGED asked
  PROVE  IInv'
  <1>1. Stages'
    BY DEF IInv, Stages, TypeOK, DbStages, NothingLeaks, InsertedStages, InsertedHeld,
      OneHolder, Commit, Release, Goto, asked
  <1>2. QED
    BY <1>1, Fewer DEF IInv, Stages, Commit, Release, Goto, asked

\* The publish needs no connection.
LEMMA PublishInv ==
  ASSUME IInv, NEW r \in Request, Publish(r), UNCHANGED asked
  PROVE  IInv'
  <1>1. Stages'
    BY DEF IInv, Stages, TypeOK, DbStages, NothingLeaks, InsertedStages, InsertedHeld,
      OneHolder, Publish, Goto, asked
  <1>2. QED
    BY <1>1, Fewer DEF IInv, Stages, Publish, Goto, asked

LEMMA InitInv == Init => IInv
  <1> SUFFICES ASSUME Init PROVE IInv
    OBVIOUS
  <1>1. Stages
    BY DEF Init, Stages, TypeOK, DbStages, NothingLeaks, InsertedStages, InsertedHeld,
      OneHolder
  <1>2. \A s : HeldAt(s) = {}
    BY DEF Init, HeldAt
  <1>3. PoolsBounded /\ IsFiniteSet(held)
    BY <1>2, FS_EmptySet, PoolAssumption DEF PoolsBounded, Init
  <1>4. QED
    BY <1>1, <1>3 DEF IInv, Stages

LEMMA NextInv == IInv /\ [Next]_vars => IInv'
  <1> SUFFICES ASSUME IInv, [Next]_vars PROVE IInv'
    OBVIOUS
  <1>1. ASSUME NEW r \in Request, Step(r) PROVE IInv'
    BY <1>1, AcquireInv, ExistsInv, InsertBillInv, InsertLinesInv, CommitInv, PublishInv
      DEF Step
  <1>2. ASSUME NEW r \in Request, Mishap(r) PROVE IInv'
    BY <1>2, QuitInv DEF Mishap, TimesOut, Fails, Waits, DbStages
  <1>3. CASE UNCHANGED vars
    BY <1>3 DEF vars, asked, IInv, TypeOK, NothingLeaks, PoolsBounded, HeldAt,
      InsertedStages, InsertedHeld, OneHolder
  <1>4. QED
    BY <1>1, <1>2, <1>3 DEF Next, Quiet

THEOREM Invariance == Spec => []IInv
  BY InitInv, NextInv, PTL DEF Spec

\* Handlers are at one of six stages; connections and bills are theirs.
THEOREM TypeCorrect == Spec => []TypeOK
  BY Invariance, PTL DEF IInv

\* No way out of a handler keeps its connection.
THEOREM ConnectionsComeBack == Spec => []NothingLeaks
  BY Invariance, PTL DEF IInv

\* However the requests come, no pool gives out more than it has.
THEOREM PoolsKept == Spec => []PoolsBounded
  BY Invariance, PTL DEF IInv

-----------------------------------------------------------------------------
\* An open transaction can go on: it has its connection.
LEMMA InsertedGoOn ==
  ASSUME IInv, NEW q \in inserted
  PROVE  CanGoOn(q)
  BY DEF IInv, TypeOK, InsertedStages, InsertedHeld, CanGoOn

\* A handler with a connection can go on or waits for a number.
LEMMA HoldersGoOn ==
  ASSUME IInv, NEW q \in held
  PROVE  CanGoOn(q) \/ AwaitsNumber(q)
  <1>1. pc[q] \in DbStages
    BY DEF IInv, NothingLeaks
  <1>2. CASE pc[q] = "insert" /\ \E i \in inserted : number[i] = number[q]
    BY <1>2, InsertedGoOn DEF AwaitsNumber
  <1>3. CASE ~(pc[q] = "insert" /\ \E i \in inserted : number[i] = number[q])
    BY <1>1, <1>3 DEF DbStages, CanGoOn
  <1>4. QED
    BY <1>2, <1>3

\* Waiting for connections and waiting for numbers never close a circle, in any
\* set of services with pools of any size.
THEOREM NoCircle == Spec => []WaitingEnds
  <1>1. ASSUME IInv, NEW r \in Request, pc[r] # "done", ~CanGoOn(r), ~AwaitsNumber(r)
        PROVE  /\ HeldAt(service[r]) # {}
               /\ \A q \in HeldAt(service[r]) : CanGoOn(q) \/ AwaitsNumber(q)
    <2>1. r \notin held
      BY <1>1, HoldersGoOn
    <2>2. pc[r] \in {"exists", "insert"}
      BY <1>1, <2>1 DEF IInv, TypeOK, DbStages, InsertedStages, InsertedHeld, CanGoOn
    <2>3. ~Room(service[r])
      BY <1>1, <2>1, <2>2 DEF CanGoOn, Waits
    <2>4. HeldAt(service[r]) # {}
      BY <2>3, FS_EmptySet, PoolAssumption DEF Room, HeldAt
    <2>5. QED
      BY <1>1, <2>4, HoldersGoOn DEF HeldAt
  <1>2. IInv => WaitingEnds
    BY <1>1 DEF WaitingEnds
  <1>3. QED
    BY <1>2, Invariance, PTL
=============================================================================
