--------------------------- MODULE BenchmarkProofs ---------------------------
(***************************************************************************)
(* The clean-up of the benchmark, for any number of runs, bills and        *)
(* workers, and any patterns that match no earlier run.                    *)
(***************************************************************************)
EXTENDS Benchmark, TLAPS

\* Nothing is posted and nothing cleaned up yet.
LEMMA InitBench == Init => BenchInv
  <1> SUFFICES ASSUME Init PROVE BenchInv
    OBVIOUS
  <1> USE BenchmarkAssumption DEF Init, Run
  <1>1. TypeOK
    BY DEF TypeOK
  <1>2. Posted /\ Recorded /\ CleanedUp
    BY DEF Posted, Recorded, CleanedUp, BillsOf
  <1>3. OwnRowsOnly /\ CreatedAreDeleted /\ LeftBehind
    BY DEF OwnRowsOnly, CreatedAreDeleted, LeftBehind, Bill
  <1>4. QED
    BY <1>1, <1>2, <1>3 DEF BenchInv

\* A pattern finds bills of the run it belongs to and of no other: those of
\* earlier runs it does not match, those of later ones are not there yet.
LEMMA MatchesOwn ==
  ASSUME BenchInv, current \in Run
  PROVE  Matches(current) = table \cap BillsOf(current)
  <1>1. ASSUME NEW b \in table, <<current, b.run>> \in Covers
        PROVE  b.run = current
    <2>1. b \in Bill /\ b.run \in Run
      BY <1>1 DEF BenchInv, TypeOK, Bill
    <2>2. b.run <= current
      BY <1>1, <2>1 DEF BenchInv, Posted, Recorded
    <2>3. current <= b.run
      BY <1>1, <2>1, BenchmarkAssumption DEF Run
    <2>4. QED
      BY <2>1, <2>2, <2>3, BenchmarkAssumption DEF Run
  <1>2. ASSUME NEW b \in table \cap BillsOf(current)
        PROVE  <<current, b.run>> \in Covers
    BY <1>2, BenchmarkAssumption DEF BillsOf, Run
  <1>3. table \subseteq Bill
    BY DEF BenchInv, TypeOK
  <1>4. QED
    BY <1>1, <1>2, <1>3 DEF Matches, BillsOf

\* The run under way has not been cleaned up.
LEMMA CurrentUncleaned ==
  ASSUME BenchInv, current \in Run
  PROVE  cleanup[current] = "none"
  BY BenchmarkAssumption DEF BenchInv, CleanedUp, Past, Run

-----------------------------------------------------------------------------
\* The steps of workers and services.
LEMMA SendInv ==
  ASSUME BenchInv, NEW b \in Bill, Send(b)
  PROVE  BenchInv'
  <1> USE DEF BenchInv, Send
  <1>1. TypeOK'
    BY DEF TypeOK
  <1>2. Posted'
    BY BenchmarkAssumption DEF TypeOK, Posted, Bill, Run
  <1>3. Recorded'
    BY DEF TypeOK, Posted, Recorded
  <1>4. CleanedUp'
    BY DEF CleanedUp, Past
  <1>5. (OwnRowsOnly /\ CreatedAreDeleted)'
    BY DEF TypeOK, OwnRowsOnly, CreatedAreDeleted
  <1>6. LeftBehind'
    BY DEF TypeOK, LeftBehind
  <1>7. QED
    BY <1>1, <1>2, <1>3, <1>4, <1>5, <1>6

\* A service stores a bill after the clean-up only for a client that gave up.
LEMMA InsertInv ==
  ASSUME BenchInv, NEW b \in Bill, Insert(b)
  PROVE  BenchInv'
  <1> USE DEF BenchInv, Insert
  <1>1. TypeOK'
    BY DEF TypeOK
  <1>2. (Posted /\ Recorded)'
    BY DEF TypeOK, Posted, Recorded
  <1>3. (CleanedUp /\ OwnRowsOnly /\ CreatedAreDeleted)'
    BY DEF TypeOK, CleanedUp, Past, OwnRowsOnly, CreatedAreDeleted
  <1>4. LeftBehind'
    <2>1. b.run \in Run
      BY DEF Bill
    <2>2. cleanup[b.run] = "done" => b.run # current
      BY <2>1, CurrentUncleaned
    <2>3. cleanup[b.run] = "done" => client[b] = "lost"
      BY <2>2 DEF Posted
    <2>4. QED
      BY <2>3 DEF LeftBehind
  <1>5. QED
    BY <1>1, <1>2, <1>3, <1>4

\* An answer reaches a client of the run under way or nobody.
LEMMA AnswerInv ==
  ASSUME BenchInv, NEW b \in Bill, Answer(b)
  PROVE  BenchInv'
  <1> USE DEF BenchInv, Answer
  <1>1. TypeOK'
    BY DEF TypeOK
  <1>2. b.run \in Run
    BY DEF Bill
  <1>3. Waiting(b) => cleanup[b.run] = "none"
    BY <1>2, CurrentUncleaned DEF Posted, Waiting
  <1>4. (Posted /\ Recorded)'
    BY <1>3 DEF TypeOK, Posted, Recorded, Waiting
  <1>5. (CleanedUp /\ OwnRowsOnly)'
    <2>1. client' \in
            {client, [client EXCEPT ![b] = "ok"], [client EXCEPT ![b] = "refused"]}
      OBVIOUS
    <2>2. CleanedUp'
      BY <2>1 DEF TypeOK, CleanedUp, Past, BillsOf
    <2>3. OwnRowsOnly'
      BY DEF OwnRowsOnly
    <2>4. QED
      BY <2>2, <2>3
  <1>6. CreatedAreDeleted'
    BY <1>3 DEF TypeOK, CreatedAreDeleted
  <1>7. LeftBehind'
    BY <1>3 DEF TypeOK, LeftBehind
  <1>8. QED
    BY <1>1, <1>4, <1>5, <1>6, <1>7

\* A client gives up on a run that is still under way.
LEMMA GiveUpInv ==
  ASSUME BenchInv, NEW b \in Bill, GiveUp(b)
  PROVE  BenchInv'
  <1> USE DEF BenchInv, GiveUp
  <1>1. TypeOK'
    BY DEF TypeOK
  <1>2. (Posted /\ Recorded)'
    BY DEF TypeOK, Posted, Recorded, Waiting
  <1>3. (CleanedUp /\ OwnRowsOnly /\ CreatedAreDeleted /\ LeftBehind)'
    BY DEF TypeOK, CleanedUp, Past, OwnRowsOnly, CreatedAreDeleted, LeftBehind
  <1>4. QED
    BY <1>1, <1>2, <1>3

-----------------------------------------------------------------------------
\* The steps of the run itself.
LEMMA LoadEndsInv ==
  ASSUME BenchInv, LoadEnds
  PROVE  BenchInv'
  <1> USE DEF BenchInv, LoadEnds
  <1>1. TypeOK'
    BY DEF TypeOK
  <1>2. (Posted /\ Recorded /\ CleanedUp)'
    BY DEF Posted, Recorded, CleanedUp, BillsOf, Past
  <1>3. (OwnRowsOnly /\ CreatedAreDeleted /\ LeftBehind)'
    BY DEF OwnRowsOnly, CreatedAreDeleted, LeftBehind
  <1>4. QED
    BY <1>1, <1>2, <1>3

\* The clean-up takes the bills of its run and leaves all others.
LEMMA CleanUpInv ==
  ASSUME BenchInv, CleanUp
  PROVE  BenchInv'
  <1> USE DEF BenchInv, CleanUp, NextRun
  <1>1. Matches(current) = table \cap BillsOf(current)
    BY MatchesOwn
  <1>2. cleanup[current] = "none"
    BY CurrentUncleaned
  <1>3. current \in Nat /\ current' = current + 1
    BY BenchmarkAssumption DEF Run
  <1>4. TypeOK'
    BY <1>1, <1>3, BenchmarkAssumption DEF TypeOK, Run
  <1>5. Posted'
    BY <1>3, BenchmarkAssumption DEF Posted, BillsOf, Bill, Run
  <1>6. Recorded'
    BY <1>1 DEF TypeOK, Recorded, BillsOf, Bill
  <1>7. CleanedUp'
    BY <1>3, BenchmarkAssumption DEF TypeOK, CleanedUp, Past, Run
  <1>8. OwnRowsOnly'
    BY <1>1 DEF TypeOK, OwnRowsOnly
  <1>9. CreatedAreDeleted'
    BY <1>1, <1>2 DEF TypeOK, CreatedAreDeleted, Recorded, BillsOf, Bill
  <1>10. LeftBehind'
    BY <1>1 DEF TypeOK, LeftBehind, BillsOf, Bill
  <1>11. QED
    BY <1>4, <1>5, <1>6, <1>7, <1>8, <1>9, <1>10

\* A failed clean-up takes the bills of its run or none.
LEMMA CleanUpFailsInv ==
  ASSUME BenchInv, CleanUpFails
  PROVE  BenchInv'
  <1> USE DEF BenchInv, CleanUpFails, NextRun
  <1>1. Matches(current) = table \cap BillsOf(current)
    BY MatchesOwn
  <1>2. cleanup[current] = "none"
    BY CurrentUncleaned
  <1>3. current \in Nat /\ current' = current + 1
    BY BenchmarkAssumption DEF Run
  <1>4. TypeOK'
    BY <1>1, <1>3, BenchmarkAssumption DEF TypeOK, Run
  <1>5. Posted'
    BY <1>3, BenchmarkAssumption DEF Posted, BillsOf, Bill, Run
  <1>6. Recorded'
    BY <1>1 DEF TypeOK, Recorded, BillsOf, Bill
  <1>7. CleanedUp'
    BY <1>3, BenchmarkAssumption DEF TypeOK, CleanedUp, Past, Run
  <1>8. (OwnRowsOnly /\ CreatedAreDeleted)'
    BY DEF TypeOK, OwnRowsOnly, CreatedAreDeleted, Bill
  <1>9. LeftBehind'
    BY <1>1 DEF TypeOK, LeftBehind, Bill
  <1>10. QED
    BY <1>4, <1>5, <1>6, <1>7, <1>8, <1>9

\* After a kill no run is under way and no client waits.
LEMMA KilledInv ==
  ASSUME BenchInv, Killed
  PROVE  BenchInv'
  <1> USE DEF BenchInv, Killed
  <1>1. TypeOK'
    BY BenchmarkAssumption DEF TypeOK
  <1>2. Posted'
    BY BenchmarkAssumption DEF TypeOK, Posted, Waiting, Bill, Run
  <1>3. Recorded'
    BY DEF Recorded
  <1>4. CleanedUp'
    BY BenchmarkAssumption DEF TypeOK, CleanedUp, Past, Run
  <1>5. (OwnRowsOnly /\ CreatedAreDeleted)'
    BY DEF OwnRowsOnly, CreatedAreDeleted
  <1>6. LeftBehind'
    BY DEF TypeOK, LeftBehind
  <1>7. QED
    BY <1>1, <1>2, <1>3, <1>4, <1>5, <1>6

\* Every step of the benchmark preserves the invariant.
LEMMA NextBench == BenchInv /\ [Next]_vars => BenchInv'
  <1> SUFFICES ASSUME BenchInv, [Next]_vars PROVE BenchInv'
    OBVIOUS
  <1>1. CASE Serve
    BY <1>1, InsertInv, AnswerInv DEF Serve
  <1>2. CASE Load
    BY <1>2, SendInv, GiveUpInv DEF Load
  <1>3. CASE LoadEnds
    BY <1>3, LoadEndsInv
  <1>4. CASE CleanUp \/ CleanUpFails
    BY <1>4, CleanUpInv, CleanUpFailsInv
  <1>5. CASE Killed
    BY <1>5, KilledInv
  <1>6. CASE UNCHANGED vars
    BY <1>6 DEF vars, BenchInv, TypeOK, Posted, Recorded, CleanedUp, OwnRowsOnly,
      CreatedAreDeleted, LeftBehind, BillsOf, Past
  <1>7. QED
    BY <1>1, <1>2, <1>3, <1>4, <1>5, <1>6 DEF Next, Over

-----------------------------------------------------------------------------
\* Workers, handlers, rows and reports stay consistent.
LEMMA BenchInvariance == Spec => []BenchInv
  <1>1. QED
    BY InitBench, NextBench, PTL DEF Spec

\* A clean-up deletes no bill of another run.
THEOREM OnlyOwnRowsDeleted == Spec => []OwnRowsOnly
  BY BenchInvariance, PTL DEF BenchInv

\* A bill counted as created is counted as deleted.
THEOREM CreatedBillsDeleted == Spec => []CreatedAreDeleted
  BY BenchInvariance, PTL DEF BenchInv

\* Only clients that gave up leave bills behind.
THEOREM OnlyLostLeftBehind == Spec => []LeftBehind
  BY BenchInvariance, PTL DEF BenchInv
=============================================================================
