---------------------------- MODULE OutboxProofs ----------------------------
(***************************************************************************)
(* Proofs about Outbox for every number of rows, every set of processes    *)
(* and every limit: its inductive invariant, what follows from it, that a  *)
(* drain takes as many rows as it may, and that one process draining alone *)
(* implements Delivery.                                                    *)
(***************************************************************************)
EXTENDS Outbox, OldestFirst, TLAPS

USE MaxRowsAssumption, LimitAssumption, ReclaimersAssumption

-----------------------------------------------------------------------------
(* The shape of the state. *)

\* Zero is no row's id (outbox.id is an AUTOINCREMENT key).
LEMMA NoRowIsNoRow == NoRow \notin Rows
BY DEF NoRow, Rows

\* The initial states have the right shape.
LEMMA InitTypeOK == Init => TypeOK
BY DEF Init, TypeOK, Rows, NoRow, Request, Work, States

\* No step leaves the shape: the first part of the inductive invariant.
LEMMA StepTypeOK == TypeOK /\ PositionsOK /\ [Next]_vars => TypeOK'
<1> SUFFICES ASSUME TypeOK, PositionsOK, [Next]_vars PROVE TypeOK'
  OBVIOUS
<1> USE DEF TypeOK, States, Request, Work
<1>1. ASSUME NEW r \in Rows, Enqueue(r) PROVE TypeOK'
  BY <1>1 DEF Enqueue, drainVars, platformVars
<1>2. ASSUME NEW r \in Rows, ClockPasses(r) PROVE TypeOK'
  BY <1>2 DEF ClockPasses, drainVars, platformVars
<1>3. ASSUME NEW d \in Drainers, DrainStep(d) PROVE TypeOK'
  <2>1. CASE ReclaimInFlight(d)
    BY <2>1 DEF ReclaimInFlight, platformVars
  <2>2. CASE Snapshot(d)
    BY <2>2 DEF Snapshot, PendingRows, Due, queueVars, platformVars
  <2>3. CASE Take(d)
    BY <2>3 DEF Take
  <2>4. CASE RecordDelivered(d)
    BY <2>4 DEF RecordDelivered, Record, PositionsOK, platformVars
  <2>5. CASE RecordRefused(d)
    BY <2>5 DEF RecordRefused, Record, PositionsOK, platformVars
  <2>6. CASE RecordTransient(d)
    BY <2>6 DEF RecordTransient, Record, PositionsOK, platformVars
  <2>7. CASE Finish(d)
    BY <2>7 DEF Finish, queueVars, platformVars
  <2>8. CASE Crash(d)
    BY <2>8 DEF Crash, queueVars, platformVars
  <2> QED
    BY <1>3, <2>1, <2>2, <2>3, <2>4, <2>5, <2>6, <2>7, <2>8 DEF DrainStep
<1>4. ASSUME NEW m \in wire, Accept(m) PROVE TypeOK'
  BY <1>4 DEF Accept, Answer, queueVars
<1>5. ASSUME NEW m \in wire, Refuse(m) PROVE TypeOK'
  BY <1>5 DEF Refuse, Answer, queueVars
<1>6. ASSUME NEW m \in wire, Lose(m) PROVE TypeOK'
  BY <1>6 DEF Lose, queueVars, drainVars
<1>7. CASE ChangePairing
  BY <1>7 DEF ChangePairing, queueVars, drainVars
<1>8. CASE UNCHANGED vars
  BY <1>8 DEF vars, queueVars, drainVars, platformVars
<1> QED
  BY <1>1, <1>2, <1>3, <1>4, <1>5, <1>6, <1>7, <1>8 DEF Next

-----------------------------------------------------------------------------
(* The inductive invariant. *)

\* The initial states satisfy it: nothing is queued, sent or performed.
LEMMA InitIndInv == Init => IndInv
<1> SUFFICES ASSUME Init PROVE IndInv
  OBVIOUS
<1>1. TypeOK
  BY InitTypeOK
<1>2. PositionsOK
  BY NoRowIsNoRow DEF Init, PositionsOK, Enqueued
<1>3. KeysOK
  BY DEF Init, KeysOK, Enqueued
<1>4. DeliveredMeansPerformed
  BY DEF Init, DeliveredMeansPerformed, DeliveredRows
<1> QED
  BY <1>1, <1>2, <1>3, <1>4 DEF IndInv

\* Where each process stands in drain() stays consistent with the table.
LEMMA StepPositionsOK == IndInv /\ [Next]_vars => PositionsOK'
<1> SUFFICES ASSUME IndInv, [Next]_vars PROVE PositionsOK'
  OBVIOUS
<1> USE NoRowIsNoRow DEF IndInv, TypeOK, PositionsOK, Enqueued
<1>1. ASSUME NEW r \in Rows, Enqueue(r) PROVE PositionsOK'
  BY <1>1 DEF Enqueue, drainVars, platformVars, PerformedRows
<1>2. ASSUME NEW r \in Rows, ClockPasses(r) PROVE PositionsOK'
  BY <1>2 DEF ClockPasses, drainVars, platformVars, PerformedRows
<1>3. ASSUME NEW d \in Drainers, DrainStep(d) PROVE PositionsOK'
  <2>1. CASE ReclaimInFlight(d)
    BY <2>1 DEF ReclaimInFlight, platformVars, PerformedRows
  <2>2. CASE Snapshot(d)
    BY <2>2 DEF Snapshot, PendingRows, Due, queueVars, platformVars, PerformedRows
  <2>3. CASE Take(d)
    BY <2>3 DEF Take, PerformedRows
  <2>4. CASE RecordDelivered(d)
    BY <2>4 DEF RecordDelivered, Record, platformVars, PerformedRows
  <2>5. CASE RecordRefused(d)
    BY <2>5 DEF RecordRefused, Record, platformVars, PerformedRows
  <2>6. CASE RecordTransient(d)
    BY <2>6 DEF RecordTransient, Record, platformVars, PerformedRows
  <2>7. CASE Finish(d)
    BY <2>7 DEF Finish, queueVars, platformVars, PerformedRows
  <2>8. CASE Crash(d)
    BY <2>8 DEF Crash, queueVars, platformVars, PerformedRows
  <2> QED
    BY <1>3, <2>1, <2>2, <2>3, <2>4, <2>5, <2>6, <2>7, <2>8 DEF DrainStep
<1>4. ASSUME NEW m \in wire, Accept(m) PROVE PositionsOK'
  <2>1. m.row \in PerformedRows'
    <3>1. CASE Known(m.key)
      <4>1. PICK w \in performed : w.key = m.key
        BY <3>1 DEF Known
      <4>2. w.row = m.row
        BY <4>1 DEF KeysOK
      <4> QED
        BY <1>4, <3>1, <4>1, <4>2 DEF Accept, PerformedRows
    <3>2. CASE ~Known(m.key)
      <4> DEFINE v == [row |-> m.row, key |-> m.key]
      <4>1. v \in performed'
        BY <1>4, <3>2 DEF Accept
      <4>2. v.row = m.row
        OBVIOUS
      <4> HIDE DEF v
      <4> QED
        BY <4>1, <4>2 DEF PerformedRows
    <3> QED
      BY <3>1, <3>2
  <2>2. PerformedRows \subseteq PerformedRows'
    BY <1>4 DEF Accept, PerformedRows
  <2> QED
    BY <1>4, <2>1, <2>2 DEF Accept, Answer, Awaited, queueVars, Request
<1>5. ASSUME NEW m \in wire, Refuse(m) PROVE PositionsOK'
  BY <1>5 DEF Refuse, Answer, Awaited, queueVars, Request, PerformedRows
<1>6. ASSUME NEW m \in wire, Lose(m) PROVE PositionsOK'
  BY <1>6 DEF Lose, queueVars, drainVars, PerformedRows
<1>7. CASE ChangePairing
  BY <1>7 DEF ChangePairing, queueVars, drainVars, PerformedRows
<1>8. CASE UNCHANGED vars
  BY <1>8 DEF vars, queueVars, drainVars, platformVars, PerformedRows
<1> QED
  BY <1>1, <1>2, <1>3, <1>4, <1>5, <1>6, <1>7, <1>8 DEF Next

\* Recording an outcome neither inserts a row nor deletes one.
LEMMA RecordKeepsRows ==
  ASSUME TypeOK, PositionsOK, NEW d \in Drainers, NEW outcome \in States,
         Record(d, outcome)
  PROVE  Enqueued' = Enqueued
<1>1. current[d] \in Rows /\ state[current[d]] # "absent"
  BY NoRowIsNoRow DEF Record, PositionsOK, Enqueued
<1>2. state' = [state EXCEPT ![current[d]] = outcome]
  BY DEF Record
<1>3. ASSUME NEW r \in Rows PROVE state'[r] = "absent" <=> state[r] = "absent"
  BY <1>1, <1>2 DEF TypeOK, States
<1> QED
  BY <1>3 DEF Enqueued

\* The keys stay in order when neither they nor the rows and requests change.
LEMMA KeysStay ==
  ASSUME KeysOK, Enqueued' = Enqueued, UNCHANGED <<key, nextKey, wire, performed>>
  PROVE  KeysOK'
BY DEF KeysOK

\* Keys are never shared and never changed, and nothing on the wire or at the
\* platform carries a key that is not its row's.
LEMMA StepKeysOK == IndInv /\ [Next]_vars => KeysOK'
<1> SUFFICES ASSUME IndInv, [Next]_vars PROVE KeysOK'
  OBVIOUS
<1> USE DEF IndInv, TypeOK, KeysOK, Enqueued
<1>1. ASSUME NEW r \in Rows, Enqueue(r) PROVE KeysOK'
  BY <1>1 DEF Enqueue, platformVars, Request, Work
<1>2. ASSUME NEW r \in Rows, ClockPasses(r) PROVE KeysOK'
  BY <1>2 DEF ClockPasses, platformVars
<1>3. ASSUME NEW d \in Drainers, DrainStep(d) PROVE KeysOK'
  <2>1. CASE ReclaimInFlight(d)
    BY <2>1 DEF ReclaimInFlight, platformVars, Request, Work
  <2>2. CASE Snapshot(d)
    BY <2>2 DEF Snapshot, queueVars, platformVars
  <2>3. CASE Take(d)
    BY <2>3 DEF Take, PositionsOK, Request, Work
  <2>4. CASE RecordDelivered(d)
    <3>1. Enqueued' = Enqueued
      BY <2>4, RecordKeepsRows DEF RecordDelivered, States
    <3>2. UNCHANGED <<key, nextKey, wire, performed>>
      BY <2>4 DEF RecordDelivered, Record, platformVars
    <3> HIDE DEF KeysOK, Enqueued
    <3> QED
      BY <3>1, <3>2, KeysStay
  <2>5. CASE RecordRefused(d)
    <3>1. Enqueued' = Enqueued
      BY <2>5, RecordKeepsRows DEF RecordRefused, States
    <3>2. UNCHANGED <<key, nextKey, wire, performed>>
      BY <2>5 DEF RecordRefused, Record, platformVars
    <3> HIDE DEF KeysOK, Enqueued
    <3> QED
      BY <3>1, <3>2, KeysStay
  <2>6. CASE RecordTransient(d)
    <3>1. Enqueued' = Enqueued
      BY <2>6, RecordKeepsRows DEF RecordTransient, States
    <3>2. UNCHANGED <<key, nextKey, wire, performed>>
      BY <2>6 DEF RecordTransient, Record, platformVars
    <3> HIDE DEF KeysOK, Enqueued
    <3> QED
      BY <3>1, <3>2, KeysStay
  <2>7. CASE Finish(d)
    BY <2>7 DEF Finish, queueVars, platformVars
  <2>8. CASE Crash(d)
    BY <2>8 DEF Crash, queueVars, platformVars
  <2> QED
    BY <1>3, <2>1, <2>2, <2>3, <2>4, <2>5, <2>6, <2>7, <2>8 DEF DrainStep
<1>4. ASSUME NEW m \in wire, Accept(m) PROVE KeysOK'
  BY <1>4 DEF Accept, Answer, queueVars, Request, Work
<1>5. ASSUME NEW m \in wire, Refuse(m) PROVE KeysOK'
  BY <1>5 DEF Refuse, Answer, queueVars
<1>6. ASSUME NEW m \in wire, Lose(m) PROVE KeysOK'
  BY <1>6 DEF Lose, queueVars
<1>7. CASE ChangePairing
  BY <1>7 DEF ChangePairing, queueVars
<1>8. CASE UNCHANGED vars
  BY <1>8 DEF vars, queueVars, platformVars
<1> QED
  BY <1>1, <1>2, <1>3, <1>4, <1>5, <1>6, <1>7, <1>8 DEF Next

\* Only an "ok" makes a row delivered, and only the work of that row earns it.
LEMMA StepDelivered == IndInv /\ [Next]_vars => DeliveredMeansPerformed'
<1> SUFFICES ASSUME IndInv, [Next]_vars PROVE DeliveredMeansPerformed'
  OBVIOUS
<1> USE DEF IndInv, TypeOK, DeliveredMeansPerformed, DeliveredRows
<1>1. ASSUME NEW r \in Rows, Enqueue(r) PROVE DeliveredMeansPerformed'
  BY <1>1 DEF Enqueue, platformVars, PerformedRows
<1>2. ASSUME NEW r \in Rows, ClockPasses(r) PROVE DeliveredMeansPerformed'
  BY <1>2 DEF ClockPasses, platformVars, PerformedRows
<1>3. ASSUME NEW d \in Drainers, DrainStep(d) PROVE DeliveredMeansPerformed'
  <2>1. CASE ReclaimInFlight(d)
    BY <2>1 DEF ReclaimInFlight, platformVars, PerformedRows
  <2>2. CASE Snapshot(d)
    BY <2>2 DEF Snapshot, queueVars, platformVars, PerformedRows
  <2>3. CASE Take(d)
    BY <2>3 DEF Take, PerformedRows
  <2>4. CASE RecordDelivered(d)
    BY <2>4 DEF RecordDelivered, Record, PositionsOK, platformVars, PerformedRows
  <2>5. CASE RecordRefused(d)
    BY <2>5 DEF RecordRefused, Record, platformVars, PerformedRows
  <2>6. CASE RecordTransient(d)
    BY <2>6 DEF RecordTransient, Record, platformVars, PerformedRows
  <2>7. CASE Finish(d)
    BY <2>7 DEF Finish, queueVars, platformVars, PerformedRows
  <2>8. CASE Crash(d)
    BY <2>8 DEF Crash, queueVars, platformVars, PerformedRows
  <2> QED
    BY <1>3, <2>1, <2>2, <2>3, <2>4, <2>5, <2>6, <2>7, <2>8 DEF DrainStep
<1>4. ASSUME NEW m \in wire, Accept(m) PROVE DeliveredMeansPerformed'
  BY <1>4 DEF Accept, Answer, queueVars, PerformedRows
<1>5. ASSUME NEW m \in wire, Refuse(m) PROVE DeliveredMeansPerformed'
  BY <1>5 DEF Refuse, Answer, queueVars, PerformedRows
<1>6. ASSUME NEW m \in wire, Lose(m) PROVE DeliveredMeansPerformed'
  BY <1>6 DEF Lose, queueVars, PerformedRows
<1>7. CASE ChangePairing
  BY <1>7 DEF ChangePairing, queueVars, PerformedRows
<1>8. CASE UNCHANGED vars
  BY <1>8 DEF vars, queueVars, platformVars, PerformedRows
<1> QED
  BY <1>1, <1>2, <1>3, <1>4, <1>5, <1>6, <1>7, <1>8 DEF Next

\* The invariant holds in every reachable state, for any number of rows and of
\* processes: what TLC checks as IndInv on two of each.
THEOREM Invariance == Spec => []IndInv
<1>1. Init => IndInv
  BY InitIndInv
<1>2. IndInv /\ [Next]_vars => IndInv'
  BY StepTypeOK, StepPositionsOK, StepKeysOK, StepDelivered DEF IndInv
<1> QED
  BY <1>1, <1>2, PTL DEF Spec

\* A row recorded delivered has had its work done, whoever recorded it.
THEOREM DeliveredIsPerformed == Spec => []DeliveredMeansPerformed
<1>1. IndInv => DeliveredMeansPerformed
  BY DEF IndInv
<1> QED
  BY <1>1, Invariance, PTL

\* No row's work is done twice, whoever sends it and however often.
THEOREM WorkIsDoneOnce == Spec => []PerformedOnce
<1>1. IndInv => PerformedOnce
  BY DEF IndInv, TypeOK, KeysOK, PerformedOnce, Work
<1> QED
  BY <1>1, Invariance, PTL

-----------------------------------------------------------------------------
(* How many rows a drain takes. *)

\* pending() returns Limit rows, or all that are due when there are fewer
\* (outbox.py:63-70): a drain never leaves a due row behind for no reason.
LEMMA PendingIsFull ==
  /\ IsFiniteSet(Due) /\ IsFiniteSet(PendingRows)
  /\ Cardinality(PendingRows) = Least(Limit, Cardinality(Due))
<1> DEFINE id == [r \in Due |-> r]
<1>1. IsFiniteSet(Due)
  <2>1. IsFiniteSet(Rows)
    BY FS_Interval DEF Rows
  <2> QED
    BY <2>1, FS_Subset DEF Due
<1>2. id \in Ages(Due)
  BY DEF Ages, Due, Rows
<1>3. PendingRows = FirstN(Due, id, Limit)
  <2>1. \A r \in Due : Before(Due, id, r) = {q \in Due : q < r}
    BY DEF Before
  <2> QED
    BY <2>1 DEF PendingRows, FirstN, Rank
<1> HIDE DEF id
<1> QED
  BY <1>1, <1>2, <1>3, FirstNAreCounted

DrainBound == \A d \in Drainers : IsFiniteSet(batch[d]) /\ Cardinality(batch[d]) <= Limit

\* What a process holds of its snapshot only shrinks until the next one.
LEMMA StepDrainBound == TypeOK /\ DrainBound /\ [Next]_vars => DrainBound'
<1> SUFFICES ASSUME TypeOK, DrainBound, [Next]_vars PROVE DrainBound'
  OBVIOUS
<1> USE DEF TypeOK, DrainBound
<1>1. ASSUME NEW d \in Drainers, Snapshot(d) PROVE DrainBound'
  <2>1. batch' = [batch EXCEPT ![d] = PendingRows]
    BY <1>1 DEF Snapshot
  <2>2. Cardinality(PendingRows) <= Limit
    <3>1. Cardinality(Due) \in Nat
      BY PendingIsFull, FS_CardinalityType
    <3> QED
      BY <3>1, PendingIsFull DEF Least
  <2> QED
    BY <2>1, <2>2, PendingIsFull
<1>2. ASSUME NEW d \in Drainers, Take(d) PROVE DrainBound'
  <2>1. PICK r \in batch[d] : batch' = [batch EXCEPT ![d] = batch[d] \ {r}]
    BY <1>2 DEF Take
  <2>2. IsFiniteSet(batch[d] \ {r}) /\ Cardinality(batch[d] \ {r}) <= Cardinality(batch[d])
    BY FS_Subset
  <2>3. Cardinality(batch[d] \ {r}) <= Limit
    BY <2>2, FS_CardinalityType
  <2> QED
    BY <2>1, <2>2, <2>3
<1>3. ASSUME NEW d \in Drainers, Crash(d) PROVE DrainBound'
  BY <1>3, FS_EmptySet DEF Crash
<1>4. CASE UNCHANGED batch
  BY <1>4
<1>5. (\E r \in Rows : Enqueue(r) \/ ClockPasses(r)) => UNCHANGED batch
  BY DEF Enqueue, ClockPasses, drainVars
<1>6. ASSUME NEW d \in Drainers,
             \/ ReclaimInFlight(d) \/ Finish(d)
             \/ RecordDelivered(d) \/ RecordRefused(d) \/ RecordTransient(d)
      PROVE  UNCHANGED batch
  BY <1>6 DEF ReclaimInFlight, Finish, RecordDelivered, RecordRefused, RecordTransient, Record
<1>7. (\E m \in wire : Accept(m) \/ Refuse(m) \/ Lose(m)) \/ ChangePairing \/ UNCHANGED vars
        => UNCHANGED batch
  BY DEF Accept, Refuse, Lose, Answer, ChangePairing, vars, drainVars
<1> QED
  BY <1>1, <1>2, <1>3, <1>4, <1>5, <1>6, <1>7 DEF Next, DrainStep

\* No call of drain() ever holds more rows than its limit (outbox.py:73), for any
\* number of rows that wait.
THEOREM DrainsAreBounded == Spec => []DrainBound
<1>1. Init => DrainBound
  BY FS_EmptySet DEF Init, DrainBound
<1>2. IndInv => TypeOK
  BY DEF IndInv
<1> QED
  BY <1>1, <1>2, Invariance, StepDrainBound, PTL DEF Spec

-----------------------------------------------------------------------------
(* One process draining alone implements Delivery. *)

\* A lone process holds only rows it has seen pending, and waits only on the
\* row it marked: nobody else can settle them behind its back.
LEMMA StepLoneDrainer ==
  ASSUME NEW p, Drainers = {p}, IndInv, LoneDrainerInv, [Next]_vars
  PROVE  LoneDrainerInv'
<1> USE NoRowIsNoRow DEF IndInv, TypeOK, LoneDrainerInv
<1>1. ASSUME NEW r \in Rows, Enqueue(r) PROVE LoneDrainerInv'
  BY <1>1 DEF Enqueue, drainVars, PositionsOK, Enqueued
<1>2. ASSUME NEW r \in Rows, ClockPasses(r) PROVE LoneDrainerInv'
  BY <1>2 DEF ClockPasses, drainVars
<1>3. ASSUME DrainStep(p) PROVE LoneDrainerInv'
  <2>1. CASE ReclaimInFlight(p)
    BY <2>1 DEF ReclaimInFlight
  <2>2. CASE Snapshot(p)
    BY <2>2 DEF Snapshot, PendingRows, Due, queueVars
  <2>3. CASE Take(p)
    BY <2>3 DEF Take
  <2>4. CASE RecordDelivered(p)
    BY <2>4 DEF RecordDelivered, Record, PositionsOK
  <2>5. CASE RecordRefused(p)
    BY <2>5 DEF RecordRefused, Record, PositionsOK
  <2>6. CASE RecordTransient(p)
    BY <2>6 DEF RecordTransient, Record, PositionsOK
  <2>7. CASE Finish(p)
    BY <2>7 DEF Finish, queueVars
  <2>8. CASE Crash(p)
    BY <2>8 DEF Crash, queueVars
  <2> QED
    BY <1>3, <2>1, <2>2, <2>3, <2>4, <2>5, <2>6, <2>7, <2>8 DEF DrainStep
<1>4. ASSUME NEW m \in wire, Accept(m) PROVE LoneDrainerInv'
  BY <1>4 DEF Accept, Answer, queueVars
<1>5. ASSUME NEW m \in wire, Refuse(m) PROVE LoneDrainerInv'
  BY <1>5 DEF Refuse, Answer, queueVars
<1>6. ASSUME NEW m \in wire, Lose(m) PROVE LoneDrainerInv'
  BY <1>6 DEF Lose, queueVars, drainVars
<1>7. CASE ChangePairing
  BY <1>7 DEF ChangePairing, queueVars, drainVars
<1>8. CASE UNCHANGED vars
  BY <1>8 DEF vars, queueVars, drainVars
<1> QED
  BY <1>1, <1>2, <1>3, <1>4, <1>5, <1>6, <1>7, <1>8 DEF Next

\* Every step of the queue is a step of Delivery, or changes nothing it shows.
LEMMA StepDelivery ==
  ASSUME NEW p, Drainers = {p}, IndInv, LoneDrainerInv, [Next]_vars
  PROVE  [DeliveryView!Next]_DeliveryView!vars
<1> USE DEF DeliveryView!vars
<1>0. ASSUME Enqueued' = Enqueued, PerformedRows' = PerformedRows,
             DeliveredRows' = DeliveredRows
      PROVE  UNCHANGED DeliveryView!vars
  BY <1>0
<1>1. ASSUME NEW r \in Rows, Enqueue(r) PROVE DeliveryView!Submit(r)
  BY <1>1 DEF Enqueue, platformVars, DeliveryView!Submit, Enqueued,
              PerformedRows, DeliveredRows, IndInv, TypeOK
<1>2. ASSUME NEW r \in Rows, ClockPasses(r) PROVE UNCHANGED DeliveryView!vars
  BY <1>2 DEF ClockPasses, platformVars, Enqueued, PerformedRows, DeliveredRows
<1>3. ASSUME DrainStep(p)
      PROVE  \/ UNCHANGED DeliveryView!vars
             \/ \E r \in Rows : DeliveryView!Acknowledge(r)
  <2> USE DEF IndInv, TypeOK, Enqueued, DeliveredRows, PerformedRows, States
  <2>1. CASE ReclaimInFlight(p)
    BY <2>1, <1>0 DEF ReclaimInFlight, platformVars
  <2>2. CASE Snapshot(p)
    BY <2>2, <1>0 DEF Snapshot, queueVars, platformVars
  <2>3. CASE Take(p)
    BY <2>3, <1>0 DEF Take, LoneDrainerInv
  <2>4. CASE RecordDelivered(p)
    BY <2>4, NoRowIsNoRow DEF RecordDelivered, Record, PositionsOK, platformVars,
       LoneDrainerInv, DeliveryView!Acknowledge
  <2>5. CASE RecordRefused(p)
    BY <2>5, <1>0 DEF RecordRefused, Record, PositionsOK, platformVars, LoneDrainerInv
  <2>6. CASE RecordTransient(p)
    BY <2>6, <1>0 DEF RecordTransient, Record, PositionsOK, platformVars, LoneDrainerInv
  <2>7. CASE Finish(p)
    BY <2>7, <1>0 DEF Finish, queueVars, platformVars
  <2>8. CASE Crash(p)
    BY <2>8, <1>0 DEF Crash, queueVars, platformVars
  <2> QED
    BY <1>3, <2>1, <2>2, <2>3, <2>4, <2>5, <2>6, <2>7, <2>8 DEF DrainStep
<1>4. ASSUME NEW m \in wire, Accept(m)
      PROVE  UNCHANGED DeliveryView!vars \/ DeliveryView!Perform(m.row)
  <2>1. m.row \in Enqueued /\ m.key = key[m.row] /\ m.row \in Rows
    BY DEF IndInv, KeysOK, Enqueued
  <2>2. Enqueued' = Enqueued /\ DeliveredRows' = DeliveredRows
    BY <1>4 DEF Accept, Answer, queueVars, Enqueued, DeliveredRows
  <2>3. CASE Known(m.key)
    BY <1>4, <2>2, <2>3, <1>0 DEF Accept, PerformedRows
  <2>4. CASE ~Known(m.key)
    <3>1. m.row \notin PerformedRows
      BY <2>1, <2>4 DEF Known, PerformedRows, IndInv, KeysOK
    <3> DEFINE v == [row |-> m.row, key |-> m.key]
    <3>2. performed' = performed \cup {v}
      BY <1>4, <2>4 DEF Accept
    <3>3. v.row = m.row
      OBVIOUS
    <3> HIDE DEF v
    <3>4. PerformedRows' = PerformedRows \cup {m.row}
      BY <3>2, <3>3 DEF PerformedRows
    <3> QED
      BY <2>1, <2>2, <3>1, <3>4 DEF DeliveryView!Perform
  <2> QED
    BY <2>3, <2>4
<1>5. ASSUME NEW m \in wire, Refuse(m) PROVE UNCHANGED DeliveryView!vars
  BY <1>5 DEF Refuse, Answer, queueVars, Enqueued, PerformedRows, DeliveredRows
<1>6. ASSUME NEW m \in wire, Lose(m) PROVE UNCHANGED DeliveryView!vars
  BY <1>6 DEF Lose, queueVars, Enqueued, PerformedRows, DeliveredRows
<1>7. CASE ChangePairing
  BY <1>7 DEF ChangePairing, queueVars, Enqueued, PerformedRows, DeliveredRows
<1>8. CASE UNCHANGED vars
  BY <1>8 DEF vars, queueVars, platformVars, Enqueued, PerformedRows, DeliveredRows
<1>9. \A m \in wire : m.row \in Rows
  BY DEF IndInv, TypeOK, Request
<1> QED
  BY <1>1, <1>2, <1>3, <1>4, <1>5, <1>6, <1>7, <1>8, <1>9 DEF Next, DeliveryView!Next

\* With one process draining, a row in its snapshot is still pending when its
\* turn comes, and the row it waits on is still marked in_flight when the answer
\* does (outbox.py:73-119): nothing settles a row behind the drain's back.
THEOREM SnapshotStaysPending ==
  ASSUME NEW p, Drainers = {p}
  PROVE  Spec => []LoneDrainerInv
<1>1. Init => LoneDrainerInv
  BY DEF Init, LoneDrainerInv
<1>2. IndInv /\ LoneDrainerInv /\ [Next]_vars => LoneDrainerInv'
  BY StepLoneDrainer
<1> QED
  BY <1>1, <1>2, Invariance, PTL DEF Spec

\* With one process draining, outbox.py keeps Delivery's promise: the work of a
\* row is done at most once, is acknowledged only afterwards, and no crash,
\* reclaim, retry or late answer takes the acknowledgement back.
THEOREM LoneDrainerDelivers ==
  ASSUME NEW p, Drainers = {p}
  PROVE  Spec => ImplementsDelivery
<1>1. Init => DeliveryView!Init
  BY DEF Init, DeliveryView!Init, Enqueued, PerformedRows, DeliveredRows
<1>2. IndInv /\ LoneDrainerInv /\ [Next]_vars => [DeliveryView!Next]_DeliveryView!vars
  BY StepDelivery
<1> QED
  BY <1>1, <1>2, Invariance, SnapshotStaysPending, PTL
     DEF Spec, ImplementsDelivery, DeliveryView!Spec

=============================================================================
