------------------------- MODULE CronDeliveryProofs -------------------------
(***************************************************************************)
(* Proofs about CronDelivery for every number of executions and gateways,  *)
(* every drain limit and every retention bound: its inductive invariant,   *)
(* the retention bound, what a worker may be told, and that the queue      *)
(* implements AtMostOnce.                                                  *)
(***************************************************************************)
EXTENDS CronDelivery, FiniteSetTheorems, TLAPS

USE MaxRequestsAssumption, SurvivorsAssumption, NobodyAssumption,
    LimitAssumption, KeepAssumption, RepeatedAssumption

Rowed == [Requests -> States \cup {"absent"}]

-----------------------------------------------------------------------------
(* Retention. *)

\* Any set of terminal rows is finite: the table is.
LEMMA TerminalRowsFinite ==
  ASSUME NEW st
  PROVE  /\ IsFiniteSet(TerminalRows(st))
         /\ Cardinality(TerminalRows(st)) \in Nat
<1>1. IsFiniteSet(Requests)
  BY FS_Interval DEF Requests
<1>2. TerminalRows(st) \in SUBSET Requests
  BY DEF TerminalRows
<1> QED
  BY <1>1, <1>2, FS_Subset, FS_CardinalityType

\* _prune_terminal_unlocked() leaves every row as it was or turns a terminal
\* row into the tombstone of its outcome, and leaves at most Keep of them.
LEMMA Pruned ==
  ASSUME TypeOK, NEW st \in Rowed, Prune(st),
         \A r \in Requests : st[r] # "absent" => tomb[r] = "none"
  PROVE  /\ status' \in Rowed
         /\ tomb' \in [Requests -> Terminal \cup {"none"}]
         /\ \A r \in Requests :
              \/ status'[r] = st[r] /\ tomb'[r] = tomb[r]
              \/ st[r] \in Terminal /\ status'[r] = "absent" /\ tomb'[r] = st[r]
         /\ Cardinality(TerminalRows(status')) <= Keep
<1>1. PICK gone \in SUBSET TerminalRows(st) :
        /\ Cardinality(gone) = Excess(st)
        /\ status' = [r \in Requests |-> IF r \in gone THEN "absent" ELSE st[r]]
        /\ tomb' = [r \in Requests |->
                      IF r \in gone /\ tomb[r] = "none" THEN st[r] ELSE tomb[r]]
  BY DEF Prune
<1>2. \A r \in gone : r \in Requests /\ st[r] \in Terminal
  BY DEF TerminalRows
<1>3. /\ status' \in Rowed
      /\ tomb' \in [Requests -> Terminal \cup {"none"}]
  BY <1>1, <1>2 DEF TypeOK, Rowed, States
<1>4. \A r \in Requests :
        \/ status'[r] = st[r] /\ tomb'[r] = tomb[r]
        \/ st[r] \in Terminal /\ status'[r] = "absent" /\ tomb'[r] = st[r]
  BY <1>1, <1>2 DEF Terminal
<1>5. TerminalRows(status') = TerminalRows(st) \ gone
  BY <1>1 DEF TerminalRows, Terminal
<1>6. TerminalRows(st) \cap gone = gone
  OBVIOUS
<1>7. Cardinality(TerminalRows(status')) = Cardinality(TerminalRows(st)) - Excess(st)
  <2>1. Cardinality(TerminalRows(st) \ gone)
          = Cardinality(TerminalRows(st)) - Cardinality(TerminalRows(st) \cap gone)
    BY TerminalRowsFinite, FS_Difference
  <2> QED
    BY <1>1, <1>5, <1>6, <2>1
<1>8. Cardinality(TerminalRows(status')) <= Keep
  BY <1>7, TerminalRowsFinite DEF Excess
<1> QED
  BY <1>3, <1>4, <1>8

-----------------------------------------------------------------------------
(* The rows that the transactions which end in a retention pass leave to it. *)

TimedOut(r) ==
  [status EXCEPT ![r] = IF status[r] = "delivering" THEN "unknown" ELSE status[r]]

Recovered(g) ==
  [r \in Requests |-> IF r \in Abandoned(g) THEN "unknown" ELSE status[r]]

Finished(g, result) ==
  IF status[row[g]] = "delivering" /\ owner[row[g]] = g
  THEN [status EXCEPT ![row[g]] = result]
  ELSE status

\* A transaction that ends in a retention pass changes no row but a
\* delivering one, and that one to an outcome.
Closed(st) ==
  /\ st \in Rowed
  /\ \A r \in Requests :
       st[r] = status[r] \/ (status[r] = "delivering" /\ st[r] \in Terminal)

LEMMA ClosingSteps ==
  ASSUME TypeOK, HoldersInv
  PROVE  /\ \A r \in Requests : Closed(TimedOut(r))
         /\ \A g \in Gateways : Closed(Recovered(g))
         /\ \A g \in Gateways, result \in {"delivered", "failed"} :
              pc[g] = "sent" => Closed(Finished(g, result))
<1> USE DEF TypeOK, Closed, Rowed, States, Terminal
<1>1. \A r \in Requests : Closed(TimedOut(r))
  BY DEF TimedOut
<1>2. \A g \in Gateways : Closed(Recovered(g))
  BY DEF Recovered, Abandoned
<1>3. ASSUME NEW g \in Gateways, NEW result \in {"delivered", "failed"}, pc[g] = "sent"
      PROVE  Closed(Finished(g, result))
  BY <1>3 DEF Finished, HoldersInv
<1> QED
  BY <1>1, <1>2, <1>3

\* What such a transaction does to each request.
LEMMA ClosedAndPruned ==
  ASSUME TypeOK, RowsInv, NEW st, Closed(st), Prune(st)
  PROVE  /\ status' \in Rowed
         /\ tomb' \in [Requests -> Terminal \cup {"none"}]
         /\ \A r \in Requests :
              \/ status'[r] = st[r] /\ tomb'[r] = tomb[r]
              \/ st[r] \in Terminal /\ status'[r] = "absent" /\ tomb'[r] = st[r]
         /\ Cardinality(TerminalRows(status')) <= Keep
<1>1. \A r \in Requests : st[r] # "absent" => tomb[r] = "none"
  BY DEF Closed, RowsInv
<1> QED
  BY <1>1, Pruned DEF Closed

\* Each of the three actions that end deliveries prunes the rows named above.
LEMMA WhatIsPruned ==
  ASSUME TypeOK, HoldersInv
  PROVE  /\ \A r \in Requests :
              WaitTimesOut(r) =>
                IF status[r] = "pending"
                THEN status' = status /\ tomb' = tomb
                ELSE Prune(TimedOut(r))
         /\ \A g \in Gateways : StartDrain(g) => Prune(Recovered(g))
         /\ \A g \in Gateways, result \in {"delivered", "failed"} :
              Finish(g, result) => pc[g] = "sent" /\ Prune(Finished(g, result))
BY DEF WaitTimesOut, TimedOut, StartDrain, Recovered, Finish, Finished

\* A step either ends in such a transaction, or changes one row by hand.
Transaction(st) ==
  /\ status' \in Rowed
  /\ tomb' \in [Requests -> Terminal \cup {"none"}]
  /\ \A r \in Requests :
       \/ status'[r] = st[r] /\ tomb'[r] = tomb[r]
       \/ st[r] \in Terminal /\ status'[r] = "absent" /\ tomb'[r] = st[r]
  /\ Cardinality(TerminalRows(status')) <= Keep
  /\ \A r \in Requests :
       st[r] = status[r] \/ (status[r] = "delivering" /\ st[r] \in Terminal)

LEMMA Transactions ==
  ASSUME TypeOK, RowsInv, HoldersInv
  PROVE  /\ \A r \in Requests :
              WaitTimesOut(r) =>
                IF status[r] = "pending"
                THEN status' = status /\ tomb' = tomb
                ELSE Transaction(TimedOut(r))
         /\ \A g \in Gateways : StartDrain(g) => Transaction(Recovered(g))
         /\ \A g \in Gateways, result \in {"delivered", "failed"} :
              Finish(g, result) => Transaction(Finished(g, result))
<1>1. ASSUME NEW st, Closed(st), Prune(st) PROVE Transaction(st)
  BY <1>1, ClosedAndPruned DEF Transaction, Closed
<1> QED
  BY <1>1, WhatIsPruned, ClosingSteps

-----------------------------------------------------------------------------
(* The inductive invariant. *)

LEMMA InitInv == Init => DeliveryInv
BY DEF Init, DeliveryInv, TypeOK, RowsInv, HoldersInv, Untouched, Holding, Outcome, Terminal

\* A drain that is busy with a row had one left to take.
LEMMA LeftOver ==
  ASSUME TypeOK, HoldersInv, NEW g \in Gateways, pc[g] = "sent"
  PROVE  left[g] - 1 \in 0 .. Limit
BY DEF TypeOK, HoldersInv

LEMMA StepTypeOK == DeliveryInv /\ [Next]_vars => TypeOK'
<1> SUFFICES ASSUME DeliveryInv, [Next]_vars PROVE TypeOK'
  OBVIOUS
<1> USE DEF DeliveryInv, TypeOK, States, tableVars, gatewayVars, workerVars
<1>1. ASSUME NEW r \in Requests, Enqueue(r) PROVE TypeOK'
  <2>1. calls' \in [Requests -> 0 .. 2]
    BY <1>1 DEF Enqueue
  <2>2. answer' \in [Requests -> {"none", "ok", "error"}]
    BY <1>1 DEF Enqueue, Report
  <2>3. status' \in [Requests -> States \cup {"absent"}]
    BY <1>1 DEF Enqueue
  <2>4. waiting' \in [Requests -> BOOLEAN]
    BY <1>1 DEF Enqueue
  <2> QED
    BY <1>1, <2>1, <2>2, <2>3, <2>4 DEF Enqueue
<1>2. ASSUME NEW r \in Requests, Poll(r) PROVE TypeOK'
  BY <1>2 DEF Poll, Report
<1>3. ASSUME NEW r \in Requests, WaitTimesOut(r) PROVE TypeOK'
  <2>1. (status' = status /\ tomb' = tomb) \/ Transaction(TimedOut(r))
    BY <1>3, Transactions
  <2> QED
    BY <1>3, <2>1 DEF WaitTimesOut, Report, Transaction, Rowed
<1>4. ASSUME NEW r \in Requests, WorkerDies(r) PROVE TypeOK'
  BY <1>4 DEF WorkerDies
<1>5. ASSUME NEW g \in Gateways, Drain(g) PROVE TypeOK'
  <2>1. CASE StartDrain(g)
    <3>1. Transaction(Recovered(g))
      BY <2>1, Transactions
    <3> QED
      BY <2>1, <3>1 DEF StartDrain, Transaction, Rowed
  <2>2. CASE Pick(g)
    BY <2>2 DEF Pick
  <2>3. CASE Claim(g)
    <3>1. row[g] \in Requests
      BY <2>3 DEF Claim, HoldersInv
    <3> QED
      BY <2>3, <3>1 DEF Claim
  <2>4. CASE Send(g)
    <3>1. row[g] \in Requests
      BY <2>4 DEF Send, HoldersInv
    <3> QED
      BY <2>4, <3>1 DEF Send
  <2>5. CASE DrainEnds(g)
    <3>1. pc[g] \in {"picked", "sent"} => row[g] \in Requests
      BY DEF HoldersInv
    <3>2. active' \in [Gateways -> SUBSET Requests]
      BY <2>5, <3>1 DEF DrainEnds
    <3>3. left' \in [Gateways -> 0 .. Limit] /\ row' \in [Gateways -> Requests \cup {NoRequest}]
      BY <2>5 DEF DrainEnds
    <3>4. pc' \in [Gateways -> {"idle", "looping", "picked", "claimed", "sent"}]
      BY <2>5 DEF DrainEnds
    <3> QED
      BY <2>5, <3>2, <3>3, <3>4 DEF DrainEnds
  <2>6. ASSUME NEW result \in {"delivered", "failed"}, Finish(g, result) PROVE TypeOK'
    <3>1. Transaction(Finished(g, result))
      BY <2>6, Transactions
    <3> QED
      BY <2>6, <3>1, LeftOver DEF Finish, Transaction, Rowed
  <2> QED
    BY <1>5, <2>1, <2>2, <2>3, <2>4, <2>5, <2>6 DEF Drain
<1>6. ASSUME NEW g \in Gateways, Die(g) PROVE TypeOK'
  BY <1>6 DEF Die
<1>7. CASE UNCHANGED vars
  BY <1>7 DEF vars
<1> QED
  BY <1>1, <1>2, <1>3, <1>4, <1>5, <1>6, <1>7 DEF Next

LEMMA StepRowsInv == DeliveryInv /\ [Next]_vars => RowsInv'
<1> SUFFICES ASSUME DeliveryInv, [Next]_vars PROVE RowsInv'
  OBVIOUS
<1> USE DEF DeliveryInv, TypeOK, RowsInv, Untouched, Outcome, States, Terminal,
            tableVars, gatewayVars, workerVars
<1>1. ASSUME NEW r \in Requests, Enqueue(r) PROVE RowsInv'
  BY <1>1 DEF Enqueue, Outcome
<1>2. ASSUME NEW r \in Requests, Poll(r) PROVE RowsInv'
  BY <1>2 DEF Poll
<1>3. ASSUME NEW r \in Requests, WaitTimesOut(r) PROVE RowsInv'
  <2>1. (status' = status /\ tomb' = tomb) \/ Transaction(TimedOut(r))
    BY <1>3, Transactions
  <2> QED
    BY <1>3, <2>1 DEF WaitTimesOut, Transaction, TimedOut
<1>4. ASSUME NEW r \in Requests, WorkerDies(r) PROVE RowsInv'
  BY <1>4 DEF WorkerDies
<1>5. ASSUME NEW g \in Gateways, Drain(g) PROVE RowsInv'
  <2>1. CASE StartDrain(g)
    <3>1. Transaction(Recovered(g))
      BY <2>1, Transactions
    <3> QED
      BY <2>1, <3>1 DEF StartDrain, Transaction, Recovered
  <2>2. CASE Pick(g)
    BY <2>2 DEF Pick
  <2>3. CASE Claim(g)
    BY <2>3 DEF Claim, HoldersInv
  <2>4. CASE Send(g)
    BY <2>4 DEF Send, HoldersInv, Holding
  <2>5. CASE DrainEnds(g)
    BY <2>5 DEF DrainEnds
  <2>6. ASSUME NEW result \in {"delivered", "failed"}, Finish(g, result) PROVE RowsInv'
    <3>1. Transaction(Finished(g, result))
      BY <2>6, Transactions
    <3>2. status[row[g]] = "delivering" /\ owner[row[g]] = g => sends[row[g]] = 1
      BY <2>6 DEF Finish, HoldersInv, Holding
    <3> QED
      BY <2>6, <3>1, <3>2 DEF Finish, Transaction, Finished
  <2> QED
    BY <1>5, <2>1, <2>2, <2>3, <2>4, <2>5, <2>6 DEF Drain
<1>6. ASSUME NEW g \in Gateways, Die(g) PROVE RowsInv'
  BY <1>6 DEF Die
<1>7. CASE UNCHANGED vars
  BY <1>7 DEF vars
<1> QED
  BY <1>1, <1>2, <1>3, <1>4, <1>5, <1>6, <1>7 DEF Next

LEMMA StepHoldersInv == DeliveryInv /\ [Next]_vars => HoldersInv'
<1> SUFFICES ASSUME DeliveryInv, [Next]_vars PROVE HoldersInv'
  OBVIOUS
<1> USE DEF DeliveryInv, TypeOK, RowsInv, HoldersInv, Holding, Untouched, Outcome,
            States, Terminal, tableVars, gatewayVars, workerVars
<1>1. ASSUME NEW r \in Requests, Enqueue(r) PROVE HoldersInv'
  BY <1>1 DEF Enqueue
<1>2. ASSUME NEW r \in Requests, Poll(r) PROVE HoldersInv'
  BY <1>2 DEF Poll
<1>3. ASSUME NEW r \in Requests, WaitTimesOut(r) PROVE HoldersInv'
  <2>1. (status' = status /\ tomb' = tomb) \/ Transaction(TimedOut(r))
    BY <1>3, Transactions
  <2> QED
    BY <1>3, <2>1 DEF WaitTimesOut, Transaction, TimedOut
<1>4. ASSUME NEW r \in Requests, WorkerDies(r) PROVE HoldersInv'
  BY <1>4 DEF WorkerDies
<1>5. ASSUME NEW g \in Gateways, Drain(g) PROVE HoldersInv'
  <2>1. CASE StartDrain(g)
    <3>1. Transaction(Recovered(g))
      BY <2>1, Transactions
    <3>2. /\ pc[g] = "idle" /\ alive[g]
          /\ pc' = [pc EXCEPT ![g] = "looping"]
          /\ left' = [left EXCEPT ![g] = Limit]
          /\ UNCHANGED <<owner, alive, row, calls, sends>>
      BY <2>1 DEF StartDrain
    <3>3. ASSUME NEW h \in Gateways, Holding(h)
          PROVE  /\ row[h] \in Requests
                 /\ \/ status'[row[h]] = status[row[h]] /\ tomb'[row[h]] = tomb[row[h]]
                    \/ status'[row[h]] = "unknown" /\ tomb'[row[h]] = tomb[row[h]]
                    \/ /\ status[row[h]] \in Terminal \/ status[row[h]] = "delivering"
                       /\ status'[row[h]] = "absent"
                       /\ tomb'[row[h]] =
                            IF status[row[h]] = "delivering" THEN "unknown" ELSE status[row[h]]
      <4>1. row[h] \in Requests
        BY <3>3
      <4>2. Recovered(g)[row[h]] = status[row[h]]
              \/ (status[row[h]] = "delivering" /\ Recovered(g)[row[h]] = "unknown")
        BY <4>1 DEF Recovered, Abandoned
      <4> QED
        BY <3>1, <4>1, <4>2 DEF Transaction
    <3>4. ASSUME NEW h \in Gateways, h # g
          PROVE  pc'[h] = pc[h] /\ row'[h] = row[h] /\ left'[h] = left[h]
      BY <3>2, <3>4
    <3>5. pc'[g] = "looping"
      BY <3>2
    <3> QED
      BY <3>2, <3>3, <3>4, <3>5
  <2>2. CASE Pick(g)
    BY <2>2 DEF Pick
  <2>3. CASE Claim(g)
    BY <2>3 DEF Claim
  <2>4. CASE Send(g)
    BY <2>4 DEF Send
  <2>5. CASE DrainEnds(g)
    BY <2>5 DEF DrainEnds
  <2>6. ASSUME NEW result \in {"delivered", "failed"}, Finish(g, result) PROVE HoldersInv'
    <3>1. Transaction(Finished(g, result))
      BY <2>6, Transactions
    <3>2. /\ pc[g] = "sent"
          /\ pc' = [pc EXCEPT ![g] = "looping"]
          /\ row' = [row EXCEPT ![g] = NoRequest]
          /\ left' = [left EXCEPT ![g] = @ - 1]
          /\ UNCHANGED <<owner, alive, calls, sends>>
      BY <2>6 DEF Finish
    <3>3. ASSUME NEW h \in Gateways, h # g, Holding(h)
          PROVE  /\ row[h] \in Requests /\ row[h] # row[g]
                 /\ \/ status'[row[h]] = status[row[h]] /\ tomb'[row[h]] = tomb[row[h]]
                    \/ /\ status[row[h]] \in Terminal
                       /\ status'[row[h]] = "absent"
                       /\ tomb'[row[h]] = status[row[h]]
      <4>1. row[h] \in Requests /\ row[h] # row[g]
        BY <3>2, <3>3
      <4>2. Finished(g, result)[row[h]] = status[row[h]]
        BY <4>1 DEF Finished
      <4> QED
        BY <3>1, <4>1, <4>2 DEF Transaction
    <3>4. ASSUME NEW h \in Gateways, h # g
          PROVE  pc'[h] = pc[h] /\ row'[h] = row[h] /\ left'[h] = left[h]
      BY <3>2, <3>4
    <3>5. pc'[g] = "looping" /\ row'[g] = NoRequest /\ alive[g]
      BY <3>2
    <3> QED
      BY <3>2, <3>3, <3>4, <3>5
  <2> QED
    BY <1>5, <2>1, <2>2, <2>3, <2>4, <2>5, <2>6 DEF Drain
<1>6. ASSUME NEW g \in Gateways, Die(g) PROVE HoldersInv'
  BY <1>6 DEF Die
<1>7. CASE UNCHANGED vars
  BY <1>7 DEF vars
<1> QED
  BY <1>1, <1>2, <1>3, <1>4, <1>5, <1>6, <1>7 DEF Next

\* Invariant of every behaviour: types, rows and holders as DeliveryInv says,
\* through claims, deaths, recoveries and retention passes.
THEOREM DeliveryInvariant == Spec => []DeliveryInv
<1>1. DeliveryInv /\ [Next]_vars => DeliveryInv'
  BY StepTypeOK, StepRowsInv, StepHoldersInv DEF DeliveryInv
<1> QED
  BY <1>1, InitInv, PTL DEF Spec

-----------------------------------------------------------------------------
(* Retention. *)

\* A set without terminal rows has no cardinality to bound.
LEMMA InitRetention == Init => RetentionBound
<1> SUFFICES ASSUME Init PROVE RetentionBound
  OBVIOUS
<1>1. TerminalRows(status) = {}
  BY DEF Init, TerminalRows, Terminal
<1> QED
  BY <1>1, FS_EmptySet DEF RetentionBound

LEMMA StepRetention == DeliveryInv /\ RetentionBound /\ [Next]_vars => RetentionBound'
<1> SUFFICES ASSUME DeliveryInv, RetentionBound, [Next]_vars PROVE RetentionBound'
  OBVIOUS
<1> USE DEF DeliveryInv
\* A step that makes no row terminal and deletes none leaves the same set.
<1>1. ASSUME TerminalRows(status') = TerminalRows(status) PROVE RetentionBound'
  BY <1>1 DEF RetentionBound
<1>2. ASSUME status' = status PROVE RetentionBound'
  BY <1>1, <1>2
<1>3. ASSUME NEW r \in Requests, Enqueue(r) PROVE RetentionBound'
  <2>1. TerminalRows(status') = TerminalRows(status)
    BY <1>3 DEF Enqueue, TerminalRows, Terminal, TypeOK
  <2> QED
    BY <1>1, <2>1
<1>4. ASSUME NEW r \in Requests, WaitTimesOut(r) PROVE RetentionBound'
  BY <1>2, <1>4, Transactions DEF Transaction, RetentionBound
<1>5. ASSUME NEW g \in Gateways, Drain(g) PROVE RetentionBound'
  <2>1. CASE StartDrain(g)
    BY <2>1, Transactions DEF Transaction, RetentionBound
  <2>2. CASE Claim(g)
    <3>1. TerminalRows(status') = TerminalRows(status)
      BY <2>2 DEF Claim, TerminalRows, Terminal, TypeOK
    <3> QED
      BY <1>1, <3>1
  <2>3. CASE Pick(g) \/ Send(g) \/ DrainEnds(g)
    BY <1>2, <2>3 DEF Pick, Send, DrainEnds, tableVars
  <2>4. ASSUME NEW result \in {"delivered", "failed"}, Finish(g, result)
        PROVE  RetentionBound'
    BY <2>4, Transactions DEF Transaction, RetentionBound
  <2> QED
    BY <1>5, <2>1, <2>2, <2>3, <2>4 DEF Drain
<1>6. ASSUME NEW r \in Requests, Poll(r) \/ WorkerDies(r) PROVE RetentionBound'
  BY <1>2, <1>6 DEF Poll, WorkerDies, tableVars
<1>7. ASSUME NEW g \in Gateways, Die(g) PROVE RetentionBound'
  BY <1>2, <1>7 DEF Die, tableVars
<1>8. CASE UNCHANGED vars
  BY <1>2, <1>8 DEF vars, tableVars
<1> QED
  BY <1>3, <1>4, <1>5, <1>6, <1>7, <1>8 DEF Next

\* The table never holds more than MAX_TERMINAL_DELIVERIES outcomes, on
\* whatever path the row became terminal.
THEOREM RetentionIsBounded == Spec => []RetentionBound
<1> QED
  BY DeliveryInvariant, InitRetention, StepRetention, PTL DEF Spec

-----------------------------------------------------------------------------
(* What a worker is told. *)

\* Who was told of a failure has a row that says so, or had one retired.
Alarms ==
  \A r \in Requests :
    answer[r] = "error" =>
      Outcome(r) \in {"failed", "unknown"} \/ tomb[r] = "delivered"

LEMMA StepAlarms == DeliveryInv /\ Alarms /\ [Next]_vars => Alarms'
<1> SUFFICES ASSUME DeliveryInv, Alarms, [Next]_vars PROVE Alarms'
  OBVIOUS
<1> USE DEF DeliveryInv, TypeOK, RowsInv, Alarms, Outcome, Report,
            States, Terminal, tableVars, gatewayVars, workerVars
<1>1. ASSUME NEW r \in Requests, Enqueue(r) PROVE Alarms'
  BY <1>1 DEF Enqueue
<1>2. ASSUME NEW r \in Requests, Poll(r) PROVE Alarms'
  BY <1>2 DEF Poll
<1>3. ASSUME NEW r \in Requests, WaitTimesOut(r) PROVE Alarms'
  <2>1. CASE status[r] = "pending"
    BY <1>3, <2>1 DEF WaitTimesOut
  <2>2. CASE status[r] # "pending"
    <3>1. Transaction(TimedOut(r))
      BY <1>3, <2>2, Transactions
    <3>2. \A q \in Requests : answer'[q] = "error" =>
            TimedOut(r)[q] # "delivered" /\ TimedOut(r)[q] \notin {"pending", "delivering"}
      <4>1. \A q \in Requests \ {r} : answer'[q] = answer[q]
        BY <1>3 DEF WaitTimesOut
      <4>2. answer'[r] = "error" => TimedOut(r)[r] # "delivered"
        BY <1>3, <2>2 DEF WaitTimesOut, TimedOut
      <4> QED
        BY <2>2, <4>1, <4>2 DEF TimedOut
    <3>3. \A q \in Requests : answer'[q] = "error" =>
            TimedOut(r)[q] \in {"failed", "unknown"} \/ tomb[q] # "none"
      BY <1>3, <2>2, <3>2 DEF WaitTimesOut, TimedOut
    <3> QED
      BY <3>1, <3>3 DEF Transaction
  <2> QED
    BY <2>1, <2>2
<1>4. ASSUME NEW r \in Requests, WorkerDies(r) PROVE Alarms'
  BY <1>4 DEF WorkerDies
<1>5. ASSUME NEW g \in Gateways, Drain(g) PROVE Alarms'
  <2>1. CASE StartDrain(g)
    <3>1. Transaction(Recovered(g))
      BY <2>1, Transactions
    <3> QED
      BY <2>1, <3>1 DEF StartDrain, Transaction, Recovered
  <2>2. CASE Pick(g) \/ Send(g) \/ DrainEnds(g)
    BY <2>2 DEF Pick, Send, DrainEnds
  <2>3. CASE Claim(g)
    <3>1. /\ row[g] \in Requests
          /\ status[row[g]] = "pending" /\ tomb[row[g]] = "none"
          /\ status' = [status EXCEPT ![row[g]] = "delivering"]
          /\ UNCHANGED <<tomb, answer>>
      BY <2>3 DEF Claim, HoldersInv
    <3>2. answer[row[g]] # "error"
      BY <3>1
    <3> QED
      BY <3>1, <3>2
  <2>4. ASSUME NEW result \in {"delivered", "failed"}, Finish(g, result)
        PROVE  Alarms'
    <3>1. Transaction(Finished(g, result))
      BY <2>4, Transactions
    <3> QED
      BY <2>4, <3>1 DEF Finish, Transaction, Finished
  <2> QED
    BY <1>5, <2>1, <2>2, <2>3, <2>4 DEF Drain
<1>6. ASSUME NEW g \in Gateways, Die(g) PROVE Alarms'
  BY <1>6 DEF Die
<1>7. CASE UNCHANGED vars
  BY <1>7 DEF vars
<1> QED
  BY <1>1, <1>2, <1>3, <1>4, <1>5, <1>6, <1>7 DEF Next

\* Only the worker's own steps change what it was told.
LEMMA Told ==
  ASSUME DeliveryInv, [Next]_vars, NEW r \in Requests, answer'[r] # answer[r]
  PROVE  Enqueue(r) \/ Poll(r) \/ WaitTimesOut(r)
<1> USE DEF DeliveryInv, TypeOK, workerVars
<1>1. ASSUME NEW q \in Requests, Enqueue(q) PROVE q = r
  BY <1>1 DEF Enqueue
<1>2. ASSUME NEW q \in Requests, Poll(q) PROVE q = r
  BY <1>2 DEF Poll
<1>3. ASSUME NEW q \in Requests, WaitTimesOut(q) PROVE q = r
  BY <1>3 DEF WaitTimesOut
<1>4. PICK q \in Requests : Enqueue(q) \/ Poll(q) \/ WaitTimesOut(q)
  BY DEF Next, vars, WorkerDies, Drain, Die, StartDrain, Pick, Claim, Send, Finish, DrainEnds
<1> QED
  BY <1>1, <1>2, <1>3, <1>4

\* Only Send hands a message over, and only that of the row it holds.
LEMMA Handed ==
  ASSUME DeliveryInv, [Next]_vars, NEW r \in Requests, sends'[r] # sends[r]
  PROVE  Outcome(r) \in {"none", "unknown"}
<1>1. PICK g \in Gateways : Send(g)
  BY DEF Next, vars, Enqueue, Poll, WaitTimesOut, WorkerDies, Drain, Die, StartDrain, Pick,
         Claim, Finish, DrainEnds
<1>2. row[g] = r /\ Holding(g)
  BY <1>1 DEF Send, DeliveryInv, TypeOK, Holding
<1> QED
  BY <1>2 DEF DeliveryInv, HoldersInv

\* What a worker is told and what becomes of its message agree: no success is
\* reported of a message that was neither sent nor left queued, and a message
\* that leaves after its failure was reported is one whose row says unknown
\* (delivery_queue.py:313-384).
THEOREM ReportsAreHonest == Spec => ReportsAgree
<1> DEFINE Agree(r) ==
      /\ answer'[r] # answer[r] /\ answer'[r] = "ok" =>
           status[r] = "pending" \/ (Outcome(r) = "delivered" /\ sends[r] = 1)
      /\ answer'[r] # answer[r] /\ answer'[r] = "error" =>
           Outcome(r)' \in {"failed", "unknown"} \/ tomb[r] = "delivered"
      /\ sends'[r] # sends[r] /\ answer[r] = "error" => Outcome(r) = "unknown"
<1>1. Init => Alarms
  BY DEF Init, Alarms
<1>2. ASSUME DeliveryInv, Alarms, Alarms', [Next]_vars, NEW r \in Requests
      PROVE  Agree(r)
  <2>1. ASSUME answer'[r] # answer[r], answer'[r] = "ok"
        PROVE  status[r] = "pending" \/ (Outcome(r) = "delivered" /\ sends[r] = 1)
    <3>1. Enqueue(r) \/ Poll(r) \/ WaitTimesOut(r)
      BY <1>2, <2>1, Told
    <3>2. status[r] = "pending" \/ Outcome(r) = "delivered"
      BY <1>2, <2>1, <3>1
         DEF Enqueue, Poll, WaitTimesOut, Report, Outcome, Terminal, DeliveryInv, TypeOK
    <3> QED
      BY <1>2, <3>2 DEF DeliveryInv, RowsInv
  <2>2. ASSUME answer'[r] # answer[r], answer'[r] = "error"
        PROVE  Outcome(r)' \in {"failed", "unknown"} \/ tomb[r] = "delivered"
    <3>1. Outcome(r)' \in {"failed", "unknown"} \/ tomb'[r] = "delivered"
      BY <1>2, <2>2 DEF Alarms
    <3>2. ASSUME tomb'[r] = "delivered" PROVE tomb[r] = "delivered"
      <4>1. CASE Enqueue(r) \/ Poll(r)
        BY <3>2, <4>1 DEF Enqueue, Poll, tableVars
      <4>2. CASE WaitTimesOut(r)
        <5>1. CASE status[r] = "pending"
          BY <3>2, <4>2, <5>1 DEF WaitTimesOut
        <5>2. CASE status[r] # "pending"
          <6>1. Transaction(TimedOut(r))
            BY <1>2, <4>2, <5>2, Transactions DEF DeliveryInv
          <6>2. TimedOut(r)[r] # "delivered"
            BY <1>2, <2>2, <4>2, <5>2 DEF WaitTimesOut, TimedOut, Report, DeliveryInv, TypeOK
          <6> QED
            BY <3>2, <6>1, <6>2 DEF Transaction
        <5> QED
          BY <5>1, <5>2
      <4> QED
        BY <1>2, <2>2, <4>1, <4>2, Told
    <3> QED
      BY <3>1, <3>2
  <2>3. ASSUME sends'[r] # sends[r], answer[r] = "error" PROVE Outcome(r) = "unknown"
    <3>1. Outcome(r) \in {"none", "unknown"}
      BY <1>2, <2>3, Handed
    <3>2. tomb[r] = "delivered" => Outcome(r) = "delivered"
      BY <1>2 DEF DeliveryInv, RowsInv, Outcome, Terminal
    <3> QED
      BY <1>2, <2>3, <3>1, <3>2 DEF Alarms
  <2> QED
    BY <2>1, <2>2, <2>3
<1>3. DeliveryInv /\ Alarms /\ Alarms' /\ [Next]_vars => [\A r \in Requests : Agree(r)]_vars
  BY <1>2
<1> QED
  BY <1>1, <1>3, DeliveryInvariant, StepAlarms, PTL DEF Spec, ReportsAgree

-----------------------------------------------------------------------------
(* The queue implements AtMostOnce. *)

Asked == {r \in Requests : calls[r] > 0}

LEMMA InitRefines == Init => Promise!Init
BY DEF Init, Promise!Init, Outcome, Terminal

LEMMA StepRefines == DeliveryInv /\ [Next]_vars => [Promise!Next]_Promise!vars
<1> SUFFICES ASSUME DeliveryInv, [Next]_vars PROVE [Promise!Next]_Promise!vars
  OBVIOUS
<1> USE DEF DeliveryInv, TypeOK, RowsInv, States, Terminal, tableVars, gatewayVars, workerVars
\* Nothing is asked for or attempted: what happens to the outcomes decides.
<1>1. ASSUME UNCHANGED <<calls, sends>>,
             \A r \in Requests : Outcome(r)' = Outcome(r)
      PROVE  UNCHANGED Promise!vars
  BY <1>1 DEF Promise!vars
<1>2. ASSUME UNCHANGED <<calls, sends>>, NEW S \in SUBSET Asked,
             \A r \in S : Outcome(r) = "none" /\ Outcome(r)' = "unknown",
             \A r \in Requests \ S : Outcome(r)' = Outcome(r)
      PROVE  Promise!Next
  <2>1. Promise!Abandon(S)
    BY <1>2 DEF Promise!Abandon, Asked
  <2> QED
    BY <2>1 DEF Promise!Next, Asked
<1>3. ASSUME NEW r \in Requests, Enqueue(r) PROVE [Promise!Next]_Promise!vars
  <2>1. \A q \in Requests : Outcome(q)' = Outcome(q)
    BY <1>3 DEF Enqueue, Outcome
  <2>2. CASE calls[r] = 0
    <3>1. Promise!Ask({r})
      BY <1>3, <2>1, <2>2 DEF Enqueue, Promise!Ask
    <3> QED
      BY <3>1 DEF Promise!Next
  <2>3. CASE calls[r] # 0
    <3>1. {q \in Requests : calls'[q] > 0} = {q \in Requests : calls[q] > 0}
      BY <1>3, <2>3 DEF Enqueue
    <3>2. sends' = sends
      BY <1>3 DEF Enqueue
    <3> QED
      BY <2>1, <3>1, <3>2 DEF Promise!vars
  <2> QED
    BY <2>2, <2>3
<1>4. ASSUME NEW r \in Requests, Poll(r) \/ WorkerDies(r)
      PROVE  [Promise!Next]_Promise!vars
  BY <1>1, <1>4 DEF Poll, WorkerDies, Outcome
<1>5. ASSUME NEW st, Transaction(st), UNCHANGED <<calls, sends>>,
             \A q \in Requests : st[q] = status[q] \/ st[q] = "unknown"
      PROVE  [Promise!Next]_Promise!vars
  <2> DEFINE S == {q \in Requests : st[q] # status[q]}
  <2>1. S \in SUBSET Asked
    BY <1>5 DEF Transaction, Asked
  <2>2. \A q \in S : Outcome(q) = "none" /\ Outcome(q)' = "unknown"
    BY <1>5 DEF Transaction, Outcome
  <2>3. \A q \in Requests \ S : Outcome(q)' = Outcome(q)
    BY <1>5 DEF Transaction, Outcome
  <2> HIDE DEF S
  <2> QED
    BY <1>2, <1>5, <2>1, <2>2, <2>3
<1>6. ASSUME NEW r \in Requests, WaitTimesOut(r) PROVE [Promise!Next]_Promise!vars
  <2>1. UNCHANGED <<calls, sends>>
    BY <1>6 DEF WaitTimesOut
  <2>2. CASE status' = status /\ tomb' = tomb
    BY <1>1, <2>1, <2>2 DEF Outcome
  <2>3. CASE Transaction(TimedOut(r))
    <3>1. \A q \in Requests : TimedOut(r)[q] = status[q] \/ TimedOut(r)[q] = "unknown"
      BY DEF TimedOut
    <3> QED
      BY <1>5, <2>1, <2>3, <3>1
  <2> QED
    BY <1>6, <2>2, <2>3, Transactions
<1>7. ASSUME NEW g \in Gateways, Drain(g) PROVE [Promise!Next]_Promise!vars
  <2>1. CASE StartDrain(g)
    <3>1. UNCHANGED <<calls, sends>>
      BY <2>1 DEF StartDrain
    <3>2. \A q \in Requests : Recovered(g)[q] = status[q] \/ Recovered(g)[q] = "unknown"
      BY DEF Recovered
    <3>3. Transaction(Recovered(g))
      BY <2>1, Transactions
    <3> QED
      BY <1>5, <3>1, <3>2, <3>3
  <2>2. CASE Pick(g) \/ DrainEnds(g)
    BY <1>1, <2>2 DEF Pick, DrainEnds, Outcome
  <2>3. CASE Claim(g)
    <3>1. row[g] \in Requests
      BY <2>3 DEF Claim, HoldersInv
    <3> QED
      BY <1>1, <2>3, <3>1 DEF Claim, Outcome
  <2>4. CASE Send(g)
    <3>0. PICK r \in Requests : r = row[g]
      BY <2>4 DEF Send, HoldersInv
    <3>1. calls[r] > 0 /\ sends[r] = 0 /\ Outcome(r) \in {"none", "unknown"}
      BY <2>4, <3>0 DEF Send, HoldersInv, Holding
    <3>2. \A q \in Requests : Outcome(q)' = Outcome(q)
      BY <2>4 DEF Send, Outcome
    <3>3. Promise!Attempt(r)
      BY <2>4, <3>0, <3>1, <3>2 DEF Send, Promise!Attempt
    <3> QED
      BY <3>1, <3>3 DEF Promise!Next
  <2>5. ASSUME NEW result \in {"delivered", "failed"}, Finish(g, result)
        PROVE  [Promise!Next]_Promise!vars
    <3>0. PICK r \in Requests : r = row[g]
      BY <2>5 DEF Finish, HoldersInv
    <3>1. calls[r] > 0 /\ sends[r] = 1 /\ UNCHANGED <<calls, sends>>
      BY <2>5, <3>0 DEF Finish, HoldersInv, Holding
    <3>2. Transaction(Finished(g, result))
      BY <2>5, Transactions
    <3>3. CASE status[r] = "delivering" /\ owner[r] = g
      <4>1. /\ Outcome(r) = "none" /\ Outcome(r)' = result
            /\ \A q \in Requests \ {r} : Outcome(q)' = Outcome(q)
        BY <3>0, <3>2, <3>3 DEF Transaction, Finished, Outcome
      <4>2. [q \in Requests |-> Outcome(q)]'
              = [[q \in Requests |-> Outcome(q)] EXCEPT ![r] = result]
        BY <4>1, Zenon
      <4>3. Promise!Settle(r, result)
        BY <3>1, <4>1, <4>2 DEF Promise!Settle
      <4> QED
        BY <4>3 DEF Promise!Next
    <3>4. CASE ~(status[r] = "delivering" /\ owner[r] = g)
      <4>1. \A q \in Requests : Outcome(q)' = Outcome(q)
        BY <3>0, <3>2, <3>4 DEF Transaction, Finished, Outcome
      <4> QED
        BY <1>1, <3>1, <4>1
    <3> QED
      BY <3>3, <3>4
  <2> QED
    BY <1>7, <2>1, <2>2, <2>3, <2>4, <2>5 DEF Drain
<1>8. ASSUME NEW g \in Gateways, Die(g) PROVE [Promise!Next]_Promise!vars
  BY <1>1, <1>8 DEF Die, Outcome
<1>9. CASE UNCHANGED vars
  BY <1>1, <1>9 DEF vars, Outcome
<1> QED
  BY <1>3, <1>4, <1>6, <1>7, <1>8, <1>9 DEF Next

\* The queue keeps the promise of its header: whatever dies or is pruned, no
\* message leaves twice and no outcome changes.
THEOREM QueueKeepsItsPromise == Spec => AtMostOneSend
<1> QED
  BY DeliveryInvariant, InitRefines, StepRefines, PTL DEF Spec, AtMostOneSend, Promise!Spec

=============================================================================
