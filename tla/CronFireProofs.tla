--------------------------- MODULE CronFireProofs ---------------------------
(***************************************************************************)
(* Proofs about CronFire for every number of attempts and gateways, with   *)
(* and without external workers: its inductive invariant, and the four     *)
(* safety properties that rest on it.                                      *)
(***************************************************************************)
EXTENDS CronFire, TLAPS

USE MaxRunsAssumption, GatewaysAssumption, NobodyAssumption, DirectAssumption
    DEF claimVars, jobVars, ledgerVars, birthVars, processVars, effectVars, NoRun, Goto

\* What is told of one attempt stays true when nothing of it changes.
LEMMA Untouched ==
  ASSUME NEW f \in Runs, LedgerOK(f),
         pc'[f] = pc[f], status'[f] = status[f], handoff'[f] = handoff[f],
         adopted'[f] = adopted[f], by'[f] = by[f], worker'[f] = worker[f],
         starts'[f] = starts[f], sent'[f] = sent[f], f \in marked => f \in marked',
         alive[by[f]] => alive'[by[f]]
  PROVE  LedgerOK(f)'
BY DEF LedgerOK

\* Every action keeps the types.
LEMMA TypeKept == FireInv /\ [Next]_vars => TypeOK'
<1>. SUFFICES ASSUME FireInv, [Next]_vars PROVE TypeOK'
  OBVIOUS
<1>1. ASSUME NEW e \in Runs, NEW g \in Gateways, NEW registered \in BOOLEAN, Create(e, g, registered) PROVE TypeOK'
  BY <1>1 DEF FireInv, TypeOK, Create, Places, Open, Terminal
<1>2. ASSUME NEW e \in Runs, Claim(e) PROVE TypeOK'
  <2>1. claim' \in Runs \cup {NoRun} /\ turns' \in Nat
    BY <1>2 DEF FireInv, TypeOK, Claim
  <2>2. turn' \in [Runs -> Nat]
    BY <1>2 DEF FireInv, TypeOK, Claim
  <2>3. fresh' \in BOOLEAN
    BY <1>2 DEF FireInv, TypeOK, Claim
  <2>4. pc' \in [Runs -> Places]
    BY <1>2 DEF FireInv, TypeOK, Claim, Places
  <2>. QED
    BY <1>2, <2>1, <2>2, <2>3, <2>4 DEF FireInv, TypeOK, Claim
<1>3. ASSUME NEW e \in Runs, HandOff(e) PROVE TypeOK'
  BY <1>3 DEF FireInv, TypeOK, HandOff, Places, Open, Terminal
<1>4. ASSUME NEW e \in Runs, Spawn(e) PROVE TypeOK'
  BY <1>4 DEF FireInv, TypeOK, Spawn, Places, Open, Terminal
<1>5. ASSUME NEW e \in Runs, LaunchFails(e) PROVE TypeOK'
  BY <1>5 DEF FireInv, TypeOK, LaunchFails, Places, Open, Terminal
<1>6. ASSUME NEW e \in Runs, Adopt(e) PROVE TypeOK'
  BY <1>6 DEF FireInv, TypeOK, Adopt, Places, Open, Terminal
<1>7. ASSUME NEW e \in Runs, WaiterEnds(e) PROVE TypeOK'
  BY <1>7 DEF FireInv, TypeOK, WaiterEnds, Places, Open, Terminal
<1>8. ASSUME NEW e \in Runs, RecordLaunchFailure(e) PROVE TypeOK'
  BY <1>8 DEF FireInv, TypeOK, RecordLaunchFailure, MarkJobRun, Stamp, Refuse, Places, Open, Terminal
<1>9. ASSUME NEW e \in Runs, Validate(e) PROVE TypeOK'
  BY <1>9 DEF FireInv, TypeOK, Validate, Places, Open, Terminal
<1>10. ASSUME NEW e \in Runs, Start(e) PROVE TypeOK'
  BY <1>10 DEF FireInv, TypeOK, Start, Places, Open, Terminal
<1>11. ASSUME NEW e \in Runs, RunEnds(e) PROVE TypeOK'
  BY <1>11 DEF FireInv, TypeOK, RunEnds, Kept, Lost, Places, Open, Terminal
<1>12. ASSUME NEW e \in Runs, Save(e) PROVE TypeOK'
  BY <1>12 DEF FireInv, TypeOK, Save, Places, Open, Terminal
<1>13. ASSUME NEW e \in Runs, Deliver(e) PROVE TypeOK'
  <2>1. sent' \in [Runs -> Nat]
    BY <1>13 DEF FireInv, TypeOK, Deliver, Kept, Lost, HandOver
  <2>2. fresh' \in BOOLEAN /\ lost' \in [Runs -> BOOLEAN] /\ fence' \in Runs \cup {NoRun}
    BY <1>13 DEF FireInv, TypeOK, Deliver, Kept, Lost, HandOver
  <2>3. pc' \in [Runs -> Places]
    BY <1>13 DEF FireInv, TypeOK, Deliver, Kept, Lost, HandOver, Places
  <2>. QED
    BY <1>13, <2>1, <2>2, <2>3 DEF FireInv, TypeOK, Deliver
<1>14. ASSUME NEW e \in Runs, DeliveryEnds(e) PROVE TypeOK'
  BY <1>14 DEF FireInv, TypeOK, DeliveryEnds, Places, Open, Terminal
<1>15. ASSUME NEW e \in Runs, Check(e) PROVE TypeOK'
  BY <1>15 DEF FireInv, TypeOK, Check, Kept, Lost, Places, Open, Terminal
<1>16. ASSUME NEW e \in Runs, Mark(e) PROVE TypeOK'
  BY <1>16 DEF FireInv, TypeOK, Mark, Stamp, Refuse, Places, Open, Terminal
<1>17. ASSUME NEW e \in Runs, Raise(e) PROVE TypeOK'
  BY <1>17 DEF FireInv, TypeOK, Raise, Places, Open, Terminal
<1>18. ASSUME NEW e \in Runs, Notify(e) PROVE TypeOK'
  <2>1. sent' \in [Runs -> Nat]
    BY <1>18 DEF FireInv, TypeOK, Notify, Kept, HandOver
  <2>2. fresh' \in BOOLEAN /\ lost' \in [Runs -> BOOLEAN] /\ fence' \in Runs \cup {NoRun}
    BY <1>18 DEF FireInv, TypeOK, Notify, Kept, HandOver
  <2>3. pc' \in [Runs -> Places]
    BY <1>18 DEF FireInv, TypeOK, Notify, Kept, HandOver, Places
  <2>. QED
    BY <1>18, <2>1, <2>2, <2>3 DEF FireInv, TypeOK, Notify
<1>19. ASSUME NEW e \in Runs, NoticeEnds(e) PROVE TypeOK'
  BY <1>19 DEF FireInv, TypeOK, NoticeEnds, Places, Open, Terminal
<1>20. ASSUME NEW e \in Runs, RecordFailure(e) PROVE TypeOK'
  BY <1>20 DEF FireInv, TypeOK, RecordFailure, MarkJobRun, Stamp, Refuse, Places, Open, Terminal
<1>21. ASSUME NEW e \in Runs, Finish(e) PROVE TypeOK'
  BY <1>21 DEF FireInv, TypeOK, Finish, Places, Open, Terminal
<1>22. ASSUME NEW e \in Runs, FinishFails(e) PROVE TypeOK'
  BY <1>22 DEF FireInv, TypeOK, FinishFails, Places, Open, Terminal
<1>23. ASSUME NEW e \in Runs, GraceEnds(e) PROVE TypeOK'
  BY <1>23 DEF FireInv, TypeOK, GraceEnds, Places, Open, Terminal
<1>24. ASSUME NEW e \in Runs, WorkerDies(e) PROVE TypeOK'
  BY <1>24 DEF FireInv, TypeOK, WorkerDies, Places, Open, Terminal
<1>25. ASSUME NEW g \in Gateways, Recover(g) PROVE TypeOK'
  BY <1>25 DEF FireInv, TypeOK, Recover, Abandoned, Places, Open, Terminal
<1>26. ASSUME NEW g \in Gateways, GatewayDies(g) PROVE TypeOK'
  BY <1>26 DEF FireInv, TypeOK, GatewayDies, Places, Open, Terminal
<1>27. CASE Expire
  BY <1>27 DEF FireInv, TypeOK, Expire, Places, Open, Terminal
<1>28. CASE UNCHANGED vars
  BY <1>28 DEF FireInv, TypeOK, vars, Places, Open, Terminal
<1>. QED
  BY <1>1, <1>2, <1>3, <1>4, <1>5, <1>6, <1>7, <1>8, <1>9, <1>10, <1>11, <1>12, <1>13, <1>14, <1>15, <1>16, <1>17, <1>18, <1>19, <1>20, <1>21, <1>22, <1>23, <1>24, <1>25, <1>26, <1>27, <1>28
     DEF Next, Step

\* The claim stays where the fence is: who takes it takes the fence first, and
\* a delivery starts only with both.
LEMMA FenceKept == FireInv /\ [Next]_vars => FenceInv'
<1>. SUFFICES ASSUME FireInv, [Next]_vars PROVE FenceInv'
  OBVIOUS
<1>1. ASSUME NEW e \in Runs, NEW g \in Gateways, NEW registered \in BOOLEAN, Create(e, g, registered) PROVE FenceInv'
  BY <1>1 DEF FireInv, TypeOK, FenceInv, Create
<1>2. ASSUME NEW e \in Runs, Claim(e) PROVE FenceInv'
  BY <1>2 DEF FireInv, TypeOK, FenceInv, Claim
<1>3. ASSUME NEW e \in Runs, HandOff(e) PROVE FenceInv'
  BY <1>3 DEF FireInv, TypeOK, FenceInv, HandOff
<1>4. ASSUME NEW e \in Runs, Spawn(e) PROVE FenceInv'
  BY <1>4 DEF FireInv, TypeOK, FenceInv, Spawn
<1>5. ASSUME NEW e \in Runs, LaunchFails(e) PROVE FenceInv'
  BY <1>5 DEF FireInv, TypeOK, FenceInv, LaunchFails
<1>6. ASSUME NEW e \in Runs, Adopt(e) PROVE FenceInv'
  BY <1>6 DEF FireInv, TypeOK, FenceInv, Adopt
<1>7. ASSUME NEW e \in Runs, WaiterEnds(e) PROVE FenceInv'
  BY <1>7 DEF FireInv, TypeOK, FenceInv, LedgerInv, LedgerOK, Early, Body, WaiterEnds
<1>8. ASSUME NEW e \in Runs, RecordLaunchFailure(e) PROVE FenceInv'
  BY <1>8 DEF FireInv, TypeOK, FenceInv, RecordLaunchFailure, MarkJobRun, Stamp, Refuse
<1>9. ASSUME NEW e \in Runs, Validate(e) PROVE FenceInv'
  BY <1>9 DEF FireInv, TypeOK, FenceInv, Validate
<1>10. ASSUME NEW e \in Runs, Start(e) PROVE FenceInv'
  BY <1>10 DEF FireInv, TypeOK, FenceInv, Start
<1>11. ASSUME NEW e \in Runs, RunEnds(e) PROVE FenceInv'
  BY <1>11 DEF FireInv, TypeOK, FenceInv, RunEnds, Kept, Lost
<1>12. ASSUME NEW e \in Runs, Save(e) PROVE FenceInv'
  BY <1>12 DEF FireInv, TypeOK, FenceInv, Save
<1>13. ASSUME NEW e \in Runs, Deliver(e) PROVE FenceInv'
  <2>1. CASE UNCHANGED fence /\ pc'[e] \in {"composed", "lost"}
    BY <1>13, <2>1 DEF FireInv, TypeOK, FenceInv, Deliver
  <2>2. CASE claim = e /\ fence' = e /\ pc'[e] = "delivering"
    <3>1. fence = NoRun
      BY <1>13, <2>2 DEF FireInv, TypeOK, FenceInv, Deliver
    <3>2. claim' = e /\ pc' = [pc EXCEPT ![e] = "delivering"]
      BY <1>13, <2>2 DEF Deliver, FireInv, TypeOK
    <3>. QED
      BY <2>2, <3>1, <3>2 DEF FireInv, TypeOK, FenceInv, Runs
  <2>. QED
    BY <1>13, <2>1, <2>2 DEF Deliver, FireInv, TypeOK
<1>14. ASSUME NEW e \in Runs, DeliveryEnds(e) PROVE FenceInv'
  BY <1>14 DEF FireInv, TypeOK, FenceInv, Runs, DeliveryEnds
<1>15. ASSUME NEW e \in Runs, Check(e) PROVE FenceInv'
  BY <1>15 DEF FireInv, TypeOK, FenceInv, Check, Kept, Lost
<1>16. ASSUME NEW e \in Runs, Mark(e) PROVE FenceInv'
  BY <1>16 DEF FireInv, TypeOK, FenceInv, Mark, Stamp, Refuse
<1>17. ASSUME NEW e \in Runs, Raise(e) PROVE FenceInv'
  BY <1>17 DEF FireInv, TypeOK, FenceInv, Runs, Raise
<1>18. ASSUME NEW e \in Runs, Notify(e) PROVE FenceInv'
  BY <1>18 DEF FireInv, TypeOK, FenceInv, Notify, Kept, HandOver
<1>19. ASSUME NEW e \in Runs, NoticeEnds(e) PROVE FenceInv'
  BY <1>19 DEF FireInv, TypeOK, FenceInv, NoticeEnds
<1>20. ASSUME NEW e \in Runs, RecordFailure(e) PROVE FenceInv'
  BY <1>20 DEF FireInv, TypeOK, FenceInv, RecordFailure, MarkJobRun, Stamp, Refuse
<1>21. ASSUME NEW e \in Runs, Finish(e) PROVE FenceInv'
  BY <1>21 DEF FireInv, TypeOK, FenceInv, Finish
<1>22. ASSUME NEW e \in Runs, FinishFails(e) PROVE FenceInv'
  BY <1>22 DEF FireInv, TypeOK, FenceInv, FinishFails
<1>23. ASSUME NEW e \in Runs, GraceEnds(e) PROVE FenceInv'
  BY <1>23 DEF FireInv, TypeOK, FenceInv, GraceEnds
<1>24. ASSUME NEW e \in Runs, WorkerDies(e) PROVE FenceInv'
  BY <1>24 DEF FireInv, TypeOK, FenceInv, Runs, LedgerInv, LedgerOK, Early, Body, WorkerDies
<1>25. ASSUME NEW g \in Gateways, Recover(g) PROVE FenceInv'
  BY <1>25 DEF FireInv, TypeOK, FenceInv, Recover, Abandoned
<1>26. ASSUME NEW g \in Gateways, GatewayDies(g) PROVE FenceInv'
  BY <1>26 DEF FireInv, TypeOK, FenceInv, Runs, LedgerInv, LedgerOK, Early, Body, GatewayDies
<1>27. CASE Expire
  BY <1>27 DEF FireInv, TypeOK, FenceInv, Expire
<1>28. CASE UNCHANGED vars
  BY <1>28 DEF FireInv, TypeOK, FenceInv, vars
<1>. QED
  BY <1>1, <1>2, <1>3, <1>4, <1>5, <1>6, <1>7, <1>8, <1>9, <1>10, <1>11, <1>12, <1>13, <1>14, <1>15, <1>16, <1>17, <1>18, <1>19, <1>20, <1>21, <1>22, <1>23, <1>24, <1>25, <1>26, <1>27, <1>28
     DEF Next, Step

\* Claims are taken in turn, and only the latest is recorded.
LEMMA TurnsKept == FireInv /\ [Next]_vars => TurnsInv'
<1>. SUFFICES ASSUME FireInv, [Next]_vars PROVE TurnsInv'
  OBVIOUS
<1>1. ASSUME NEW e \in Runs, NEW g \in Gateways, NEW registered \in BOOLEAN, Create(e, g, registered) PROVE TurnsInv'
  BY <1>1 DEF FireInv, TypeOK, TurnsInv, Create
<1>2. ASSUME NEW e \in Runs, Claim(e) PROVE TurnsInv'
  BY <1>2 DEF FireInv, TypeOK, TurnsInv, Claim
<1>3. ASSUME NEW e \in Runs, HandOff(e) PROVE TurnsInv'
  BY <1>3 DEF FireInv, TypeOK, TurnsInv, HandOff
<1>4. ASSUME NEW e \in Runs, Spawn(e) PROVE TurnsInv'
  BY <1>4 DEF FireInv, TypeOK, TurnsInv, Spawn
<1>5. ASSUME NEW e \in Runs, LaunchFails(e) PROVE TurnsInv'
  BY <1>5 DEF FireInv, TypeOK, TurnsInv, LaunchFails
<1>6. ASSUME NEW e \in Runs, Adopt(e) PROVE TurnsInv'
  BY <1>6 DEF FireInv, TypeOK, TurnsInv, Adopt
<1>7. ASSUME NEW e \in Runs, WaiterEnds(e) PROVE TurnsInv'
  BY <1>7 DEF FireInv, TypeOK, TurnsInv, WaiterEnds
<1>8. ASSUME NEW e \in Runs, RecordLaunchFailure(e) PROVE TurnsInv'
  BY <1>8 DEF FireInv, TypeOK, TurnsInv, RecordLaunchFailure, MarkJobRun, Stamp, Refuse
<1>9. ASSUME NEW e \in Runs, Validate(e) PROVE TurnsInv'
  BY <1>9 DEF FireInv, TypeOK, TurnsInv, Validate
<1>10. ASSUME NEW e \in Runs, Start(e) PROVE TurnsInv'
  BY <1>10 DEF FireInv, TypeOK, TurnsInv, Start
<1>11. ASSUME NEW e \in Runs, RunEnds(e) PROVE TurnsInv'
  BY <1>11 DEF FireInv, TypeOK, TurnsInv, RunEnds, Kept, Lost
<1>12. ASSUME NEW e \in Runs, Save(e) PROVE TurnsInv'
  BY <1>12 DEF FireInv, TypeOK, TurnsInv, Save
<1>13. ASSUME NEW e \in Runs, Deliver(e) PROVE TurnsInv'
  BY <1>13 DEF FireInv, TypeOK, TurnsInv, Deliver, Kept, Lost, HandOver
<1>14. ASSUME NEW e \in Runs, DeliveryEnds(e) PROVE TurnsInv'
  BY <1>14 DEF FireInv, TypeOK, TurnsInv, DeliveryEnds
<1>15. ASSUME NEW e \in Runs, Check(e) PROVE TurnsInv'
  BY <1>15 DEF FireInv, TypeOK, TurnsInv, Check, Kept, Lost
<1>16. ASSUME NEW e \in Runs, Mark(e) PROVE TurnsInv'
  BY <1>16 DEF FireInv, TypeOK, TurnsInv, Mark, Stamp, Refuse
<1>17. ASSUME NEW e \in Runs, Raise(e) PROVE TurnsInv'
  BY <1>17 DEF FireInv, TypeOK, TurnsInv, Raise
<1>18. ASSUME NEW e \in Runs, Notify(e) PROVE TurnsInv'
  BY <1>18 DEF FireInv, TypeOK, TurnsInv, Notify, Kept, HandOver
<1>19. ASSUME NEW e \in Runs, NoticeEnds(e) PROVE TurnsInv'
  BY <1>19 DEF FireInv, TypeOK, TurnsInv, NoticeEnds
<1>20. ASSUME NEW e \in Runs, RecordFailure(e) PROVE TurnsInv'
  BY <1>20 DEF FireInv, TypeOK, TurnsInv, RecordFailure, MarkJobRun, Stamp, Refuse
<1>21. ASSUME NEW e \in Runs, Finish(e) PROVE TurnsInv'
  BY <1>21 DEF FireInv, TypeOK, TurnsInv, Finish
<1>22. ASSUME NEW e \in Runs, FinishFails(e) PROVE TurnsInv'
  BY <1>22 DEF FireInv, TypeOK, TurnsInv, FinishFails
<1>23. ASSUME NEW e \in Runs, GraceEnds(e) PROVE TurnsInv'
  BY <1>23 DEF FireInv, TypeOK, TurnsInv, GraceEnds
<1>24. ASSUME NEW e \in Runs, WorkerDies(e) PROVE TurnsInv'
  BY <1>24 DEF FireInv, TypeOK, TurnsInv, WorkerDies
<1>25. ASSUME NEW g \in Gateways, Recover(g) PROVE TurnsInv'
  BY <1>25 DEF FireInv, TypeOK, TurnsInv, Recover, Abandoned
<1>26. ASSUME NEW g \in Gateways, GatewayDies(g) PROVE TurnsInv'
  BY <1>26 DEF FireInv, TypeOK, TurnsInv, GatewayDies
<1>27. CASE Expire
  BY <1>27 DEF FireInv, TypeOK, TurnsInv, Expire
<1>28. CASE UNCHANGED vars
  BY <1>28 DEF FireInv, TypeOK, TurnsInv, vars
<1>. QED
  BY <1>1, <1>2, <1>3, <1>4, <1>5, <1>6, <1>7, <1>8, <1>9, <1>10, <1>11, <1>12, <1>13, <1>14, <1>15, <1>16, <1>17, <1>18, <1>19, <1>20, <1>21, <1>22, <1>23, <1>24, <1>25, <1>26, <1>27, <1>28
     DEF Next, Step

\* A row stays open as long as the attempt is under way: recovery looks only
\* at rows whose process is gone, and a death takes the attempt with it.
LEMMA LedgerKept == FireInv /\ [Next]_vars => LedgerInv'
<1>. SUFFICES ASSUME FireInv, [Next]_vars PROVE LedgerInv'
  OBVIOUS
<1>1. ASSUME NEW e \in Runs, NEW g \in Gateways, NEW registered \in BOOLEAN, Create(e, g, registered) PROVE LedgerInv'
  <2>. SUFFICES ASSUME NEW f \in Runs PROVE LedgerOK(f)'
    BY DEF LedgerInv
  <2>1. CASE f = e
    BY <1>1, <2>1 DEF FireInv, TypeOK, LedgerInv, LedgerOK, Early, Body, Create, Open, Terminal
  <2>2. CASE f # e
    BY <1>1, <2>2, Untouched DEF FireInv, TypeOK, LedgerInv, Create
  <2>. QED
    BY <2>1, <2>2
<1>2. ASSUME NEW e \in Runs, Claim(e) PROVE LedgerInv'
  <2>. SUFFICES ASSUME NEW f \in Runs PROVE LedgerOK(f)'
    BY DEF LedgerInv
  <2>1. CASE f = e
    BY <1>2, <2>1 DEF FireInv, TypeOK, LedgerInv, LedgerOK, Early, Body, Claim, Open, Terminal
  <2>2. CASE f # e
    BY <1>2, <2>2, Untouched DEF FireInv, TypeOK, LedgerInv, Claim
  <2>. QED
    BY <2>1, <2>2
<1>3. ASSUME NEW e \in Runs, HandOff(e) PROVE LedgerInv'
  <2>. SUFFICES ASSUME NEW f \in Runs PROVE LedgerOK(f)'
    BY DEF LedgerInv
  <2>1. CASE f = e
    BY <1>3, <2>1 DEF FireInv, TypeOK, LedgerInv, LedgerOK, Early, Body, HandOff, Open, Terminal
  <2>2. CASE f # e
    BY <1>3, <2>2, Untouched DEF FireInv, TypeOK, LedgerInv, HandOff
  <2>. QED
    BY <2>1, <2>2
<1>4. ASSUME NEW e \in Runs, Spawn(e) PROVE LedgerInv'
  <2>. SUFFICES ASSUME NEW f \in Runs PROVE LedgerOK(f)'
    BY DEF LedgerInv
  <2>1. CASE f = e
    BY <1>4, <2>1 DEF FireInv, TypeOK, LedgerInv, LedgerOK, Early, Body, Spawn, Open, Terminal
  <2>2. CASE f # e
    BY <1>4, <2>2, Untouched DEF FireInv, TypeOK, LedgerInv, Spawn
  <2>. QED
    BY <2>1, <2>2
<1>5. ASSUME NEW e \in Runs, LaunchFails(e) PROVE LedgerInv'
  <2>. SUFFICES ASSUME NEW f \in Runs PROVE LedgerOK(f)'
    BY DEF LedgerInv
  <2>1. CASE f = e
    BY <1>5, <2>1 DEF FireInv, TypeOK, LedgerInv, LedgerOK, Early, Body, LaunchFails, Open, Terminal
  <2>2. CASE f # e
    BY <1>5, <2>2, Untouched DEF FireInv, TypeOK, LedgerInv, LaunchFails
  <2>. QED
    BY <2>1, <2>2
<1>6. ASSUME NEW e \in Runs, Adopt(e) PROVE LedgerInv'
  <2>. SUFFICES ASSUME NEW f \in Runs PROVE LedgerOK(f)'
    BY DEF LedgerInv
  <2>1. CASE f = e
    BY <1>6, <2>1 DEF FireInv, TypeOK, LedgerInv, LedgerOK, Early, Body, Adopt, Open, Terminal
  <2>2. CASE f # e
    BY <1>6, <2>2, Untouched DEF FireInv, TypeOK, LedgerInv, Adopt
  <2>. QED
    BY <2>1, <2>2
<1>7. ASSUME NEW e \in Runs, WaiterEnds(e) PROVE LedgerInv'
  <2>. SUFFICES ASSUME NEW f \in Runs PROVE LedgerOK(f)'
    BY DEF LedgerInv
  <2>1. CASE f = e
    BY <1>7, <2>1 DEF FireInv, TypeOK, LedgerInv, LedgerOK, Early, Body, WaiterEnds, Open, Terminal
  <2>2. CASE f # e
    BY <1>7, <2>2, Untouched DEF FireInv, TypeOK, LedgerInv, WaiterEnds
  <2>. QED
    BY <2>1, <2>2
<1>8. ASSUME NEW e \in Runs, RecordLaunchFailure(e) PROVE LedgerInv'
  <2>. SUFFICES ASSUME NEW f \in Runs PROVE LedgerOK(f)'
    BY DEF LedgerInv
  <2>1. CASE f = e
    BY <1>8, <2>1 DEF FireInv, TypeOK, LedgerInv, LedgerOK, Early, Body, RecordLaunchFailure, MarkJobRun, Stamp, Refuse, Open, Terminal
  <2>2. CASE f # e
    BY <1>8, <2>2, Untouched DEF FireInv, TypeOK, LedgerInv, RecordLaunchFailure, MarkJobRun, Stamp, Refuse
  <2>. QED
    BY <2>1, <2>2
<1>9. ASSUME NEW e \in Runs, Validate(e) PROVE LedgerInv'
  <2>. SUFFICES ASSUME NEW f \in Runs PROVE LedgerOK(f)'
    BY DEF LedgerInv
  <2>1. CASE f = e
    BY <1>9, <2>1 DEF FireInv, TypeOK, LedgerInv, LedgerOK, Early, Body, Validate, Open, Terminal
  <2>2. CASE f # e
    BY <1>9, <2>2, Untouched DEF FireInv, TypeOK, LedgerInv, Validate
  <2>. QED
    BY <2>1, <2>2
<1>10. ASSUME NEW e \in Runs, Start(e) PROVE LedgerInv'
  <2>. SUFFICES ASSUME NEW f \in Runs PROVE LedgerOK(f)'
    BY DEF LedgerInv
  <2>1. CASE f = e
    BY <1>10, <2>1 DEF FireInv, TypeOK, LedgerInv, LedgerOK, Early, Body, Start, Open, Terminal
  <2>2. CASE f # e
    BY <1>10, <2>2, Untouched DEF FireInv, TypeOK, LedgerInv, Start
  <2>. QED
    BY <2>1, <2>2
<1>11. ASSUME NEW e \in Runs, RunEnds(e) PROVE LedgerInv'
  <2>. SUFFICES ASSUME NEW f \in Runs PROVE LedgerOK(f)'
    BY DEF LedgerInv
  <2>1. CASE f = e
    BY <1>11, <2>1 DEF FireInv, TypeOK, LedgerInv, LedgerOK, Early, Body, RunEnds, Kept, Lost, Open, Terminal
  <2>2. CASE f # e
    BY <1>11, <2>2, Untouched DEF FireInv, TypeOK, LedgerInv, RunEnds, Kept, Lost
  <2>. QED
    BY <2>1, <2>2
<1>12. ASSUME NEW e \in Runs, Save(e) PROVE LedgerInv'
  <2>. SUFFICES ASSUME NEW f \in Runs PROVE LedgerOK(f)'
    BY DEF LedgerInv
  <2>1. CASE f = e
    BY <1>12, <2>1 DEF FireInv, TypeOK, LedgerInv, LedgerOK, Early, Body, Save, Open, Terminal
  <2>2. CASE f # e
    BY <1>12, <2>2, Untouched DEF FireInv, TypeOK, LedgerInv, Save
  <2>. QED
    BY <2>1, <2>2
<1>13. ASSUME NEW e \in Runs, Deliver(e) PROVE LedgerInv'
  <2>. SUFFICES ASSUME NEW f \in Runs PROVE LedgerOK(f)'
    BY DEF LedgerInv
  <2>1. CASE f = e
    BY <1>13, <2>1 DEF FireInv, TypeOK, LedgerInv, LedgerOK, Early, Body, Deliver, Kept, Lost, HandOver, Open, Terminal
  <2>2. CASE f # e
    BY <1>13, <2>2, Untouched DEF FireInv, TypeOK, LedgerInv, Deliver, Kept, Lost, HandOver
  <2>. QED
    BY <2>1, <2>2
<1>14. ASSUME NEW e \in Runs, DeliveryEnds(e) PROVE LedgerInv'
  <2>. SUFFICES ASSUME NEW f \in Runs PROVE LedgerOK(f)'
    BY DEF LedgerInv
  <2>1. CASE f = e
    BY <1>14, <2>1 DEF FireInv, TypeOK, LedgerInv, LedgerOK, Early, Body, DeliveryEnds, Open, Terminal
  <2>2. CASE f # e
    BY <1>14, <2>2, Untouched DEF FireInv, TypeOK, LedgerInv, DeliveryEnds
  <2>. QED
    BY <2>1, <2>2
<1>15. ASSUME NEW e \in Runs, Check(e) PROVE LedgerInv'
  <2>. SUFFICES ASSUME NEW f \in Runs PROVE LedgerOK(f)'
    BY DEF LedgerInv
  <2>1. CASE f = e
    BY <1>15, <2>1 DEF FireInv, TypeOK, LedgerInv, LedgerOK, Early, Body, Check, Kept, Lost, Open, Terminal
  <2>2. CASE f # e
    BY <1>15, <2>2, Untouched DEF FireInv, TypeOK, LedgerInv, Check, Kept, Lost
  <2>. QED
    BY <2>1, <2>2
<1>16. ASSUME NEW e \in Runs, Mark(e) PROVE LedgerInv'
  <2>. SUFFICES ASSUME NEW f \in Runs PROVE LedgerOK(f)'
    BY DEF LedgerInv
  <2>1. CASE f = e
    BY <1>16, <2>1 DEF FireInv, TypeOK, LedgerInv, LedgerOK, Early, Body, Mark, Stamp, Refuse, Open, Terminal
  <2>2. CASE f # e
    BY <1>16, <2>2, Untouched DEF FireInv, TypeOK, LedgerInv, Mark, Stamp, Refuse
  <2>. QED
    BY <2>1, <2>2
<1>17. ASSUME NEW e \in Runs, Raise(e) PROVE LedgerInv'
  <2>. SUFFICES ASSUME NEW f \in Runs PROVE LedgerOK(f)'
    BY DEF LedgerInv
  <2>1. CASE f = e
    BY <1>17, <2>1 DEF FireInv, TypeOK, LedgerInv, LedgerOK, Early, Body, Raise, Open, Terminal
  <2>2. CASE f # e
    BY <1>17, <2>2, Untouched DEF FireInv, TypeOK, LedgerInv, Raise
  <2>. QED
    BY <2>1, <2>2
<1>18. ASSUME NEW e \in Runs, Notify(e) PROVE LedgerInv'
  <2>. SUFFICES ASSUME NEW f \in Runs PROVE LedgerOK(f)'
    BY DEF LedgerInv
  <2>1. CASE f = e
    BY <1>18, <2>1 DEF FireInv, TypeOK, LedgerInv, LedgerOK, Early, Body, Notify, Kept, HandOver, Open, Terminal
  <2>2. CASE f # e
    BY <1>18, <2>2, Untouched DEF FireInv, TypeOK, LedgerInv, Notify, Kept, HandOver
  <2>. QED
    BY <2>1, <2>2
<1>19. ASSUME NEW e \in Runs, NoticeEnds(e) PROVE LedgerInv'
  <2>. SUFFICES ASSUME NEW f \in Runs PROVE LedgerOK(f)'
    BY DEF LedgerInv
  <2>1. CASE f = e
    BY <1>19, <2>1 DEF FireInv, TypeOK, LedgerInv, LedgerOK, Early, Body, NoticeEnds, Open, Terminal
  <2>2. CASE f # e
    BY <1>19, <2>2, Untouched DEF FireInv, TypeOK, LedgerInv, NoticeEnds
  <2>. QED
    BY <2>1, <2>2
<1>20. ASSUME NEW e \in Runs, RecordFailure(e) PROVE LedgerInv'
  <2>. SUFFICES ASSUME NEW f \in Runs PROVE LedgerOK(f)'
    BY DEF LedgerInv
  <2>1. CASE f = e
    BY <1>20, <2>1 DEF FireInv, TypeOK, LedgerInv, LedgerOK, Early, Body, RecordFailure, MarkJobRun, Stamp, Refuse, Open, Terminal
  <2>2. CASE f # e
    BY <1>20, <2>2, Untouched DEF FireInv, TypeOK, LedgerInv, RecordFailure, MarkJobRun, Stamp, Refuse
  <2>. QED
    BY <2>1, <2>2
<1>21. ASSUME NEW e \in Runs, Finish(e) PROVE LedgerInv'
  <2>. SUFFICES ASSUME NEW f \in Runs PROVE LedgerOK(f)'
    BY DEF LedgerInv
  <2>1. CASE f = e
    BY <1>21, <2>1 DEF FireInv, TypeOK, LedgerInv, LedgerOK, Early, Body, Finish, Open, Terminal
  <2>2. CASE f # e
    BY <1>21, <2>2, Untouched DEF FireInv, TypeOK, LedgerInv, Finish
  <2>. QED
    BY <2>1, <2>2
<1>22. ASSUME NEW e \in Runs, FinishFails(e) PROVE LedgerInv'
  <2>. SUFFICES ASSUME NEW f \in Runs PROVE LedgerOK(f)'
    BY DEF LedgerInv
  <2>1. CASE f = e
    BY <1>22, <2>1 DEF FireInv, TypeOK, LedgerInv, LedgerOK, Early, Body, FinishFails, Open, Terminal
  <2>2. CASE f # e
    BY <1>22, <2>2, Untouched DEF FireInv, TypeOK, LedgerInv, FinishFails
  <2>. QED
    BY <2>1, <2>2
<1>23. ASSUME NEW e \in Runs, GraceEnds(e) PROVE LedgerInv'
  <2>. SUFFICES ASSUME NEW f \in Runs PROVE LedgerOK(f)'
    BY DEF LedgerInv
  <2>1. CASE f = e
    BY <1>23, <2>1 DEF FireInv, TypeOK, LedgerInv, LedgerOK, Early, Body, GraceEnds, Open, Terminal
  <2>2. CASE f # e
    BY <1>23, <2>2, Untouched DEF FireInv, TypeOK, LedgerInv, GraceEnds
  <2>. QED
    BY <2>1, <2>2
<1>24. ASSUME NEW e \in Runs, WorkerDies(e) PROVE LedgerInv'
  <2>. SUFFICES ASSUME NEW f \in Runs PROVE LedgerOK(f)'
    BY DEF LedgerInv
  <2>1. CASE f = e
    BY <1>24, <2>1 DEF FireInv, TypeOK, LedgerInv, LedgerOK, Early, Body, WorkerDies, Open, Terminal
  <2>2. CASE f # e
    BY <1>24, <2>2, Untouched DEF FireInv, TypeOK, LedgerInv, WorkerDies
  <2>. QED
    BY <2>1, <2>2
<1>25. ASSUME NEW g \in Gateways, Recover(g) PROVE LedgerInv'
  <2>. SUFFICES ASSUME NEW f \in Runs PROVE LedgerOK(f)'
    BY DEF LedgerInv
  <2>. QED
    BY <1>25 DEF FireInv, TypeOK, LedgerInv, LedgerOK, Early, Body, Recover, Abandoned, Open, Terminal
<1>26. ASSUME NEW g \in Gateways, GatewayDies(g) PROVE LedgerInv'
  <2>. SUFFICES ASSUME NEW f \in Runs PROVE LedgerOK(f)'
    BY DEF LedgerInv
  <2>. QED
    BY <1>26 DEF FireInv, TypeOK, LedgerInv, LedgerOK, Early, Body, GatewayDies, Open, Terminal
<1>27. CASE Expire
  <2>. SUFFICES ASSUME NEW f \in Runs PROVE LedgerOK(f)'
    BY DEF LedgerInv
  <2>. QED
    BY <1>27 DEF FireInv, TypeOK, LedgerInv, LedgerOK, Early, Body, Expire, Open, Terminal
<1>28. CASE UNCHANGED vars
  BY <1>28, Untouched DEF FireInv, LedgerInv, TypeOK, vars
<1>. QED
  BY <1>1, <1>2, <1>3, <1>4, <1>5, <1>6, <1>7, <1>8, <1>9, <1>10, <1>11, <1>12, <1>13, <1>14, <1>15, <1>16, <1>17, <1>18, <1>19, <1>20, <1>21, <1>22, <1>23, <1>24, <1>25, <1>26, <1>27, <1>28
     DEF Next, Step

-----------------------------------------------------------------------------
(* The theorems *)

\* The invariant holds at the start.
LEMMA InitFire == Init => FireInv
<1>. SUFFICES ASSUME Init PROVE FireInv
  OBVIOUS
<1>1. TypeOK
  BY DEF Init, TypeOK, Places
<1>2. FenceInv /\ TurnsInv
  BY DEF Init, FenceInv, TurnsInv, Runs
<1>3. LedgerInv
  BY DEF Init, LedgerInv, LedgerOK, Early, Body
<1>. QED
  BY <1>1, <1>2, <1>3 DEF FireInv

\* The claim, the fence, the job's record and the ledger always agree on which
\* run is under way (jobs.py:291-365, 2287, 2541; executions.py:137-309).
THEOREM FireInvariant == Spec => []FireInv
<1>1. FireInv /\ [Next]_vars => FireInv'
  BY TypeKept, FenceKept, TurnsKept, LedgerKept DEF FireInv
<1>. QED
  BY InitFire, <1>1, PTL DEF Spec

\* No two runs of a job deliver a result at once, none without the claim, and
\* none hands over a second message, be it the notice of its own crash, however
\* long processes stall and whichever die (scheduler.py:2667, 2937).
THEOREM DeliveriesAreAlone == Spec => []DeliversAlone
<1>1. FireInv => DeliversAlone
  BY DEF FireInv, TypeOK, FenceInv, LedgerInv, LedgerOK, DeliversAlone, Runs
<1>. QED
  BY FireInvariant, <1>1, PTL

\* Completed in the ledger means recorded on the job, across every death
\* between the two writes (scheduler.py:2721-2742).
THEOREM CompletedRunsAreMarked == Spec => []CompletedIsMarked
<1>1. FireInv => CompletedIsMarked
  BY DEF FireInv, LedgerInv, LedgerOK, CompletedIsMarked
<1>. QED
  BY FireInvariant, <1>1, PTL

\* A step that records a run on the job.
LEMMA RecordStep ==
  ASSUME FireInv, NEW e \in Runs, Stamp(e)
  PROVE  /\ claim = e /\ record' = e
         /\ record = NoRun \/ turn[e] > turn[record]
BY DEF FireInv, TypeOK, TurnsInv, Stamp, Runs

\* A run that was replaced never writes over the record of its replacement
\* (jobs.py:2305).
THEOREM RecordsAreInOrder == Spec => RecordsInOrder
<1>. DEFINE Later == record' # record =>
               /\ record = NoRun \/ turn[record'] > turn[record]
               /\ claim = record'
<1>1. FireInv /\ [Next]_vars => Later
  <2>. SUFFICES ASSUME FireInv, [Next]_vars, record' # record PROVE Later
    OBVIOUS
  <2>1. PICK e \in Runs : RecordLaunchFailure(e) \/ Mark(e) \/ RecordFailure(e)
    BY DEF Next, Step, vars, Create, Claim, HandOff, Spawn, LaunchFails, Adopt, WaiterEnds, Validate,
           Start, RunEnds, Save, Deliver, DeliveryEnds, Check, Raise, Notify, NoticeEnds,
           Finish, FinishFails, GraceEnds, WorkerDies, Recover, GatewayDies, Expire
  <2>2. Stamp(e)
    BY <2>1 DEF RecordLaunchFailure, Mark, RecordFailure, MarkJobRun, Refuse
  <2>. QED
    BY <2>2, RecordStep
<1>. QED
  BY FireInvariant, <1>1, PTL DEF Spec, RecordsInOrder

\* A settled attempt is over: no late worker, no second process and no
\* recovery touches it again, and no agent is started twice for one attempt
\* (executions.py:194-261).
THEOREM SettledRunsAreOver == Spec => SettledIsOver
<1>. DEFINE Over(f) == /\ status[f] \in Terminal => status'[f] = status[f] /\ starts'[f] = starts[f]
                       /\ starts'[f] <= 1
<1>1. ASSUME FireInv, FireInv', [Next]_vars, NEW f \in Runs PROVE Over(f)
  <2>1. starts'[f] <= 1
    BY <1>1 DEF FireInv, LedgerInv, LedgerOK
  <2>. SUFFICES ASSUME status[f] \in Terminal
                PROVE  status'[f] = status[f] /\ starts'[f] = starts[f]
    BY <2>1
  <2>. USE <1>1 DEF FireInv, TypeOK, LedgerInv, LedgerOK, Terminal, Open
  <2>2. ASSUME NEW e \in Runs, NEW g \in Gateways, NEW registered \in BOOLEAN,
               Create(e, g, registered)
        PROVE  status'[f] = status[f] /\ starts'[f] = starts[f]
    BY <2>2 DEF Create
  <2>3. ASSUME NEW e \in Runs, Adopt(e)
        PROVE  status'[f] = status[f] /\ starts'[f] = starts[f]
    BY <2>3 DEF Adopt
  <2>4. ASSUME NEW e \in Runs, Start(e)
        PROVE  status'[f] = status[f] /\ starts'[f] = starts[f]
    BY <2>4 DEF Start, Body
  <2>5. ASSUME NEW e \in Runs, Finish(e)
        PROVE  status'[f] = status[f] /\ starts'[f] = starts[f]
    BY <2>5 DEF Finish
  <2>6. ASSUME NEW g \in Gateways, Recover(g)
        PROVE  status'[f] = status[f] /\ starts'[f] = starts[f]
    BY <2>6 DEF Recover, Abandoned
  <2>7. CASE UNCHANGED <<status, starts>>
    BY <2>7
  <2>. QED
    BY <2>2, <2>3, <2>4, <2>5, <2>6, <2>7
       DEF Next, Step, vars, Claim, HandOff, Spawn, LaunchFails, WaiterEnds, RecordLaunchFailure,
           Validate, RunEnds, Save, Deliver, DeliveryEnds, Check, Mark, Raise, Notify, NoticeEnds,
           RecordFailure, FinishFails, GraceEnds, WorkerDies, GatewayDies, Expire
<1>2. FireInv /\ FireInv' /\ [Next]_vars =>
        [\A e \in Runs :
           /\ status[e] \in Terminal => status'[e] = status[e] /\ starts'[e] = starts[e]
           /\ starts'[e] <= 1]_vars
  BY <1>1
<1>. QED
  BY FireInvariant, <1>2, PTL DEF Spec, SettledIsOver

=============================================================================
