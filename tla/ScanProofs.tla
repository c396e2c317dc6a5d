----------------------------- MODULE ScanProofs -----------------------------
(***************************************************************************)
(* Proofs about ScanRun for any items, any number of scans and replays and *)
(* any bounds: its inductive invariant, that what is marked seen is on its *)
(* way to the platform, that no judgement changes its release, how often   *)
(* an item is written for delivery, that the matched are judged first, and *)
(* what a completed run has done.                                          *)
(***************************************************************************)
EXTENDS ScanRun, OldestFirst, TLAPS

USE ItemsAssumption, MaxReleaseAssumption, MaxAttemptsAssumption, MatchedAssumption,
    ScanBoundsAssumption, ProcessesAssumption

-----------------------------------------------------------------------------
(* The job table. *)

\* There are finitely many jobs.
LEMMA JobsAreFinite == \A S \in SUBSET JobIds : IsFiniteSet(S) /\ Cardinality(S) \in Nat
<1>1. IsFiniteSet(Releases)
  BY FS_Interval DEF Releases
<1>2. IsFiniteSet(JobIds)
  BY <1>1, FS_Product DEF JobIds
<1> QED
  BY <1>2, FS_Subset, FS_CardinalityType

\* So the place of a new row is a number.
LEMMA RowedIsCounted == Cardinality(Rowed) \in Nat
BY JobsAreFinite DEF Rowed

\* Whichever operation commits, the table keeps its shape and no attempt that
\* was counted is forgotten (jobs.py:53-110).
LEMMA JobOperations ==
  ASSUME JobsTypeOK, NEW j \in JobIds,
         EnqueueJob(j) \/ StartJob(j) \/ CompleteJob(j) \/ FailJob(j)
  PROVE  /\ JobsTypeOK'
         /\ \A q \in JobIds : jobs'[q].attempts >= jobs[q].attempts
<1> USE DEF JobsTypeOK, JobStates
<1>1. CASE EnqueueJob(j)
  BY <1>1, RowedIsCounted DEF EnqueueJob, jobVars
<1>2. CASE StartJob(j)
  BY <1>2 DEF StartJob
<1>3. CASE CompleteJob(j)
  BY <1>3 DEF CompleteJob
<1>4. CASE FailJob(j)
  BY <1>4 DEF FailJob
<1> QED
  BY <1>1, <1>2, <1>3, <1>4

\* start() counts the attempt before it is made (jobs.py:79-92).
LEMMA StartCounts ==
  ASSUME JobsTypeOK, NEW j \in JobIds, StartJob(j)
  PROVE  jobs'[j].attempts > 0
BY DEF JobsTypeOK, StartJob

\* A table nobody writes to keeps its shape and its counts.
LEMMA JobsIdle ==
  ASSUME JobsTypeOK, UNCHANGED jobVars
  PROVE  /\ JobsTypeOK'
         /\ \A q \in JobIds : jobs'[q].attempts >= jobs[q].attempts
BY DEF JobsTypeOK, jobVars

-----------------------------------------------------------------------------
(* The shape of the state. *)

LEMMA BlankIsLocals == Blank \in Locals
BY DEF Blank, Locals, Verdicts

\* The initial states have the right shape.
LEMMA InitTypeOK == Init => TypeOK
BY BlankIsLocals
   DEF Init, TypeOK, JobsInit, JobsTypeOK, JobStates, Releases, Finding, ScanPositions

\* A scan that changes its locals changes nobody else's.
LEMMA BecomeKeepsLocals ==
  ASSUME TypeOK, NEW s \in Scanners, NEW l \in Locals, Become(s, l)
  PROVE  /\ run' \in [Scanners -> Locals]
         /\ run'[s] = l
         /\ \A q \in Scanners \ {s} : run'[q] = run[q]
BY DEF TypeOK, Become

\* What an item is judged is a verdict, and its price leaves an amount of money.
LEMMA JudgedKeepsLocals ==
  ASSUME TypeOK, NEW s \in Scanners, NEW i \in Items, NEW v \in Verdicts,
         NEW cost \in Nat, Judged(s, i, v, cost)
  PROVE  /\ run' \in [Scanners -> Locals]
         /\ \A q \in Scanners \ {s} : run'[q] = run[q]
         /\ run'[s].found = run[s].found /\ run'[s].hits = run[s].hits
         /\ run'[s].todo = run[s].todo \ {i}
         /\ run'[s].money = Less(run[s].money, cost)
         /\ run'[s].verdict = [run[s].verdict EXCEPT ![i] = v]
<1> DEFINE n == [run[s] EXCEPT !.verdict[i] = v, !.todo = @ \ {i}, !.job = NoJob,
                               !.money = Less(@, cost)]
<1>1. Less(run[s].money, cost) \in Nat
  BY DEF TypeOK, Locals, Less
<1>2. run[s] \in Locals
  BY DEF TypeOK
<1>3. n \in Locals
  BY <1>1, <1>2 DEF Locals
<1>4. /\ n.found = run[s].found /\ n.hits = run[s].hits /\ n.todo = run[s].todo \ {i}
      /\ n.money = Less(run[s].money, cost)
      /\ n.verdict = [run[s].verdict EXCEPT ![i] = v]
  BY <1>2 DEF Locals
<1>5. Become(s, n)
  BY DEF Judged
<1> HIDE DEF n
<1> QED
  BY <1>3, <1>4, <1>5, BecomeKeepsLocals

\* The matched ones that are left come from those that are left.
LEMMA NextUpIsLeft ==
  ASSUME TypeOK, NEW s \in Scanners, NEW i \in NextUp(s)
  PROVE  i \in Items /\ i \in run[s].todo
BY DEF TypeOK, Locals, NextUp

\* A step of a scan keeps the shape: the first part of the inductive invariant.
LEMMA ScanTypeOK ==
  ASSUME TypeOK, PositionsOK, NEW s \in Scanners, ScanStep(s)
  PROVE  TypeOK'
<1> USE DEF ScanPositions, Goto, Processes
<1>0. run[s] \in Locals
  BY DEF TypeOK
<1>1. ASSUME NEW n \in 0 .. MaxRoom, NEW m \in 0 .. MaxMoney, StartRun(s, n, m)
      PROVE  TypeOK'
  <2>1. run' \in [Scanners -> Locals]
    <3>0. n \in Nat /\ m \in Nat
      BY ScanBoundsAssumption
    <3>1. [run[s] EXCEPT !.room = n, !.money = m] \in Locals
      BY <1>0, <3>0 DEF Locals
    <3> QED
      BY <1>1, <3>1, BecomeKeepsLocals DEF StartRun
  <2>2. hand' \in [Processes -> Releases \cup {0}]
    BY <1>1 DEF TypeOK, StartRun
  <2> QED
    BY <1>1, <2>1, <2>2 DEF TypeOK, StartRun, JobsTypeOK, jobVars, tableVars, replayVars
<1>2. CASE StopEarly(s)
  BY <1>2, BlankIsLocals, BecomeKeepsLocals
     DEF TypeOK, StopEarly, JobsTypeOK, jobVars, tableVars, knowVars, replayVars
<1>3. ASSUME NEW offered \in SUBSET Items, NEW stop \in BOOLEAN, Collect(s, offered, stop)
      PROVE  TypeOK'
  <2>1. run' \in [Scanners -> Locals]
    <3>1. PICK kept \in SUBSET Fresh(offered) :
            Become(s, [run[s] EXCEPT !.found = kept, !.cut = stop])
      BY <1>3 DEF Collect
    <3>2. Fresh(offered) \subseteq Items
      BY DEF Fresh
    <3>3. [run[s] EXCEPT !.found = kept, !.cut = stop] \in Locals
      BY <1>0, <3>2 DEF Locals
    <3> QED
      BY <3>1, <3>3, BecomeKeepsLocals
  <2> QED
    BY <1>3, <2>1
       DEF TypeOK, Collect, JobsTypeOK, jobVars, tableVars, knowVars, replayVars
<1>4. CASE Scope(s)
  <2>1. \A cost \in 0 .. 1 : Less(run[s].money, cost) \in Nat
    BY DEF TypeOK, Locals, Less
  <2>2. run' \in [Scanners -> Locals]
    <3> DEFINE l(placed, more, cost) ==
                 [run[s] EXCEPT !.away = placed,
                                !.hits = (Matched \cap run[s].found) \cup (more \ placed),
                                !.money = Less(@, cost),
                                !.todo = run[s].found]
    <3>1. PICK placed \in SUBSET run[s].found, more \in SUBSET run[s].found, cost \in 0 .. 1 :
            Become(s, l(placed, more, cost))
      BY <1>4 DEF Scope
    <3>2. l(placed, more, cost) \in Locals
      BY <1>0, <2>1 DEF Locals
    <3> HIDE DEF l
    <3> QED
      BY <3>1, <3>2, BecomeKeepsLocals
  <2> QED
    BY <1>4, <2>2 DEF TypeOK, Scope, JobsTypeOK, jobVars, tableVars, knowVars, replayVars
<1>5. CASE PassOver(s)
  <2>1. run' \in [Scanners -> Locals]
    BY <1>5, NextUpIsLeft, JudgedKeepsLocals DEF PassOver, Verdicts
  <2> QED
    BY <1>5, <2>1 DEF TypeOK, PassOver, JobsTypeOK, jobVars, tableVars, knowVars, replayVars
<1>6. CASE WriteJob(s)
  <2>1. PICK i \in NextUp(s) :
          EnqueueJob(<<i, hand[s]>>) /\ Become(s, [run[s] EXCEPT !.job = <<i, hand[s]>>])
    BY <1>6 DEF WriteJob
  <2>2. <<i, hand[s]>> \in JobIds
    BY <1>6, NextUpIsLeft DEF WriteJob, PositionsOK, JobIds
  <2>3. JobsTypeOK'
    BY <2>1, <2>2, JobOperations DEF TypeOK
  <2>4. run' \in [Scanners -> Locals]
    <3>1. [run[s] EXCEPT !.job = <<i, hand[s]>>] \in Locals
      BY <1>0, <2>2 DEF Locals
    <3> QED
      BY <2>1, <3>1, BecomeKeepsLocals
  <2> QED
    BY <1>6, <2>3, <2>4 DEF TypeOK, WriteJob, tableVars, knowVars, replayVars
<1>7. CASE BeginJob(s)
  <2>1. run[s].job \in JobIds
    BY <1>7 DEF BeginJob, PositionsOK, JobIds
  <2>2. JobsTypeOK'
    BY <1>7, <2>1, JobOperations DEF BeginJob, TypeOK
  <2> QED
    BY <1>7, <2>2 DEF TypeOK, BeginJob, tableVars, knowVars, replayVars
<1>8. CASE Judge(s)
  <2>1. run[s].job \in JobIds /\ run[s].job[1] \in Items
    BY <1>8 DEF Judge, PositionsOK, JobIds
  <2>2. JobsTypeOK'
    BY <1>8, <2>1, JobOperations DEF Judge, TypeOK
  <2>3. run' \in [Scanners -> Locals]
    <3>1. PICK cost \in 1 .. 2 : Judged(s, run[s].job[1], "model", cost)
      BY <1>8 DEF Judge
    <3>2. cost \in Nat /\ "model" \in Verdicts
      BY DEF Verdicts
    <3> QED
      BY <2>1, <3>1, <3>2, JudgedKeepsLocals
  <2> QED
    BY <1>8, <2>2, <2>3 DEF TypeOK, Judge, tableVars, knowVars, replayVars
<1>9. CASE ProviderFails(s)
  <2>1. run[s].job \in JobIds /\ run[s].job[1] \in Items
    BY <1>9 DEF ProviderFails, PositionsOK, JobIds
  <2>2. JobsTypeOK'
    BY <1>9, <2>1, JobOperations DEF ProviderFails, TypeOK
  <2>3. run' \in [Scanners -> Locals]
    BY <1>9, <2>1, JudgedKeepsLocals DEF ProviderFails, Verdicts
  <2> QED
    BY <1>9, <2>2, <2>3 DEF TypeOK, ProviderFails, tableVars, knowVars, replayVars
<1>10. CASE PassThreeDone(s)
  <2>1. run' \in [Scanners -> Locals]
    <3>1. [run[s] EXCEPT !.todo = @ \cup run[s].found] \in Locals
      BY <1>0 DEF Locals
    <3> QED
      BY <1>10, <3>1, BecomeKeepsLocals DEF PassThreeDone
  <2> QED
    BY <1>10, <2>1
       DEF TypeOK, PassThreeDone, JobsTypeOK, jobVars, tableVars, knowVars, replayVars
<1>11. CASE Record(s)
  <2>1. run' \in [Scanners -> Locals]
    <3>1. \A i \in run[s].todo : [run[s] EXCEPT !.todo = @ \ {i}] \in Locals
      BY <1>0 DEF Locals
    <3> QED
      BY <1>11, <3>1, BecomeKeepsLocals DEF Record
  <2>2. recorded' \subseteq Items
    BY <1>11 DEF TypeOK, Record, Locals
  <2> QED
    BY <1>11, <2>1, <2>2 DEF TypeOK, Record, JobsTypeOK, jobVars, knowVars, replayVars
<1>12. CASE FinishCut(s)
  BY <1>12 DEF TypeOK, FinishCut, JobsTypeOK, jobVars, tableVars, knowVars, replayVars
<1>13. CASE QueueFindings(s)
  <2>1. FindingsOf(s) \subseteq Finding
    BY <1>13 DEF TypeOK, QueueFindings, PositionsOK, FindingsOf, Finding, Locals
  <2>2. rows' \in [Items -> Nat]
    BY <1>13 DEF TypeOK, QueueFindings
  <2> QED
    BY <1>13, <2>1, <2>2 DEF TypeOK, QueueFindings, JobsTypeOK, jobVars, knowVars, replayVars
<1>14. CASE Remember(s)
  BY <1>14 DEF TypeOK, Remember, Locals, JobsTypeOK, jobVars, knowVars, replayVars
<1>15. CASE QueueLog(s)
  <2>1. run' \in [Scanners -> Locals]
    <3>1. [run[s] EXCEPT !.logged = TRUE] \in Locals
      BY <1>0 DEF Locals
    <3> QED
      BY <1>15, <3>1, BecomeKeepsLocals DEF QueueLog
  <2> QED
    BY <1>15, <2>1 DEF TypeOK, QueueLog, JobsTypeOK, jobVars, tableVars, knowVars, replayVars
<1>16. CASE Finish(s)
  BY <1>16, BlankIsLocals, BecomeKeepsLocals
     DEF TypeOK, Finish, JobsTypeOK, jobVars, tableVars, knowVars, replayVars
<1>17. CASE ScanCrash(s)
  BY <1>17, BlankIsLocals, BecomeKeepsLocals
     DEF TypeOK, ScanCrash, JobsTypeOK, jobVars, tableVars, replayVars
<1> QED
  BY <1>1, <1>2, <1>3, <1>4, <1>5, <1>6, <1>7, <1>8, <1>9, <1>10, <1>11, <1>12, <1>13,
     <1>14, <1>15, <1>16, <1>17
     DEF ScanStep

\* So does a step of a replay.
LEMMA ReplayTypeOK ==
  ASSUME TypeOK, PositionsOK, NEW r \in Replayers, ReplayStep(r)
  PROVE  TypeOK'
<1> USE DEF Processes, DropRow
<1>1. CASE SyncKnowledge(r)
  BY <1>1 DEF TypeOK, SyncKnowledge, JobsTypeOK, jobVars, tableVars, scanVars, replayVars
<1>2. CASE ReplayStart(r)
  <2>1. Replayable(ReplayLimit) \subseteq JobIds
    BY DEF Replayable
  <2> QED
    BY <1>2, <2>1
       DEF TypeOK, ReplayStart, JobsTypeOK, jobVars, tableVars, knowVars, scanVars
<1>3. CASE ReplaySkip(r)
  <2>1. rrows' \in [Replayers -> SUBSET JobIds]
    BY <1>3 DEF TypeOK, ReplaySkip
  <2> QED
    BY <1>3, <2>1
       DEF TypeOK, ReplaySkip, JobsTypeOK, jobVars, tableVars, knowVars, scanVars
<1>4. CASE ReplayBegin(r)
  <2>1. PICK j \in rrows[r] : Begin(r, j)
    BY <1>4 DEF ReplayBegin
  <2>2. j \in JobIds
    BY <2>1 DEF TypeOK
  <2>3. JobsTypeOK'
    BY <2>1, <2>2, JobOperations DEF TypeOK, Begin
  <2> QED
    BY <1>4, <2>1, <2>2, <2>3 DEF TypeOK, ReplayBegin, Begin, tableVars, knowVars, scanVars
<1>5. CASE ReplayJudge(r)
  <2>1. rjob[r] \in JobIds
    BY <1>5 DEF ReplayJudge, PositionsOK, JobIds
  <2>2. JobsTypeOK'
    BY <1>5, <2>1, JobOperations DEF TypeOK, ReplayJudge
  <2> QED
    BY <1>5, <2>2 DEF TypeOK, ReplayJudge, tableVars, knowVars, scanVars
<1>6. CASE ReplayFails(r)
  <2>1. rjob[r] \in JobIds
    BY <1>6 DEF ReplayFails, PositionsOK, JobIds
  <2>2. JobsTypeOK'
    BY <1>6, <2>1, JobOperations DEF TypeOK, ReplayFails
  <2> QED
    BY <1>6, <2>2 DEF TypeOK, ReplayFails, tableVars, knowVars, scanVars
<1>7. CASE ReplayQueue(r)
  <2>1. [item |-> rjob[r][1], verdict |-> "model", release |-> hand[r]] \in Finding
    BY <1>7 DEF ReplayQueue, PositionsOK, Finding, Verdicts
  <2> QED
    BY <1>7, <2>1 DEF TypeOK, ReplayQueue, JobsTypeOK, jobVars, knowVars, scanVars
<1>8. CASE ReplayEnd(r)
  BY <1>8 DEF TypeOK, ReplayEnd, JobsTypeOK, jobVars, tableVars, knowVars, scanVars
<1>9. CASE ReplayCrash(r)
  BY <1>9 DEF TypeOK, ReplayCrash, JobsTypeOK, jobVars, tableVars, scanVars
<1> QED
  BY <1>1, <1>2, <1>3, <1>4, <1>5, <1>6, <1>7, <1>8, <1>9 DEF ReplayStep

LEMMA StepTypeOK == TypeOK /\ PositionsOK /\ [Next]_vars => TypeOK'
<1> SUFFICES ASSUME TypeOK, PositionsOK, [Next]_vars PROVE TypeOK'
  OBVIOUS
<1>1. CASE ReleaseChanges
  BY <1>1 DEF TypeOK, ReleaseChanges, Releases, JobsTypeOK, jobVars, tableVars,
              scanVars, replayVars
<1>2. CASE UNCHANGED vars
  BY <1>2 DEF TypeOK, vars, JobsTypeOK, jobVars, tableVars, knowVars, scanVars, replayVars
<1> QED
  BY <1>1, <1>2, ScanTypeOK, ReplayTypeOK DEF Next

-----------------------------------------------------------------------------
(* What each process holds. *)

\* No step forgets an attempt.
LEMMA AttemptsStay ==
  ASSUME TypeOK, PositionsOK, [Next]_vars
  PROVE  \A j \in JobIds : jobs'[j].attempts >= jobs[j].attempts
<1> USE DEF JobIds
<1>1. JobsTypeOK
  BY DEF TypeOK
<1>2. CASE UNCHANGED jobVars
  BY <1>1, <1>2, JobsIdle
<1>3. ASSUME NEW s \in Scanners, WriteJob(s)
      PROVE  \A j \in JobIds : jobs'[j].attempts >= jobs[j].attempts
  <2>1. PICK i \in NextUp(s) : EnqueueJob(<<i, hand[s]>>)
    BY <1>3 DEF WriteJob
  <2>2. <<i, hand[s]>> \in JobIds
    BY <1>3, NextUpIsLeft DEF WriteJob, PositionsOK
  <2> QED
    BY <1>1, <2>1, <2>2, JobOperations
<1>4. ASSUME NEW s \in Scanners, BeginJob(s) \/ Judge(s) \/ ProviderFails(s)
      PROVE  \A j \in JobIds : jobs'[j].attempts >= jobs[j].attempts
  <2>1. run[s].job \in JobIds
    BY <1>4 DEF BeginJob, Judge, ProviderFails, PositionsOK
  <2> QED
    BY <1>1, <1>4, <2>1, JobOperations DEF BeginJob, Judge, ProviderFails
<1>5. ASSUME NEW r \in Replayers, ReplayBegin(r)
      PROVE  \A j \in JobIds : jobs'[j].attempts >= jobs[j].attempts
  <2>1. PICK j \in rrows[r] : StartJob(j)
    BY <1>5 DEF ReplayBegin, Begin
  <2>2. j \in JobIds
    BY <2>1 DEF TypeOK
  <2> QED
    BY <1>1, <2>1, <2>2, JobOperations
<1>6. ASSUME NEW r \in Replayers, ReplayJudge(r) \/ ReplayFails(r)
      PROVE  \A j \in JobIds : jobs'[j].attempts >= jobs[j].attempts
  <2>1. rjob[r] \in JobIds
    BY <1>6 DEF ReplayJudge, ReplayFails, PositionsOK
  <2> QED
    BY <1>1, <1>6, <2>1, JobOperations DEF ReplayJudge, ReplayFails
<1> QED
  BY <1>2, <1>3, <1>4, <1>5, <1>6
     DEF Next, ScanStep, ReplayStep, vars, StartRun, StopEarly, Collect, Scope, PassOver,
         PassThreeDone, Record, FinishCut, QueueFindings, Remember, QueueLog, Finish,
         ScanCrash, SyncKnowledge, ReplayStart, ReplaySkip, ReplayQueue, ReplayEnd,
         ReplayCrash, ReleaseChanges

\* A scan's step leaves every other process where it is.
LEMMA OthersStandStill ==
  ASSUME TypeOK, NEW s \in Scanners, ScanStep(s)
  PROVE  /\ \A q \in Scanners \ {s} : pc'[q] = pc[q] /\ run'[q] = run[q]
         /\ \A q \in Processes \ {s} : hand'[q] = hand[q]
         /\ UNCHANGED replayVars
BY DEF TypeOK, ScanStep, StartRun, StopEarly, Collect, Scope, PassOver, WriteJob, BeginJob,
       Judge, ProviderFails, PassThreeDone, Record, FinishCut, QueueFindings, Remember,
       QueueLog, Finish, ScanCrash, Goto, Become, Judged, knowVars, Processes

\* And a replay's step leaves every scan where it is.
LEMMA ScansStandStill ==
  ASSUME TypeOK, NEW r \in Replayers, ReplayStep(r)
  PROVE  /\ UNCHANGED scanVars
         /\ \A q \in Processes \ {r} : hand'[q] = hand[q]
         /\ \A q \in Replayers \ {r} : rpc'[q] = rpc[q] /\ rjob'[q] = rjob[q]
BY DEF TypeOK, ReplayStep, SyncKnowledge, ReplayStart, ReplaySkip, ReplayBegin, Begin,
       ReplayJudge, ReplayFails, ReplayQueue, ReplayEnd, ReplayCrash, DropRow, knowVars,
       scanVars, replayVars, Processes

\* What a step does to the scan that takes it: it begins, it ends, or it goes on
\* under the knowledge it began with, and only an answer or an outage of the
\* provider makes a judgement the model was asked for.
Begins(s) ==
  /\ pc[s] = "idle" /\ pc'[s] = "picked"
  /\ hand'[s] \in Releases
  /\ run'[s].verdict = run[s].verdict

Ends(s) == pc'[s] = "idle" /\ run'[s] = Blank

GoesOn(s) ==
  /\ pc[s] # "idle" /\ pc'[s] # "idle"
  /\ hand'[s] = hand[s]
  /\ \/ run'[s].verdict = run[s].verdict
     \/ \E i \in Items, v \in Verdicts :
          /\ run'[s].verdict = [run[s].verdict EXCEPT ![i] = v]
          /\ v \in AskedModel => pc[s] = "calling" /\ run[s].job[1] = i

LEMMA ScanMoves ==
  ASSUME TypeOK, PositionsOK, NEW s \in Scanners, ScanStep(s)
  PROVE  Begins(s) \/ Ends(s) \/ GoesOn(s)
<1> USE DEF Goto, Processes
<1>0. run[s] \in Locals /\ s \in DOMAIN run /\ s \in DOMAIN pc /\ s \in DOMAIN hand
  BY DEF TypeOK
<1>1. ASSUME NEW n \in 0 .. MaxRoom, NEW m \in 0 .. MaxMoney, StartRun(s, n, m)
      PROVE  Begins(s)
  <2>1. [run[s] EXCEPT !.room = n, !.money = m].verdict = run[s].verdict
    BY <1>0 DEF Locals
  <2>2. hand'[s] \in Releases
    BY <1>0, <1>1 DEF StartRun, TypeOK, Releases
  <2> QED
    BY <1>0, <1>1, <2>1, <2>2 DEF StartRun, Begins, Become
<1>2. CASE StopEarly(s) \/ Finish(s) \/ ScanCrash(s)
  BY <1>0, <1>2 DEF StopEarly, Finish, ScanCrash, Ends, Become
<1>3. ASSUME NEW offered \in SUBSET Items, NEW stop \in BOOLEAN, Collect(s, offered, stop)
      PROVE  GoesOn(s)
  <2>1. PICK kept : Become(s, [run[s] EXCEPT !.found = kept, !.cut = stop])
    BY <1>3 DEF Collect
  <2>2. run'[s].verdict = run[s].verdict
    BY <1>0, <2>1 DEF Locals, Become
  <2> QED
    BY <1>0, <1>3, <2>2 DEF Collect, GoesOn, knowVars
<1>4. CASE Scope(s)
  <2>1. run'[s].verdict = run[s].verdict
    BY <1>0, <1>4 DEF Scope, Locals, Become
  <2> QED
    BY <1>0, <1>4, <2>1 DEF Scope, GoesOn, knowVars
<1>5. CASE PassOver(s)
  <2>1. PICK i \in NextUp(s) : Judged(s, i, "context", 0) \/ Judged(s, i, "match_only", 0)
    BY <1>5 DEF PassOver
  <2>2. i \in Items
    BY <2>1, NextUpIsLeft
  <2>3. \E v \in {"context", "match_only"} : run'[s].verdict = [run[s].verdict EXCEPT ![i] = v]
    BY <2>1, <2>2, JudgedKeepsLocals DEF Verdicts
  <2> QED
    BY <1>0, <1>5, <2>2, <2>3 DEF PassOver, GoesOn, knowVars, Verdicts, AskedModel
<1>6. CASE WriteJob(s)
  <2>1. run'[s].verdict = run[s].verdict
    BY <1>0, <1>6 DEF WriteJob, Locals, Become
  <2> QED
    BY <1>0, <1>6, <2>1 DEF WriteJob, GoesOn, knowVars
<1>7. CASE Judge(s) \/ ProviderFails(s)
  <2>1. run[s].job[1] \in Items
    BY <1>7 DEF Judge, ProviderFails, PositionsOK
  <2>2. PICK v \in {"model", "unanswered"}, cost \in 0 .. 2 :
          Judged(s, run[s].job[1], v, cost)
    BY <1>7 DEF Judge, ProviderFails
  <2>3. run'[s].verdict = [run[s].verdict EXCEPT ![run[s].job[1]] = v]
    <3>1. v \in Verdicts /\ cost \in Nat
      BY DEF Verdicts
    <3> QED
      BY <2>1, <2>2, <3>1, JudgedKeepsLocals
  <2> QED
    BY <1>0, <1>7, <2>1, <2>3 DEF Judge, ProviderFails, GoesOn, knowVars, Verdicts
<1>8. CASE PassThreeDone(s) \/ Record(s) \/ QueueLog(s)
  <2>1. run'[s].verdict = run[s].verdict
    BY <1>0, <1>8 DEF PassThreeDone, Record, QueueLog, Locals, Become
  <2> QED
    BY <1>0, <1>8, <2>1 DEF PassThreeDone, Record, QueueLog, GoesOn, knowVars
<1>9. CASE BeginJob(s) \/ FinishCut(s) \/ QueueFindings(s) \/ Remember(s)
  BY <1>0, <1>9 DEF BeginJob, FinishCut, QueueFindings, Remember, GoesOn, knowVars
<1> QED
  BY <1>1, <1>2, <1>3, <1>4, <1>5, <1>6, <1>7, <1>8, <1>9 DEF ScanStep

\* A scan at "job" or "calling" has just written or started the job it holds.
LEMMA ScanPositionsOK ==
  ASSUME TypeOK, PositionsOK, TypeOK', NEW s \in Scanners, ScanStep(s)
  PROVE  /\ pc'[s] = "idle" => run'[s] = Blank
         /\ pc'[s] # "idle" => hand'[s] \in Releases
         /\ pc'[s] \in {"job", "calling"} => run'[s].job \in Items \X {hand'[s]}
         /\ pc'[s] = "calling" => jobs'[run'[s].job].attempts > 0
<1> USE DEF Goto
<1>0. run[s] \in Locals /\ s \in DOMAIN run /\ s \in DOMAIN pc
  BY DEF TypeOK
<1>1. Begins(s) \/ Ends(s) \/ GoesOn(s)
  BY ScanMoves
<1>2. CASE WriteJob(s)
  <2>1. PICK i \in NextUp(s) : Become(s, [run[s] EXCEPT !.job = <<i, hand[s]>>])
    BY <1>2 DEF WriteJob
  <2>2. i \in Items
    BY <2>1, NextUpIsLeft
  <2>3. run'[s].job = <<i, hand[s]>>
    BY <1>0, <2>1 DEF Become, Locals
  <2> QED
    BY <1>0, <1>2, <2>2, <2>3 DEF WriteJob, PositionsOK, knowVars
<1>3. CASE BeginJob(s)
  <2>1. run[s].job \in Items \X {hand[s]} /\ hand[s] \in Releases
    BY <1>3 DEF BeginJob, PositionsOK
  <2>2. jobs'[run[s].job].attempts > 0
    BY <1>3, <2>1, StartCounts DEF BeginJob, TypeOK, JobIds
  <2> QED
    BY <1>0, <1>3, <2>1, <2>2 DEF BeginJob, knowVars
<1>4. CASE pc'[s] \notin {"job", "calling"}
  BY <1>1, <1>4 DEF Begins, Ends, GoesOn, PositionsOK
<1> QED
  BY <1>0, <1>2, <1>3, <1>4
     DEF ScanStep, StartRun, StopEarly, Collect, Scope, PassOver, Judge, ProviderFails,
         PassThreeDone, Record, FinishCut, QueueFindings, Remember, QueueLog, Finish, ScanCrash

\* What a process holds stays consistent whoever takes the step.
LEMMA StepPositionsOK == ScanInv /\ [Next]_vars => PositionsOK'
<1> SUFFICES ASSUME ScanInv, [Next]_vars PROVE PositionsOK'
  OBVIOUS
<1>0. TypeOK /\ PositionsOK /\ TypeOK'
  BY StepTypeOK DEF ScanInv
<1>1. \A j \in JobIds : jobs'[j].attempts >= jobs[j].attempts
  BY <1>0, AttemptsStay
<1>2. \A j \in JobIds : jobs[j].attempts \in Nat /\ jobs'[j].attempts \in Nat
  BY <1>0 DEF TypeOK, JobsTypeOK
<1> DEFINE
  OfScan(s) ==
    /\ pc[s] = "idle" => run[s] = Blank
    /\ pc[s] # "idle" => hand[s] \in Releases
    /\ pc[s] \in {"job", "calling"} => run[s].job \in Items \X {hand[s]}
    /\ pc[s] = "calling" => jobs[run[s].job].attempts > 0
  OfReplay(r) ==
    /\ rpc[r] # "idle" => hand[r] \in Releases
    /\ rpc[r] \in {"calling", "queue"} =>
         rjob[r] \in Items \X {hand[r]} /\ jobs[rjob[r]].attempts > 0
<1>3. ASSUME NEW s \in Scanners,
             pc'[s] = pc[s] /\ run'[s] = run[s] /\ hand'[s] = hand[s]
      PROVE  OfScan(s)'
  BY <1>0, <1>1, <1>2, <1>3 DEF PositionsOK, JobIds
<1>4. ASSUME NEW r \in Replayers,
             rpc'[r] = rpc[r] /\ rjob'[r] = rjob[r] /\ hand'[r] = hand[r]
      PROVE  OfReplay(r)'
  BY <1>0, <1>1, <1>2, <1>4 DEF PositionsOK, JobIds
<1>5. ASSUME NEW s \in Scanners, ScanStep(s) PROVE PositionsOK'
  <2>1. OfScan(s)'
    BY <1>0, <1>5, ScanPositionsOK
  <2>2. \A q \in Scanners : OfScan(q)'
    BY <1>0, <1>3, <1>5, <2>1, OthersStandStill DEF Processes
  <2>3. \A r \in Replayers : OfReplay(r)'
    BY <1>0, <1>4, <1>5, OthersStandStill DEF Processes, replayVars
  <2> QED
    BY <2>2, <2>3 DEF PositionsOK
<1>6. ASSUME NEW r \in Replayers, ReplayStep(r) PROVE PositionsOK'
  <2>1. OfReplay(r)'
    <3> USE DEF Processes
    <3>1. CASE SyncKnowledge(r)
      BY <1>0, <3>1 DEF TypeOK, SyncKnowledge, replayVars
    <3>2. CASE ReplayStart(r)
      BY <1>0, <3>2 DEF TypeOK, ReplayStart, knowVars
    <3>3. CASE ReplayBegin(r)
      <4>1. PICK j \in rrows[r] : j[2] = hand[r] /\ Begin(r, j)
        BY <3>3 DEF ReplayBegin
      <4>2. j \in JobIds
        BY <1>0, <4>1 DEF TypeOK
      <4>3. jobs'[j].attempts > 0
        BY <1>0, <4>1, <4>2, StartCounts DEF TypeOK, Begin
      <4>4. rpc[r] # "idle" /\ rjob'[r] = j /\ hand' = hand
        BY <1>0, <3>3, <4>1 DEF TypeOK, ReplayBegin, ReachedBy, Begin, knowVars
      <4> QED
        BY <1>0, <4>1, <4>2, <4>3, <4>4 DEF PositionsOK, JobIds
    <3>4. CASE ReplayJudge(r)
      BY <1>0, <1>1, <1>2, <3>4 DEF TypeOK, ReplayJudge, PositionsOK, JobIds, knowVars
    <3>5. CASE ReplaySkip(r) \/ ReplayFails(r) \/ ReplayQueue(r) \/ ReplayEnd(r)
      BY <1>0, <3>5
         DEF TypeOK, ReplaySkip, ReachedBy, ReplayFails, ReplayQueue, ReplayEnd,
             PositionsOK, knowVars
    <3>6. CASE ReplayCrash(r)
      BY <1>0, <3>6 DEF TypeOK, ReplayCrash
    <3> QED
      BY <1>6, <3>1, <3>2, <3>3, <3>4, <3>5, <3>6 DEF ReplayStep
  <2>2. \A q \in Scanners : OfScan(q)'
    BY <1>0, <1>3, <1>6, ScansStandStill, ProcessesAssumption DEF Processes, scanVars
  <2>3. \A q \in Replayers : OfReplay(q)'
    BY <1>0, <1>4, <1>6, <2>1, ScansStandStill DEF Processes
  <2> QED
    BY <2>2, <2>3 DEF PositionsOK
<1>7. CASE ReleaseChanges
  BY <1>3, <1>4, <1>7 DEF ReleaseChanges, scanVars, replayVars, PositionsOK
<1>8. CASE UNCHANGED vars
  BY <1>3, <1>4, <1>8 DEF vars, knowVars, scanVars, replayVars, PositionsOK
<1> QED
  BY <1>5, <1>6, <1>7, <1>8 DEF Next

-----------------------------------------------------------------------------
(* What the model was asked. *)

\* A candidate is judged by the model only in a job of the release in hand.
LEMMA StepAskedOK == ScanInv /\ [Next]_vars => AskedOK'
<1> SUFFICES ASSUME ScanInv, [Next]_vars PROVE AskedOK'
  OBVIOUS
<1>0. TypeOK /\ PositionsOK /\ AskedOK
  BY DEF ScanInv
<1>1. \A j \in JobIds : jobs'[j].attempts >= jobs[j].attempts
  BY <1>0, AttemptsStay
<1>2. \A j \in JobIds : jobs[j].attempts \in Nat /\ jobs'[j].attempts \in Nat
  BY <1>0, StepTypeOK DEF TypeOK, JobsTypeOK
<1> DEFINE Asked(s) ==
             \A i \in Items :
               run[s].verdict[i] \in AskedModel => jobs[<<i, hand[s]>>].attempts > 0
<1>3. \A s \in Scanners : pc[s] = "idle" => \A i \in Items : run[s].verdict[i] \notin AskedModel
  BY <1>0 DEF PositionsOK, Blank, AskedModel
<1>4. ASSUME NEW s \in Scanners, pc'[s] = pc[s] /\ run'[s] = run[s] /\ hand'[s] = hand[s]
      PROVE  Asked(s)'
  <2>1. CASE pc[s] = "idle"
    BY <1>3, <1>4, <2>1 DEF AskedModel
  <2>2. CASE pc[s] # "idle"
    BY <1>0, <1>1, <1>2, <1>4, <2>2 DEF AskedOK, AskedModel, PositionsOK, JobIds
  <2> QED
    BY <2>1, <2>2
<1>5. ASSUME NEW s \in Scanners, ScanStep(s) PROVE AskedOK'
  <2>1. CASE Begins(s)
    <3>1. Asked(s)'
      BY <1>3, <2>1 DEF Begins, AskedModel
    <3> QED
      BY <1>0, <1>4, <1>5, <3>1, OthersStandStill DEF AskedOK, Processes
  <2>2. CASE Ends(s)
    <3>1. Asked(s)'
      BY <2>2 DEF Ends, Blank, AskedModel
    <3> QED
      BY <1>0, <1>4, <1>5, <3>1, OthersStandStill DEF AskedOK, Processes
  <2>3. CASE GoesOn(s)
    <3>0. hand[s] \in Releases /\ run[s].verdict \in [Items -> Verdicts]
      BY <1>0, <2>3 DEF GoesOn, PositionsOK, TypeOK, Locals
    <3>1. CASE run'[s].verdict = run[s].verdict
      <4>1. Asked(s)'
        BY <1>0, <1>1, <1>2, <2>3, <3>0, <3>1 DEF GoesOn, AskedOK, AskedModel, JobIds
      <4> QED
        BY <1>0, <1>4, <1>5, <4>1, OthersStandStill DEF AskedOK, Processes
    <3>2. CASE run'[s].verdict # run[s].verdict
      <4>1. PICK i \in Items, v \in Verdicts :
              /\ run'[s].verdict = [run[s].verdict EXCEPT ![i] = v]
              /\ v \in AskedModel => pc[s] = "calling" /\ run[s].job[1] = i
        BY <2>3, <3>2 DEF GoesOn
      <4>2. v \in AskedModel => jobs[<<i, hand[s]>>].attempts > 0
        BY <1>0, <4>1 DEF PositionsOK
      <4>3. ASSUME NEW k \in Items, run'[s].verdict[k] \in AskedModel
            PROVE  jobs[<<k, hand[s]>>].attempts > 0
        BY <1>0, <3>0, <4>1, <4>2, <4>3 DEF AskedOK
      <4>4. Asked(s)'
        BY <1>1, <1>2, <2>3, <3>0, <4>3 DEF GoesOn, AskedModel, JobIds
      <4> QED
        BY <1>0, <1>4, <1>5, <4>4, OthersStandStill DEF AskedOK, Processes
    <3> QED
      BY <3>1, <3>2
  <2> QED
    BY <1>0, <1>5, <2>1, <2>2, <2>3, ScanMoves
<1>6. ASSUME NEW r \in Replayers, ReplayStep(r) PROVE AskedOK'
  BY <1>0, <1>4, <1>6, ScansStandStill, ProcessesAssumption DEF AskedOK, Processes, scanVars
<1>7. CASE ReleaseChanges
  BY <1>4, <1>7 DEF ReleaseChanges, scanVars, AskedOK
<1>8. CASE UNCHANGED vars
  BY <1>4, <1>8 DEF vars, knowVars, scanVars, AskedOK
<1> QED
  BY <1>5, <1>6, <1>7, <1>8 DEF Next

\* Only a scan at "queue" and a replay at "queue" write findings, and what they
\* write was asked in a job of its release.
LEMMA StepJudged == ScanInv /\ [Next]_vars => JudgedUnderItsRelease'
<1> SUFFICES ASSUME ScanInv, [Next]_vars PROVE JudgedUnderItsRelease'
  OBVIOUS
<1>0. TypeOK /\ PositionsOK /\ AskedOK /\ JudgedUnderItsRelease
  BY DEF ScanInv
<1>1. \A j \in JobIds : jobs'[j].attempts >= jobs[j].attempts
  BY <1>0, AttemptsStay
<1>2. \A j \in JobIds : jobs[j].attempts \in Nat /\ jobs'[j].attempts \in Nat
  BY <1>0, StepTypeOK DEF TypeOK, JobsTypeOK
<1>3. queued' \subseteq Finding
  BY <1>0, StepTypeOK DEF TypeOK
<1>4. ASSUME \A f \in queued' \ queued :
               f.verdict \in AskedModel => jobs[<<f.item, f.release>>].attempts > 0
      PROVE  JudgedUnderItsRelease'
  <2>1. ASSUME NEW f \in queued', f.verdict \in AskedModel
        PROVE  jobs[<<f.item, f.release>>].attempts > 0
    BY <1>0, <1>4, <2>1 DEF JudgedUnderItsRelease
  <2>2. \A f \in queued' : <<f.item, f.release>> \in JobIds
    BY <1>3 DEF Finding, JobIds
  <2> QED
    BY <1>1, <1>2, <2>1, <2>2 DEF JudgedUnderItsRelease, AskedModel
<1>5. ASSUME NEW s \in Scanners, QueueFindings(s) PROVE JudgedUnderItsRelease'
  <2>1. ASSUME NEW f \in FindingsOf(s), f.verdict \in AskedModel
        PROVE  jobs[<<f.item, f.release>>].attempts > 0
    BY <1>0, <2>1 DEF FindingsOf, AskedOK, TypeOK, Locals
  <2> QED
    BY <1>4, <1>5, <2>1 DEF QueueFindings
<1>6. ASSUME NEW r \in Replayers, ReplayQueue(r) PROVE JudgedUnderItsRelease'
  <2>1. jobs[<<rjob[r][1], hand[r]>>].attempts > 0
    BY <1>0, <1>6 DEF ReplayQueue, PositionsOK
  <2> QED
    BY <1>4, <1>6, <2>1 DEF ReplayQueue
<1>7. CASE UNCHANGED queued
  BY <1>4, <1>7
<1> QED
  BY <1>5, <1>6, <1>7
     DEF Next, ScanStep, ReplayStep, vars, tableVars, StartRun, StopEarly, Collect, Scope,
         PassOver, WriteJob, BeginJob, Judge, ProviderFails, PassThreeDone, Record, FinishCut,
         Remember, QueueLog, Finish, ScanCrash, SyncKnowledge, ReplayStart, ReplaySkip,
         ReplayBegin, ReplayJudge, ReplayFails, ReplayEnd, ReplayCrash, ReleaseChanges

-----------------------------------------------------------------------------
(* What is written down before an item is marked seen. *)

\* The queue and the local log only grow.
LEMMA TablesGrow ==
  [Next]_vars => queued \subseteq queued' /\ recorded \subseteq recorded'
BY DEF Next, ScanStep, ReplayStep, vars, tableVars, StartRun, StopEarly, Collect, Scope,
       PassOver, WriteJob, BeginJob, Judge, ProviderFails, PassThreeDone, Record, FinishCut,
       QueueFindings, Remember, QueueLog, Finish, ScanCrash, SyncKnowledge, ReplayStart,
       ReplaySkip, ReplayBegin, ReplayJudge, ReplayFails, ReplayQueue, ReplayEnd,
       ReplayCrash, ReleaseChanges

\* One scan writes its batch down in order: each candidate in the log, then all
\* of them in the queue.
LEMMA ScanBatchOK ==
  ASSUME TypeOK, BatchOK, NEW s \in Scanners, ScanStep(s),
         queued \subseteq queued', recorded \subseteq recorded'
  PROVE  /\ pc'[s] = "record" => run'[s].found \ run'[s].todo \subseteq recorded'
         /\ pc'[s] \in {"queue", "remember"} => run'[s].found \subseteq recorded'
         /\ pc'[s] = "remember" => run'[s].found \subseteq QueuedItems'
<1> USE DEF Goto
<1>0. run[s] \in Locals /\ s \in DOMAIN run /\ s \in DOMAIN pc
  BY DEF TypeOK
<1>1. CASE PassThreeDone(s)
  <2>1. run'[s] = [run[s] EXCEPT !.todo = @ \cup run[s].found]
    BY <1>0, <1>1 DEF PassThreeDone, Become
  <2>2. run'[s].found = run[s].found /\ run'[s].todo = run[s].todo \cup run[s].found
    BY <1>0, <2>1 DEF Locals
  <2> QED
    BY <1>0, <1>1, <2>2 DEF PassThreeDone
<1>2. CASE Record(s)
  <2>1. PICK i \in run[s].todo :
          /\ recorded' = recorded \cup {i}
          /\ Become(s, [run[s] EXCEPT !.todo = @ \ {i}])
    BY <1>2 DEF Record
  <2>2. run'[s].found = run[s].found /\ run'[s].todo = run[s].todo \ {i}
    BY <1>0, <2>1 DEF Become, Locals
  <2> QED
    BY <1>0, <1>2, <2>1, <2>2 DEF Record, BatchOK
<1>3. CASE FinishCut(s)
  BY <1>0, <1>3 DEF FinishCut, BatchOK, tableVars
<1>4. CASE QueueFindings(s)
  <2>1. ASSUME NEW i \in run[s].found PROVE i \in QueuedItems'
    <3> DEFINE f == [item |-> i, verdict |-> run[s].verdict[i], release |-> hand[s]]
    <3>1. f \in queued' /\ f.item = i
      BY <1>4, <2>1 DEF QueueFindings, FindingsOf
    <3> HIDE DEF f
    <3> QED
      BY <3>1 DEF QueuedItems
  <2> QED
    BY <1>0, <1>4, <2>1 DEF QueueFindings, BatchOK
<1>5. CASE pc'[s] \notin {"record", "queue", "remember"}
  BY <1>5
<1> QED
  BY <1>0, <1>1, <1>2, <1>3, <1>4, <1>5
     DEF ScanStep, StartRun, StopEarly, Collect, Scope, PassOver, WriteJob, BeginJob, Judge,
         ProviderFails, Remember, QueueLog, Finish, ScanCrash

\* And no other process undoes it.
LEMMA StepBatchOK == ScanInv /\ [Next]_vars => BatchOK'
<1> SUFFICES ASSUME ScanInv, [Next]_vars PROVE BatchOK'
  OBVIOUS
<1>0. TypeOK /\ BatchOK
  BY DEF ScanInv
<1>1. queued \subseteq queued' /\ recorded \subseteq recorded'
  BY TablesGrow
<1>2. QueuedItems \subseteq QueuedItems'
  BY <1>1 DEF QueuedItems
<1> DEFINE
  Batch(s) ==
    /\ pc[s] = "record" => run[s].found \ run[s].todo \subseteq recorded
    /\ pc[s] \in {"queue", "remember"} => run[s].found \subseteq recorded
    /\ pc[s] = "remember" => run[s].found \subseteq QueuedItems
<1>3. ASSUME NEW s \in Scanners, pc'[s] = pc[s] /\ run'[s] = run[s] PROVE Batch(s)'
  BY <1>0, <1>1, <1>2, <1>3 DEF BatchOK
<1>4. ASSUME NEW s \in Scanners, ScanStep(s) PROVE BatchOK'
  <2>1. Batch(s)'
    BY <1>0, <1>1, <1>4, ScanBatchOK
  <2> QED
    BY <1>0, <1>3, <1>4, <2>1, OthersStandStill DEF BatchOK
<1>5. ASSUME NEW r \in Replayers, ReplayStep(r) PROVE BatchOK'
  BY <1>0, <1>3, <1>5, ScansStandStill DEF BatchOK, scanVars
<1>6. CASE ReleaseChanges
  BY <1>3, <1>6 DEF ReleaseChanges, scanVars, BatchOK
<1>7. CASE UNCHANGED vars
  BY <1>3, <1>7 DEF vars, scanVars, BatchOK
<1> QED
  BY <1>4, <1>5, <1>6, <1>7 DEF Next

\* remember() finds its batch in the log and in the queue.
LEMMA StepSeenIsQueued == ScanInv /\ [Next]_vars => SeenIsQueued'
<1> SUFFICES ASSUME ScanInv, [Next]_vars PROVE SeenIsQueued'
  OBVIOUS
<1>1. queued \subseteq queued' /\ recorded \subseteq recorded'
  BY TablesGrow
<1>2. ASSUME NEW s \in Scanners, Remember(s) PROVE SeenIsQueued'
  BY <1>1, <1>2 DEF Remember, ScanInv, BatchOK, SeenIsQueued, QueuedItems
<1>3. CASE UNCHANGED seen
  BY <1>1, <1>3 DEF ScanInv, SeenIsQueued, QueuedItems
<1> QED
  BY <1>2, <1>3
     DEF Next, ScanStep, ReplayStep, vars, tableVars, StartRun, StopEarly, Collect, Scope,
         PassOver, WriteJob, BeginJob, Judge, ProviderFails, PassThreeDone, Record, FinishCut,
         QueueFindings, QueueLog, Finish, ScanCrash, SyncKnowledge, ReplayStart, ReplaySkip,
         ReplayBegin, ReplayJudge, ReplayFails, ReplayQueue, ReplayEnd, ReplayCrash,
         ReleaseChanges

-----------------------------------------------------------------------------
(* The order in which the money is spent. *)

Ordered(s) ==
  /\ pc[s] \in {"picked", "scope"} => run[s].verdict = Blank.verdict
  /\ pc[s] \in {"job", "calling"} =>
       run[s].money > 0 /\ (run[s].job[1] \in run[s].hits \/ run[s].hits \cap run[s].todo = {})
  /\ pc[s] \in {"assess", "job", "calling"} /\ AskedUnmatched(s) =>
       run[s].hits \cap run[s].todo = {}
  /\ (\E i \in Items : run[s].verdict[i] = "match_only") => run[s].money = 0
  /\ pc[s] \in {"queue", "remember", "log", "deliver"} => run[s].todo = {}

SpentFirst(s) ==
  AskedUnmatched(s) =>
    \A h \in run[s].hits :
      /\ run[s].verdict[h] # "match_only"
      /\ h \in run[s].todo => pc[s] = "record"

\* While one that matched is left, the next one up is a match (scan.py:668).
LEMMA NextUpIsMatched ==
  ASSUME TypeOK, NEW s \in Scanners, NEW i \in NextUp(s)
  PROVE  i \in run[s].hits \/ run[s].hits \cap run[s].todo = {}
BY DEF NextUp

\* A judgement keeps the order: passing a match over for want of money leaves
\* nothing to spend on the others, and asking about one without a match takes
\* that no match is left and none was passed over.
LEMMA JudgedOrdered ==
  ASSUME TypeOK, NEW s \in Scanners, Ordered(s), SpentFirst(s),
         NEW i \in Items, NEW v \in Verdicts, NEW cost \in Nat, Judged(s, i, v, cost),
         pc[s] \in {"assess", "calling"}, pc'[s] = "assess",
         i \in run[s].hits \/ run[s].hits \cap run[s].todo = {},
         v = "match_only" => run[s].money = 0 /\ i \in run[s].todo,
         v \in AskedModel => run[s].money > 0
  PROVE  Ordered(s)' /\ SpentFirst(s)'
<1>1. /\ run' \in [Scanners -> Locals]
      /\ run'[s].found = run[s].found /\ run'[s].hits = run[s].hits
      /\ run'[s].todo = run[s].todo \ {i}
      /\ run'[s].money = Less(run[s].money, cost)
      /\ run'[s].verdict = [run[s].verdict EXCEPT ![i] = v]
  BY JudgedKeepsLocals
<1>2. run[s] \in Locals
  BY DEF TypeOK
<1>3. ASSUME NEW k \in Items
      PROVE  run'[s].verdict[k] = IF k = i THEN v ELSE run[s].verdict[k]
  BY <1>1, <1>2 DEF Locals
<1>4. run[s].found \subseteq Items /\ run[s].hits \subseteq Items /\ run[s].money \in Nat
  BY <1>2 DEF Locals
<1>5. (\E k \in Items : run'[s].verdict[k] = "match_only") => run'[s].money = 0
  <2>1. run[s].money = 0 => run'[s].money = 0
    BY <1>1 DEF Less
  <2> QED
    BY <1>3, <2>1 DEF Ordered
<1>6. ASSUME AskedUnmatched(s)'
      PROVE  /\ run[s].hits \cap run'[s].todo = {}
             /\ \A h \in run[s].hits : run'[s].verdict[h] # "match_only"
  <2>1. CASE AskedUnmatched(s)
    <3>1. run[s].hits \cap run'[s].todo = {} /\ run[s].hits \cap run[s].todo = {}
      BY <1>1, <2>1 DEF Ordered, SpentFirst
    <3> QED
      BY <1>3, <1>4, <2>1, <3>1 DEF SpentFirst
  <2>2. CASE ~AskedUnmatched(s)
    <3>1. i \notin run[s].hits /\ v \in AskedModel
      BY <1>1, <1>3, <1>4, <1>6, <2>2 DEF AskedUnmatched
    <3>2. \A h \in run[s].hits : run[s].verdict[h] # "match_only"
      BY <1>4, <3>1 DEF Ordered
    <3> QED
      BY <1>1, <1>3, <1>4, <3>1, <3>2
  <2> QED
    BY <2>1, <2>2
<1> QED
  BY <1>1, <1>5, <1>6 DEF Ordered, SpentFirst

\* A step that leaves judgements, matches and money alone keeps the order, as
\* long as no pass begins with it.
LEMMA OrderedStays ==
  ASSUME NEW s \in Scanners, Ordered(s), SpentFirst(s),
         run'[s].found = run[s].found, run'[s].hits = run[s].hits,
         run'[s].verdict = run[s].verdict, run'[s].money = run[s].money,
         pc'[s] \notin {"picked", "scope", "assess", "job", "calling"},
         pc'[s] # "record" => run'[s].todo = {}
  PROVE  Ordered(s)' /\ SpentFirst(s)'
BY DEF Ordered, SpentFirst, AskedUnmatched

\* One scan spends in order.
LEMMA ScanOrdered ==
  ASSUME TypeOK, TypeOK', PositionsOK, NEW s \in Scanners, ScanStep(s),
         Ordered(s), SpentFirst(s)
  PROVE  Ordered(s)' /\ SpentFirst(s)'
<1> USE DEF Goto
<1>0. /\ run[s] \in Locals /\ run'[s] \in Locals
      /\ s \in DOMAIN run /\ s \in DOMAIN pc /\ pc[s] \in ScanPositions
  BY DEF TypeOK
<1>a. ASSUME run'[s].verdict = Blank.verdict, pc'[s] \in {"idle", "picked", "scope", "assess"}
      PROVE  Ordered(s)' /\ SpentFirst(s)'
  <2>1. ~AskedUnmatched(s)' /\ \A i \in Items : run'[s].verdict[i] # "match_only"
    BY <1>0, <1>a DEF AskedUnmatched, AskedModel, Blank, Locals
  <2> QED
    BY <1>a, <2>1 DEF Ordered, SpentFirst
<1>1. ASSUME NEW n \in 0 .. MaxRoom, NEW m \in 0 .. MaxMoney, StartRun(s, n, m)
      PROVE  run'[s].verdict = Blank.verdict /\ pc'[s] = "picked"
  BY <1>0, <1>1 DEF StartRun, Become, PositionsOK, Locals
<1>2. CASE StopEarly(s) \/ Finish(s) \/ ScanCrash(s)
  BY <1>0, <1>2, <1>a DEF StopEarly, Finish, ScanCrash, Become
<1>3. ASSUME NEW offered \in SUBSET Items, NEW stop \in BOOLEAN, Collect(s, offered, stop)
      PROVE  run'[s].verdict = Blank.verdict /\ pc'[s] = "scope"
  <2>1. PICK kept : Become(s, [run[s] EXCEPT !.found = kept, !.cut = stop])
    BY <1>3 DEF Collect
  <2>2. run'[s].verdict = run[s].verdict
    BY <1>0, <2>1 DEF Become, Locals
  <2>3. pc[s] = "picked" /\ pc'[s] = "scope"
    BY <1>0, <1>3 DEF Collect
  <2> QED
    BY <2>2, <2>3 DEF Ordered
<1>4. CASE Scope(s)
  <2>1. run'[s].verdict = run[s].verdict
    BY <1>0, <1>4 DEF Scope, Become, Locals
  <2>2. pc[s] = "scope" /\ pc'[s] = "assess"
    BY <1>0, <1>4 DEF Scope
  <2>3. run'[s].verdict = Blank.verdict
    BY <2>1, <2>2 DEF Ordered
  <2> QED
    BY <2>2, <2>3, <1>a
<1>5. CASE PassOver(s)
  <2>1. PICK i \in NextUp(s) :
          \/ ~Assessable(s, i) /\ Judged(s, i, "context", 0)
          \/ Assessable(s, i) /\ run[s].money = 0 /\ Judged(s, i, "match_only", 0)
    BY <1>5 DEF PassOver
  <2>2. PICK v \in {"context", "match_only"} :
          Judged(s, i, v, 0) /\ (v = "match_only" => run[s].money = 0)
    BY <2>1
  <2>3. i \in Items /\ i \in run[s].todo /\ (i \in run[s].hits \/ run[s].hits \cap run[s].todo = {})
    BY NextUpIsLeft, NextUpIsMatched
  <2>4. v \in Verdicts /\ v \notin AskedModel /\ pc[s] = "assess" /\ pc'[s] = "assess"
    BY <1>5 DEF Verdicts, AskedModel, PassOver
  <2> QED
    BY <2>2, <2>3, <2>4, JudgedOrdered
<1>6. CASE WriteJob(s)
  <2>1. PICK i \in NextUp(s) : Become(s, [run[s] EXCEPT !.job = <<i, hand[s]>>])
    BY <1>6 DEF WriteJob
  <2>2. i \in run[s].hits \/ run[s].hits \cap run[s].todo = {}
    BY NextUpIsMatched
  <2>3. /\ run'[s].found = run[s].found /\ run'[s].hits = run[s].hits
        /\ run'[s].todo = run[s].todo /\ run'[s].money = run[s].money
        /\ run'[s].verdict = run[s].verdict /\ run'[s].job[1] = i
    BY <1>0, <2>1 DEF Become, Locals
  <2>4. pc[s] = "assess" /\ pc'[s] = "job" /\ run[s].money > 0
    BY <1>0, <1>6 DEF WriteJob
  <2> QED
    BY <2>2, <2>3, <2>4 DEF Ordered, SpentFirst, AskedUnmatched
<1>7. CASE BeginJob(s)
  BY <1>0, <1>7 DEF BeginJob, Ordered, SpentFirst, AskedUnmatched
<1>8. CASE Judge(s) \/ ProviderFails(s)
  <2>1. run[s].job[1] \in Items
    BY <1>8 DEF Judge, ProviderFails, PositionsOK
  <2>2. PICK v \in {"model", "unanswered"}, cost \in 0 .. 2 :
          Judged(s, run[s].job[1], v, cost)
    BY <1>8 DEF Judge, ProviderFails
  <2>3. v \in Verdicts /\ v # "match_only" /\ cost \in Nat
    BY DEF Verdicts
  <2>4. pc[s] = "calling" /\ pc'[s] = "assess"
    BY <1>0, <1>8 DEF Judge, ProviderFails
  <2> QED
    BY <2>1, <2>2, <2>3, <2>4, JudgedOrdered DEF Ordered
<1>9. CASE PassThreeDone(s) \/ Record(s)
  <2>1. /\ run'[s].found = run[s].found /\ run'[s].hits = run[s].hits
        /\ run'[s].money = run[s].money /\ run'[s].verdict = run[s].verdict
    BY <1>0, <1>9 DEF PassThreeDone, Record, Become, Locals
  <2>2. pc'[s] = "record"
    BY <1>0, <1>9 DEF PassThreeDone, Record
  <2> QED
    BY <2>1, <2>2, OrderedStays
<1>10. CASE FinishCut(s) \/ QueueFindings(s) \/ Remember(s)
  <2>1. run' = run /\ pc'[s] \in {"queue", "remember", "log"} /\ run[s].todo = {}
    BY <1>0, <1>10 DEF FinishCut, QueueFindings, Remember, Ordered
  <2> QED
    BY <2>1, OrderedStays
<1>11. CASE QueueLog(s)
  <2>1. /\ run'[s].found = run[s].found /\ run'[s].hits = run[s].hits
        /\ run'[s].money = run[s].money /\ run'[s].verdict = run[s].verdict
        /\ run'[s].todo = run[s].todo
    BY <1>0, <1>11 DEF QueueLog, Become, Locals
  <2>2. pc[s] = "log" /\ pc'[s] = "deliver"
    BY <1>0, <1>11 DEF QueueLog
  <2> QED
    BY <2>1, <2>2, OrderedStays DEF Ordered
<1> QED
  BY <1>a, <1>1, <1>2, <1>3, <1>4, <1>5, <1>6, <1>7, <1>8, <1>9, <1>10, <1>11 DEF ScanStep

\* And what one scan spends is no other's.
LEMMA StepOrderOK == ScanInv /\ [Next]_vars => OrderOK' /\ MatchedFirst'
<1> SUFFICES ASSUME ScanInv, [Next]_vars PROVE OrderOK' /\ MatchedFirst'
  OBVIOUS
<1>0. TypeOK /\ PositionsOK /\ TypeOK'
  BY StepTypeOK DEF ScanInv
<1>1. \A s \in Scanners : Ordered(s) /\ SpentFirst(s)
  BY DEF ScanInv, OrderOK, MatchedFirst, Ordered, SpentFirst
<1>2. ASSUME NEW s \in Scanners, pc'[s] = pc[s] /\ run'[s] = run[s]
      PROVE  Ordered(s)' /\ SpentFirst(s)'
  BY <1>1, <1>2 DEF Ordered, SpentFirst, AskedUnmatched
<1>3. ASSUME NEW s \in Scanners, ScanStep(s), NEW q \in Scanners
      PROVE  Ordered(q)' /\ SpentFirst(q)'
  BY <1>0, <1>1, <1>2, <1>3, ScanOrdered, OthersStandStill
<1>4. ASSUME NEW r \in Replayers, ReplayStep(r), NEW q \in Scanners
      PROVE  Ordered(q)' /\ SpentFirst(q)'
  BY <1>0, <1>2, <1>4, ScansStandStill DEF scanVars
<1>5. CASE ReleaseChanges
  BY <1>2, <1>5 DEF ReleaseChanges, scanVars, OrderOK, MatchedFirst, Ordered, SpentFirst
<1>6. CASE UNCHANGED vars
  BY <1>2, <1>6 DEF vars, scanVars, OrderOK, MatchedFirst, Ordered, SpentFirst
<1> QED
  BY <1>3, <1>4, <1>5, <1>6 DEF Next, OrderOK, MatchedFirst, Ordered, SpentFirst

-----------------------------------------------------------------------------
(* How often an item is queued. *)

RowOK(i) ==
  rows[i] <= crashes + Cardinality(IF i \in seen THEN Scanners \ Carrying(i) ELSE Written(i))

\* There are finitely many scans of any kind.
LEMMA ScansAreCounted ==
  ASSUME NEW S \in SUBSET Scanners
  PROVE  /\ IsFiniteSet(S) /\ Cardinality(S) \in Nat
         /\ \A T \in SUBSET S : Cardinality(T) \in Nat /\ Cardinality(T) <= Cardinality(S)
<1>1. IsFiniteSet(S)
  BY FS_Subset
<1>2. \A T \in SUBSET S : IsFiniteSet(T) /\ Cardinality(T) <= Cardinality(S)
  BY <1>1, FS_Subset
<1> QED
  BY <1>1, <1>2, FS_CardinalityType

\* One scan more or less counts for one.
LEMMA OneScanCounts ==
  ASSUME NEW S \in SUBSET Scanners, NEW s \in Scanners
  PROVE  /\ s \notin S => Cardinality(S \cup {s}) = Cardinality(S) + 1
         /\ Cardinality(S) <= Cardinality(S \ {s}) + 1
<1>1. IsFiniteSet(S) /\ Cardinality(S) \in Nat
  BY ScansAreCounted
<1>2. Cardinality(S \cup {s}) = IF s \in S THEN Cardinality(S) ELSE Cardinality(S) + 1
  BY <1>1, FS_AddElement
<1>3. Cardinality(S \ {s}) = IF s \in S THEN Cardinality(S) - 1 ELSE Cardinality(S)
  BY <1>1, FS_RemoveElement
<1> QED
  BY <1>1, <1>2, <1>3

\* A step that writes no row keeps the count, if it neither lets a new scan
\* carry what is seen nor lets one that wrote forget to mark what is not.
LEMMA RowStays ==
  ASSUME TypeOK, TypeOK', NEW i \in Items, RowOK(i),
         rows'[i] = rows[i], crashes <= crashes', i \in seen' <=> i \in seen,
         i \in seen => Carrying(i)' \subseteq Carrying(i),
         i \notin seen => Written(i) \subseteq Written(i)'
  PROVE  RowOK(i)'
<1>0. rows[i] \in Nat /\ crashes \in Nat /\ crashes' \in Nat
  BY DEF TypeOK
<1>1. CASE i \in seen
  <2>1. Scanners \ Carrying(i) \subseteq Scanners \ Carrying(i)'
    BY <1>1
  <2>2. /\ Cardinality(Scanners \ Carrying(i)) \in Nat
        /\ Cardinality(Scanners \ Carrying(i)') \in Nat
        /\ Cardinality(Scanners \ Carrying(i)) <= Cardinality(Scanners \ Carrying(i)')
    BY <2>1, ScansAreCounted
  <2>3. rows[i] <= crashes + Cardinality(Scanners \ Carrying(i))
    BY <1>1 DEF RowOK
  <2>4. rows'[i] <= crashes' + Cardinality(Scanners \ Carrying(i)')
    BY <1>0, <2>2, <2>3
  <2> QED
    BY <1>1, <2>4 DEF RowOK
<1>2. CASE i \notin seen
  <2>1. Written(i)' \in SUBSET Scanners /\ Written(i) \in SUBSET Written(i)'
    BY <1>2 DEF Written
  <2>2. /\ Cardinality(Written(i)) \in Nat /\ Cardinality(Written(i)') \in Nat
        /\ Cardinality(Written(i)) <= Cardinality(Written(i)')
    BY <2>1, ScansAreCounted
  <2>3. rows[i] <= crashes + Cardinality(Written(i))
    BY <1>2 DEF RowOK
  <2>4. rows'[i] <= crashes' + Cardinality(Written(i)')
    BY <1>0, <2>2, <2>3
  <2> QED
    BY <1>2, <2>4 DEF RowOK
<1> QED
  BY <1>1, <1>2

\* A row is written by a scan that carried the item, and marks it next.
LEMMA QueueRowOK ==
  ASSUME TypeOK, TypeOK', NEW i \in Items, RowOK(i), NEW s \in Scanners, QueueFindings(s)
  PROVE  RowOK(i)'
<1>0. rows[i] \in Nat /\ crashes \in Nat /\ s \in DOMAIN pc
  BY DEF TypeOK
<1>1. /\ pc[s] = "queue" /\ pc' = [pc EXCEPT ![s] = "remember"]
      /\ run' = run /\ seen' = seen /\ crashes' = crashes
      /\ rows'[i] = IF i \in run[s].found THEN rows[i] + 1 ELSE rows[i]
  BY DEF QueueFindings, Goto
<1>2. CASE i \notin run[s].found
  <2>1. Carrying(i)' = Carrying(i) /\ Written(i)' = Written(i)
    BY <1>0, <1>1, <1>2 DEF Carrying, Written, TypeOK
  <2> QED
    BY <1>0, <1>1, <1>2, <2>1, RowStays
<1>3. CASE i \in run[s].found
  <2>1. s \in Carrying(i) /\ Carrying(i)' = Carrying(i) \ {s}
    BY <1>0, <1>1, <1>3 DEF Carrying, TypeOK
  <2>2. s \notin Written(i) /\ Written(i)' = Written(i) \cup {s}
    BY <1>0, <1>1, <1>3 DEF Written, TypeOK
  <2>3. CASE i \in seen
    <3> DEFINE T == Scanners \ Carrying(i)
    <3>1. Scanners \ Carrying(i)' = T \cup {s} /\ s \notin T /\ T \in SUBSET Scanners
      BY <2>1
    <3>2. Cardinality(T) \in Nat /\ Cardinality(T \cup {s}) = Cardinality(T) + 1
      BY <3>1, OneScanCounts, ScansAreCounted
    <3>3. rows[i] <= crashes + Cardinality(T)
      BY <2>3 DEF RowOK
    <3>4. rows'[i] <= crashes' + Cardinality(T \cup {s})
      BY <1>0, <1>1, <1>3, <3>2, <3>3
    <3> QED
      BY <1>1, <2>3, <3>1, <3>4 DEF RowOK
  <2>4. CASE i \notin seen
    <3>1. Written(i) \in SUBSET Scanners
      BY DEF Written
    <3>2. /\ Cardinality(Written(i)) \in Nat
          /\ Cardinality(Written(i) \cup {s}) = Cardinality(Written(i)) + 1
      BY <2>2, <3>1, OneScanCounts, ScansAreCounted
    <3>3. rows[i] <= crashes + Cardinality(Written(i))
      BY <2>4 DEF RowOK
    <3>4. rows'[i] <= crashes' + Cardinality(Written(i) \cup {s})
      BY <1>0, <1>1, <1>3, <3>2, <3>3
    <3> QED
      BY <1>1, <2>2, <2>4, <3>4 DEF RowOK
  <2> QED
    BY <2>3, <2>4
<1> QED
  BY <1>2, <1>3

\* Who marks an item seen wrote it and carries it no more, and so do all the
\* others that wrote it.
LEMMA RememberRowOK ==
  ASSUME TypeOK, TypeOK', NEW i \in Items, RowOK(i), NEW s \in Scanners, Remember(s)
  PROVE  RowOK(i)'
<1>0. rows[i] \in Nat /\ crashes \in Nat /\ s \in DOMAIN pc
  BY DEF TypeOK
<1>1. /\ pc[s] = "remember" /\ pc' = [pc EXCEPT ![s] = "log"]
      /\ run' = run /\ rows' = rows /\ crashes' = crashes /\ seen' = seen \cup run[s].found
  BY DEF Remember, Goto
<1>2. Carrying(i)' = Carrying(i)
  BY <1>0, <1>1 DEF Carrying, TypeOK
<1>3. CASE i \in seen \/ i \notin run[s].found
  <2>1. i \notin run[s].found => Written(i)' = Written(i)
    BY <1>0, <1>1 DEF Written, TypeOK
  <2> QED
    BY <1>0, <1>1, <1>2, <1>3, <2>1, RowStays
<1>4. CASE i \notin seen /\ i \in run[s].found
  <2>1. Written(i) \in SUBSET (Scanners \ Carrying(i))
    BY DEF Written, Carrying
  <2>2. /\ Cardinality(Written(i)) \in Nat /\ Cardinality(Scanners \ Carrying(i)) \in Nat
        /\ Cardinality(Written(i)) <= Cardinality(Scanners \ Carrying(i))
    BY <2>1, ScansAreCounted
  <2>3. rows[i] <= crashes + Cardinality(Written(i))
    BY <1>4 DEF RowOK
  <2>4. rows[i] <= crashes + Cardinality(Scanners \ Carrying(i))
    BY <1>0, <2>2, <2>3
  <2> QED
    BY <1>1, <1>2, <1>4, <2>4 DEF RowOK
<1> QED
  BY <1>3, <1>4

\* A crash takes one scan out of the count and is itself counted.
LEMMA CrashRowOK ==
  ASSUME TypeOK, TypeOK', NEW i \in Items, RowOK(i), NEW s \in Scanners, ScanCrash(s)
  PROVE  RowOK(i)'
<1>0. rows[i] \in Nat /\ crashes \in Nat /\ s \in DOMAIN pc /\ s \in DOMAIN run
  BY DEF TypeOK
<1>1. /\ pc' = [pc EXCEPT ![s] = "idle"] /\ run' = [run EXCEPT ![s] = Blank]
      /\ seen' = seen /\ rows' = rows /\ crashes' = crashes + 1
  BY DEF ScanCrash, Goto, Become, tableVars
<1>2. Carrying(i)' = Carrying(i) \ {s} /\ Written(i)' = Written(i) \ {s}
  BY <1>0, <1>1 DEF Carrying, Written, TypeOK, Blank
<1>3. CASE i \in seen
  BY <1>0, <1>1, <1>2, <1>3, RowStays
<1>4. CASE i \notin seen
  <2>1. Written(i) \in SUBSET Scanners /\ Written(i) \ {s} \in SUBSET Scanners
    BY DEF Written
  <2>2. /\ Cardinality(Written(i)) \in Nat /\ Cardinality(Written(i) \ {s}) \in Nat
        /\ Cardinality(Written(i)) <= Cardinality(Written(i) \ {s}) + 1
    BY <2>1, OneScanCounts, ScansAreCounted
  <2>3. rows[i] <= crashes + Cardinality(Written(i))
    BY <1>4 DEF RowOK
  <2>4. rows'[i] <= crashes' + Cardinality(Written(i) \ {s})
    BY <1>0, <1>1, <2>2, <2>3
  <2> QED
    BY <1>1, <1>2, <1>4, <2>4 DEF RowOK
<1> QED
  BY <1>3, <1>4

\* Every other step of a scan leaves its batch and its place before or after the
\* row, or collects what is not seen.
LEMMA CarryingStays ==
  ASSUME TypeOK, NEW i \in Items, NEW s \in Scanners, ScanStep(s),
         ~QueueFindings(s), ~Remember(s), ~ScanCrash(s)
  PROVE  /\ UNCHANGED <<rows, seen, crashes>>
         /\ i \in seen => Carrying(i)' \subseteq Carrying(i)
         /\ Written(i) \subseteq Written(i)'
<1> USE DEF Goto
<1>0. run[s] \in Locals /\ s \in DOMAIN run /\ s \in DOMAIN pc
  BY DEF TypeOK
<1>1. UNCHANGED <<rows, seen, crashes>>
  BY DEF ScanStep, StartRun, StopEarly, Collect, Scope, PassOver, WriteJob, BeginJob, Judge,
         ProviderFails, PassThreeDone, Record, FinishCut, QueueLog, Finish, tableVars
<1>2. pc[s] # "remember"
  BY DEF ScanStep, StartRun, StopEarly, Collect, Scope, PassOver, WriteJob, BeginJob, Judge,
         ProviderFails, PassThreeDone, Record, FinishCut, QueueLog, Finish
<1>3. Written(i) \subseteq Written(i)'
  BY <1>2, OthersStandStill DEF Written
<1>4. ASSUME i \in seen, i \in run'[s].found, pc'[s] \notin {"remember", "log", "deliver"}
      PROVE  i \in run[s].found /\ pc[s] \notin {"remember", "log", "deliver"}
  <2>1. ASSUME NEW n \in 0 .. MaxRoom, NEW m \in 0 .. MaxMoney, StartRun(s, n, m)
        PROVE  run'[s].found = run[s].found /\ pc[s] = "idle"
    BY <1>0, <2>1 DEF StartRun, Become, Locals
  <2>2. ASSUME NEW offered \in SUBSET Items, NEW stop \in BOOLEAN, Collect(s, offered, stop)
        PROVE  i \notin run'[s].found
    <3>1. PICK kept \in SUBSET Fresh(offered) :
            Become(s, [run[s] EXCEPT !.found = kept, !.cut = stop])
      BY <2>2 DEF Collect
    <3>2. run'[s].found = kept
      BY <1>0, <3>1 DEF Become, Locals
    <3> QED
      BY <1>4, <3>2 DEF Fresh
  <2>3. CASE StopEarly(s) \/ Finish(s)
    BY <1>0, <1>4, <2>3 DEF StopEarly, Finish, Become, Blank
  <2>4. CASE Scope(s) \/ WriteJob(s) \/ PassThreeDone(s) \/ Record(s)
    <3>1. Scope(s) => run'[s].found = run[s].found
      BY <1>0 DEF Scope, Become, Locals
    <3>2. WriteJob(s) => run'[s].found = run[s].found
      BY <1>0 DEF WriteJob, Become, Locals
    <3>3. PassThreeDone(s) \/ Record(s) => run'[s].found = run[s].found
      BY <1>0 DEF PassThreeDone, Record, Become, Locals
    <3>4. run'[s].found = run[s].found
      BY <2>4, <3>1, <3>2, <3>3
    <3> QED
      BY <1>4, <2>4, <3>4 DEF Scope, WriteJob, PassThreeDone, Record
  <2>5. CASE PassOver(s) \/ Judge(s) \/ ProviderFails(s)
    <3>1. PICK k, v, cost : Judged(s, k, v, cost)
      BY <2>5 DEF PassOver, Judge, ProviderFails
    <3>2. run'[s].found = run[s].found
      BY <1>0, <3>1 DEF Judged, Become, Locals
    <3> QED
      BY <1>4, <2>5, <3>2 DEF PassOver, Judge, ProviderFails
  <2>6. CASE BeginJob(s) \/ FinishCut(s)
    BY <1>0, <1>4, <2>6 DEF BeginJob, FinishCut
  <2>7. CASE QueueLog(s)
    BY <1>0, <1>4, <2>7 DEF QueueLog
  <2> QED
    BY <1>4, <2>1, <2>2, <2>3, <2>4, <2>5, <2>6, <2>7 DEF ScanStep
<1>5. i \in seen => Carrying(i)' \subseteq Carrying(i)
  BY <1>4, OthersStandStill DEF Carrying
<1> QED
  BY <1>1, <1>3, <1>5

\* No step writes a row too many.
LEMMA StepRowsOK == ScanInv /\ [Next]_vars => RowsOK'
<1> SUFFICES ASSUME ScanInv, [Next]_vars, NEW i \in Items PROVE RowOK(i)'
  BY DEF RowsOK, RowOK
<1>0. TypeOK /\ TypeOK' /\ RowOK(i)
  BY StepTypeOK DEF ScanInv, RowsOK, RowOK
<1>a. crashes \in Nat
  BY <1>0 DEF TypeOK
<1>1. ASSUME NEW s \in Scanners, ScanStep(s) PROVE RowOK(i)'
  <2>1. CASE QueueFindings(s)
    BY <1>0, <2>1, QueueRowOK
  <2>2. CASE Remember(s)
    BY <1>0, <2>2, RememberRowOK
  <2>3. CASE ScanCrash(s)
    BY <1>0, <2>3, CrashRowOK
  <2>4. CASE ~QueueFindings(s) /\ ~Remember(s) /\ ~ScanCrash(s)
    BY <1>0, <1>1, <1>a, <2>4, CarryingStays, RowStays
  <2> QED
    BY <2>1, <2>2, <2>3, <2>4
<1>2. ASSUME NEW r \in Replayers, ReplayStep(r) PROVE RowOK(i)'
  <2>1. rows' = rows /\ seen' = seen /\ crashes' \in {crashes, crashes + 1} /\ UNCHANGED scanVars
    BY <1>2 DEF ReplayStep, SyncKnowledge, ReplayStart, ReplaySkip, ReplayBegin, ReplayJudge,
                ReplayFails, ReplayQueue, ReplayEnd, ReplayCrash, tableVars
  <2>2. Carrying(i)' = Carrying(i) /\ Written(i)' = Written(i)
    BY <2>1 DEF Carrying, Written, scanVars
  <2> QED
    BY <1>0, <1>a, <2>1, <2>2, RowStays
<1>3. CASE ReleaseChanges \/ UNCHANGED vars
  <2>1. rows' = rows /\ seen' = seen /\ crashes' = crashes /\ UNCHANGED scanVars
    BY <1>3 DEF ReleaseChanges, vars, tableVars
  <2>2. Carrying(i)' = Carrying(i) /\ Written(i)' = Written(i)
    BY <2>1 DEF Carrying, Written, scanVars
  <2> QED
    BY <1>0, <1>a, <2>1, <2>2, RowStays
<1> QED
  BY <1>1, <1>2, <1>3 DEF Next

-----------------------------------------------------------------------------
(* The end of a run. *)

\* The log is queued once the batch is seen, and the run is closed once the log
\* is queued; nobody takes an item out of seen_item.
LEMMA StepLoggedOK == ScanInv /\ [Next]_vars => LoggedOK'
<1> SUFFICES ASSUME ScanInv, [Next]_vars PROVE LoggedOK'
  OBVIOUS
<1> DEFINE
  Logged(s) == /\ pc[s] \in {"log", "deliver"} => run[s].found \subseteq seen
               /\ pc[s] = "deliver" => run[s].logged
<1>0. TypeOK /\ LoggedOK
  BY DEF ScanInv
<1>1. seen \subseteq seen'
  BY DEF Next, ScanStep, ReplayStep, vars, tableVars, StartRun, StopEarly, Collect, Scope,
         PassOver, WriteJob, BeginJob, Judge, ProviderFails, PassThreeDone, Record, FinishCut,
         QueueFindings, Remember, QueueLog, Finish, ScanCrash, SyncKnowledge, ReplayStart,
         ReplaySkip, ReplayBegin, ReplayJudge, ReplayFails, ReplayQueue, ReplayEnd,
         ReplayCrash, ReleaseChanges
<1>2. ASSUME NEW s \in Scanners, pc'[s] = pc[s] /\ run'[s] = run[s] PROVE Logged(s)'
  BY <1>0, <1>1, <1>2 DEF LoggedOK
<1>3. ASSUME NEW s \in Scanners, ScanStep(s) PROVE LoggedOK'
  <2>0. run[s] \in Locals /\ s \in DOMAIN run /\ s \in DOMAIN pc
    BY <1>0 DEF TypeOK
  <2>1. Logged(s)'
    <3>1. CASE FinishCut(s)
      BY <1>0, <2>0, <3>1 DEF FinishCut, Goto
    <3>2. CASE Remember(s)
      BY <1>0, <2>0, <3>2 DEF Remember, Goto
    <3>3. CASE QueueLog(s)
      <4>1. run'[s].found = run[s].found /\ run'[s].logged
        BY <2>0, <3>3 DEF QueueLog, Become, Locals
      <4> QED
        BY <1>0, <1>1, <2>0, <3>3, <4>1 DEF QueueLog, Goto, LoggedOK
    <3>4. CASE pc'[s] \notin {"log", "deliver"}
      BY <3>4
    <3> QED
      BY <1>3, <2>0, <3>1, <3>2, <3>3, <3>4
         DEF ScanStep, StartRun, StopEarly, Collect, Scope, PassOver, WriteJob, BeginJob, Judge,
             ProviderFails, PassThreeDone, Record, QueueFindings, Finish, ScanCrash, Goto
  <2> QED
    BY <1>0, <1>2, <1>3, <2>1, OthersStandStill DEF LoggedOK
<1>4. ASSUME NEW r \in Replayers, ReplayStep(r) PROVE LoggedOK'
  BY <1>0, <1>2, <1>4, ScansStandStill DEF LoggedOK, scanVars
<1>5. CASE ReleaseChanges \/ UNCHANGED vars
  BY <1>2, <1>5 DEF ReleaseChanges, vars, scanVars, LoggedOK
<1> QED
  BY <1>3, <1>4, <1>5 DEF Next

-----------------------------------------------------------------------------
(* The ages of the jobs, and who holds them. *)

\* The rows have the ages 1, 2, ..., each its own.
Numbered ==
  /\ \A j \in Rowed : born[j] \in 1 .. Cardinality(Rowed)
  /\ \A i, j \in Rowed : born[i] = born[j] => i = j

\* A new row is younger than every other, and no operation takes a row away or
\* a job back to where it was not begun (jobs.py:53-110).
LEMMA JobRows ==
  ASSUME JobsTypeOK, Numbered, NEW j \in JobIds,
         \/ EnqueueJob(j)
         \/ j \in Rowed /\ (StartJob(j) \/ CompleteJob(j) \/ FailJob(j))
  PROVE  /\ Numbered'
         /\ Rowed \subseteq Rowed' /\ j \in Rowed'
         /\ ~EnqueueJob(j) => Begun(j)'
         /\ \A q \in JobIds : Begun(q) => Begun(q)'
<1> USE DEF JobsTypeOK
<1>0. Rowed \in SUBSET JobIds /\ IsFiniteSet(Rowed) /\ Cardinality(Rowed) \in Nat
  BY JobsAreFinite DEF Rowed
<1>1. CASE EnqueueJob(j) /\ jobs[j].state = "none"
  <2>1. /\ jobs' = [jobs EXCEPT ![j].state = "queued"]
        /\ born' = [born EXCEPT ![j] = Cardinality(Rowed) + 1]
    BY <1>1 DEF EnqueueJob
  <2>2. Rowed' = Rowed \cup {j} /\ j \notin Rowed
    BY <1>1, <2>1 DEF Rowed
  <2>3. Cardinality(Rowed') = Cardinality(Rowed) + 1
    BY <1>0, <2>2, FS_AddElement
  <2>4. born'[j] = Cardinality(Rowed) + 1 /\ \A q \in Rowed : born'[q] = born[q]
    BY <1>0, <2>1, <2>2
  <2>5. Numbered'
    BY <1>0, <2>2, <2>3, <2>4 DEF Numbered
  <2> QED
    BY <1>1, <2>1, <2>2, <2>5 DEF Begun
<1>2. CASE EnqueueJob(j) /\ jobs[j].state # "none"
  BY <1>2 DEF EnqueueJob, jobVars, Numbered, Rowed, Begun
<1>3. CASE j \in Rowed /\ (StartJob(j) \/ CompleteJob(j) \/ FailJob(j))
  <2>1. /\ born' = born
        /\ \A q \in JobIds \ {j} : jobs'[q] = jobs[q]
        /\ jobs'[j].state \in {"running", "completed", "failed"}
    BY <1>3 DEF StartJob, CompleteJob, FailJob
  <2>2. Rowed' = Rowed
    BY <1>3, <2>1 DEF Rowed
  <2> QED
    BY <1>3, <2>1, <2>2 DEF Numbered, Begun
<1> QED
  BY <1>1, <1>2, <1>3

\* replayable() returns limit rows, or all there are when there are fewer: the
\* oldest are always among them (jobs.py:113-125).
LEMMA ReplayableIsFull ==
  ASSUME JobsTypeOK, Numbered, NEW limit \in Nat
  PROVE  LET all == {j \in JobIds : IsReplayable(j)}
         IN  Cardinality(Replayable(limit)) = Least(limit, Cardinality(all))
<1> DEFINE all == {j \in JobIds : IsReplayable(j)}
           age == [j \in all |-> born[j]]
<1>1. IsFiniteSet(all) /\ all \subseteq Rowed
  <2>1. all \in SUBSET JobIds
    OBVIOUS
  <2> QED
    BY <2>1, JobsAreFinite DEF IsReplayable, Rowed
<1>2. age \in Ages(all)
  BY <1>1 DEF Ages, Numbered, JobsTypeOK
<1>3. Replayable(limit) = FirstN(all, age, limit)
  <2>1. \A j \in all : Before(all, age, j) = {q \in all : born[q] < born[j]}
    BY DEF Before
  <2> QED
    BY <2>1 DEF Replayable, FirstN, Rank
<1> HIDE DEF all, age
<1>4. Cardinality(Replayable(limit)) = Least(limit, Cardinality(all))
  BY <1>1, <1>2, <1>3, FirstNAreCounted
<1> QED
  BY <1>4 DEF all

\* Whoever takes the step, the rows stay numbered and what was begun stays so.
LEMMA JobTableMoves ==
  ASSUME TypeOK, PositionsOK, JobsOK, [Next]_vars
  PROVE  /\ Numbered' /\ Rowed \subseteq Rowed'
         /\ \A q \in JobIds : Begun(q) => Begun(q)'
<1> DEFINE Moves == /\ Numbered' /\ Rowed \subseteq Rowed'
                    /\ \A q \in JobIds : Begun(q) => Begun(q)'
<1>0. JobsTypeOK /\ Numbered
  BY DEF TypeOK, JobsOK, Numbered
<1>1. \A j \in JobIds : Begun(j) => j \in Rowed
  BY DEF Begun, Rowed
<1>2. CASE UNCHANGED jobVars
  BY <1>0, <1>2 DEF jobVars, Numbered, Rowed, Begun
<1>3. ASSUME NEW s \in Scanners, WriteJob(s) PROVE Moves
  <2>1. PICK i \in NextUp(s) : EnqueueJob(<<i, hand[s]>>)
    BY <1>3 DEF WriteJob
  <2>2. <<i, hand[s]>> \in JobIds
    BY <1>3, NextUpIsLeft DEF WriteJob, PositionsOK, JobIds
  <2> QED
    BY <1>0, <2>1, <2>2, JobRows
<1>4. ASSUME NEW s \in Scanners, BeginJob(s) \/ Judge(s) \/ ProviderFails(s) PROVE Moves
  <2>1. run[s].job \in JobIds
    BY <1>4 DEF BeginJob, Judge, ProviderFails, PositionsOK, JobIds
  <2>2. run[s].job \in Rowed
    BY <1>1, <1>4, <2>1 DEF BeginJob, Judge, ProviderFails, JobsOK
  <2> QED
    BY <1>0, <1>4, <2>1, <2>2, JobRows DEF BeginJob, Judge, ProviderFails
<1>5. ASSUME NEW r \in Replayers, ReplayBegin(r) PROVE Moves
  <2>1. PICK j \in rrows[r] : StartJob(j)
    BY <1>5 DEF ReplayBegin, Begin
  <2>2. j \in JobIds /\ j \in Rowed
    BY <2>1 DEF TypeOK, JobsOK
  <2> QED
    BY <1>0, <2>1, <2>2, JobRows
<1>6. ASSUME NEW r \in Replayers, ReplayJudge(r) \/ ReplayFails(r) PROVE Moves
  <2>1. rjob[r] \in JobIds
    BY <1>6 DEF ReplayJudge, ReplayFails, PositionsOK, JobIds
  <2>2. rjob[r] \in Rowed
    BY <1>1, <1>6, <2>1 DEF ReplayJudge, ReplayFails, JobsOK
  <2> QED
    BY <1>0, <1>6, <2>1, <2>2, JobRows DEF ReplayJudge, ReplayFails
<1> QED
  BY <1>2, <1>3, <1>4, <1>5, <1>6
     DEF Next, ScanStep, ReplayStep, vars, StartRun, StopEarly, Collect, Scope, PassOver,
         PassThreeDone, Record, FinishCut, QueueFindings, Remember, QueueLog, Finish,
         ScanCrash, SyncKnowledge, ReplayStart, ReplaySkip, ReplayQueue, ReplayEnd,
         ReplayCrash, ReleaseChanges

\* What a scan or a replay works on is in the table, and a replay's rows only
\* get fewer once it has read them.
LEMMA StepJobsOK == ScanInv /\ [Next]_vars => JobsOK'
<1> SUFFICES ASSUME ScanInv, [Next]_vars PROVE JobsOK'
  OBVIOUS
<1>0. TypeOK /\ PositionsOK /\ JobsOK /\ JobsTypeOK
  BY DEF ScanInv, TypeOK
<1>1. Numbered' /\ Rowed \subseteq Rowed' /\ \A q \in JobIds : Begun(q) => Begun(q)'
  BY <1>0, JobTableMoves
<1> DEFINE
  OfScan(s) ==
    /\ pc[s] = "job" => run[s].job \in Rowed
    /\ pc[s] = "calling" => Begun(run[s].job)
  OfReplay(r) ==
    /\ rpc[r] \in {"calling", "queue"} => Begun(rjob[r])
    /\ rrows[r] \subseteq Rowed /\ Cardinality(rrows[r]) <= ReplayLimit
<1>2. ASSUME NEW s \in Scanners, pc'[s] = pc[s] /\ run'[s] = run[s] PROVE OfScan(s)'
  <2>1. pc[s] = "calling" => run[s].job \in JobIds
    BY <1>0 DEF PositionsOK, JobIds
  <2> QED
    BY <1>0, <1>1, <1>2, <2>1 DEF JobsOK
<1>3. ASSUME NEW r \in Replayers, rrows'[r] \subseteq rrows[r],
             rpc'[r] \in {"calling", "queue"} =>
               rpc[r] \in {"calling", "queue"} /\ rjob'[r] = rjob[r]
      PROVE  OfReplay(r)'
  <2>1. rpc[r] \in {"calling", "queue"} => rjob[r] \in JobIds
    BY <1>0 DEF PositionsOK, JobIds
  <2>2. rrows[r] \in SUBSET JobIds
    BY <1>0 DEF TypeOK
  <2>3. Cardinality(rrows'[r]) <= Cardinality(rrows[r])
    BY <1>3, <2>2, JobsAreFinite, FS_Subset
  <2>4. Cardinality(rrows[r]) \in Nat /\ Cardinality(rrows'[r]) \in Nat
    BY <1>3, <2>2, JobsAreFinite
  <2>5. Cardinality(rrows'[r]) <= ReplayLimit
    BY <1>0, <2>3, <2>4 DEF JobsOK
  <2> QED
    BY <1>0, <1>1, <1>3, <2>1, <2>5 DEF JobsOK
<1>4. ASSUME NEW s \in Scanners, ScanStep(s) PROVE JobsOK'
  <2>0. run[s] \in Locals /\ s \in DOMAIN run /\ s \in DOMAIN pc
    BY <1>0 DEF TypeOK
  <2>1. OfScan(s)'
    <3>1. CASE WriteJob(s)
      <4>1. PICK i \in NextUp(s) : /\ EnqueueJob(<<i, hand[s]>>)
                                   /\ Become(s, [run[s] EXCEPT !.job = <<i, hand[s]>>])
        BY <3>1 DEF WriteJob
      <4>2. <<i, hand[s]>> \in JobIds
        BY <1>0, <3>1, NextUpIsLeft DEF WriteJob, PositionsOK, JobIds
      <4>3. <<i, hand[s]>> \in Rowed'
        BY <1>0, <4>1, <4>2, JobRows DEF JobsOK, Numbered
      <4>4. run'[s].job = <<i, hand[s]>>
        BY <2>0, <4>1 DEF Become, Locals
      <4> QED
        BY <2>0, <3>1, <4>3, <4>4 DEF WriteJob, Goto
    <3>2. CASE BeginJob(s)
      <4>1. run[s].job \in JobIds
        BY <1>0, <3>2 DEF BeginJob, PositionsOK, JobIds
      <4>2. Begun(run[s].job)'
        BY <1>0, <3>2, <4>1 DEF BeginJob, StartJob, Begun, JobsTypeOK
      <4> QED
        BY <2>0, <3>2, <4>2 DEF BeginJob, Goto
    <3>3. CASE pc'[s] \notin {"job", "calling"}
      BY <3>3
    <3> QED
      BY <1>4, <2>0, <3>1, <3>2, <3>3
         DEF ScanStep, StartRun, StopEarly, Collect, Scope, PassOver, Judge, ProviderFails,
             PassThreeDone, Record, FinishCut, QueueFindings, Remember, QueueLog, Finish,
             ScanCrash, Goto
  <2>2. \A q \in Scanners : OfScan(q)'
    BY <1>0, <1>2, <1>4, <2>1, OthersStandStill
  <2>3. \A r \in Replayers : OfReplay(r)'
    BY <1>0, <1>3, <1>4, OthersStandStill DEF replayVars
  <2> QED
    BY <1>1, <2>2, <2>3 DEF JobsOK, Numbered
<1>5. ASSUME NEW r \in Replayers, ReplayStep(r) PROVE JobsOK'
  <2>0. r \in DOMAIN rpc /\ r \in DOMAIN rrows /\ r \in DOMAIN rjob
    BY <1>0 DEF TypeOK
  <2>1. OfReplay(r)'
    <3>1. CASE ReplayStart(r)
      <4>1. rrows'[r] = Replayable(ReplayLimit) /\ rpc'[r] = "walk" /\ UNCHANGED jobVars
        BY <2>0, <3>1 DEF ReplayStart
      <4>2. Replayable(ReplayLimit) \subseteq Rowed
        BY DEF Replayable, IsReplayable, Rowed
      <4>3. Cardinality(Replayable(ReplayLimit)) <= ReplayLimit
        <5> DEFINE all == {j \in JobIds : IsReplayable(j)}
        <5>1. Cardinality(all) \in Nat
          BY JobsAreFinite
        <5>2. Cardinality(Replayable(ReplayLimit)) = Least(ReplayLimit, Cardinality(all))
          BY <1>0, ReplayableIsFull DEF JobsOK, Numbered
        <5> HIDE DEF all
        <5> QED
          BY <5>1, <5>2 DEF Least
      <4> QED
        BY <1>1, <4>1, <4>2, <4>3
    <3>2. CASE ReplayBegin(r)
      <4>1. PICK j \in rrows[r] : Begin(r, j)
        BY <3>2 DEF ReplayBegin
      <4>2. j \in JobIds /\ rjob'[r] = j /\ rrows'[r] \subseteq rrows[r]
        BY <1>0, <2>0, <4>1 DEF TypeOK, Begin, DropRow
      <4>3. Begun(j)'
        BY <1>0, <4>1, <4>2 DEF Begin, StartJob, Begun, JobsTypeOK
      <4>4. Cardinality(rrows'[r]) <= Cardinality(rrows[r])
        BY <1>0, <4>2, JobsAreFinite, FS_Subset DEF TypeOK
      <4>5. Cardinality(rrows'[r]) \in Nat /\ Cardinality(rrows[r]) \in Nat
        BY <1>0, <4>2, JobsAreFinite DEF TypeOK
      <4>6. Cardinality(rrows'[r]) <= ReplayLimit /\ rrows'[r] \subseteq Rowed'
        BY <1>0, <1>1, <4>2, <4>4, <4>5 DEF JobsOK
      <4> QED
        BY <4>2, <4>3, <4>6
    <3>3. CASE ReplayJudge(r)
      BY <1>3, <2>0, <3>3 DEF ReplayJudge
    <3>4. CASE ReplaySkip(r)
      BY <1>3, <2>0, <3>4 DEF ReplaySkip, DropRow
    <3>5. CASE SyncKnowledge(r)
      BY <1>3, <3>5 DEF SyncKnowledge, replayVars
    <3>6. CASE ReplayFails(r) \/ ReplayQueue(r) \/ ReplayEnd(r) \/ ReplayCrash(r)
      BY <1>3, <2>0, <3>6 DEF ReplayFails, ReplayQueue, ReplayEnd, ReplayCrash
    <3> QED
      BY <1>5, <3>1, <3>2, <3>3, <3>4, <3>5, <3>6 DEF ReplayStep
  <2>2. \A q \in Replayers \ {r} : rrows'[q] = rrows[q]
    BY <1>0, <1>5 DEF TypeOK, ReplayStep, SyncKnowledge, ReplayStart, ReplaySkip, ReplayBegin,
       Begin, ReplayJudge, ReplayFails, ReplayQueue, ReplayEnd, ReplayCrash, DropRow, replayVars
  <2>3. \A q \in Replayers : OfReplay(q)'
    BY <1>0, <1>3, <1>5, <2>1, <2>2, ScansStandStill
  <2>4. \A s \in Scanners : OfScan(s)'
    BY <1>0, <1>2, <1>5, ScansStandStill DEF scanVars
  <2> QED
    BY <1>1, <2>3, <2>4 DEF JobsOK, Numbered
<1>6. CASE ReleaseChanges \/ UNCHANGED vars
  <2>1. \A s \in Scanners : OfScan(s)'
    BY <1>2, <1>6 DEF ReleaseChanges, vars, scanVars
  <2>2. \A r \in Replayers : OfReplay(r)'
    BY <1>3, <1>6 DEF ReleaseChanges, vars, replayVars
  <2> QED
    BY <1>1, <2>1, <2>2 DEF JobsOK, Numbered
<1> QED
  BY <1>4, <1>5, <1>6 DEF Next

-----------------------------------------------------------------------------
(* The theorems. *)

\* The initial states satisfy the invariant: nothing is asked, queued or seen.
LEMMA InitScanInv == Init => ScanInv
<1> SUFFICES ASSUME Init PROVE ScanInv
  OBVIOUS
<1>1. TypeOK
  BY InitTypeOK
<1>2. PositionsOK
  BY DEF Init, PositionsOK
<1>3. AskedOK
  BY DEF Init, AskedOK, Blank, AskedModel
<1>4. BatchOK /\ SeenIsQueued /\ JudgedUnderItsRelease
  BY DEF Init, BatchOK, SeenIsQueued, JudgedUnderItsRelease
<1>5. OrderOK /\ MatchedFirst
  BY DEF Init, OrderOK, MatchedFirst, AskedUnmatched, Blank
<1>6. RowsOK
  <2>1. \A i \in Items : rows[i] = 0 /\ crashes = 0 /\ i \notin seen /\ Written(i) \in SUBSET Scanners
    BY DEF Init, Written
  <2>2. \A i \in Items : Cardinality(Written(i)) \in Nat
    BY <2>1, ScansAreCounted
  <2> QED
    BY <2>1, <2>2 DEF RowsOK
<1>7. LoggedOK
  BY DEF Init, LoggedOK
<1>8. JobsOK
  <2>1. Rowed = {}
    BY DEF Init, JobsInit, Rowed
  <2> QED
    BY <2>1, FS_EmptySet DEF Init, JobsOK
<1> QED
  BY <1>1, <1>2, <1>3, <1>4, <1>5, <1>6, <1>7, <1>8 DEF ScanInv

\* The invariant of scans and replays sharing one database, for any number of
\* each, of items, of releases and of crashes.
THEOREM ScanInvariance == Spec => []ScanInv
<1>1. Init => ScanInv
  BY InitScanInv
<1>2. ScanInv /\ [Next]_vars => ScanInv'
  BY StepTypeOK, StepPositionsOK, StepAskedOK, StepBatchOK, StepSeenIsQueued, StepJudged,
     StepOrderOK, StepRowsOK, StepLoggedOK, StepJobsOK
     DEF ScanInv
<1> QED
  BY <1>1, <1>2, PTL DEF Spec

\* No crash of any scan loses an item: what no later scan will look at again is
\* in the delivery queue and in the local log (scan.py:158-166, 792-797).
THEOREM SeenIsDeliverable == Spec => []SeenIsQueued
<1>1. ScanInv => SeenIsQueued
  BY DEF ScanInv
<1> QED
  BY <1>1, ScanInvariance, PTL

\* No judgement is sent under a release the model was not asked under
\* (__init__.py:164-191).
THEOREM ReleasesAreKept == Spec => []JudgedUnderItsRelease
<1>1. ScanInv => JudgedUnderItsRelease
  BY DEF ScanInv
<1> QED
  BY <1>1, ScanInvariance, PTL

\* Duplicates have causes: an item is queued more often than there are scans to
\* read seen_item at once only if as many of them were killed between the row
\* and remember() (scan.py:564-572, 792-797).
THEOREM DuplicatesNeedCrashes == Spec => []RowsNeedCrashes
<1>1. ScanInv => RowsNeedCrashes
  <2> SUFFICES ASSUME ScanInv, NEW i \in Items
               PROVE  rows[i] <= Cardinality(Scanners) + crashes
    BY DEF RowsNeedCrashes
  <2> DEFINE S == IF i \in seen THEN Scanners \ Carrying(i) ELSE Written(i)
  <2>1. S \in SUBSET Scanners
    BY DEF Written
  <2>2. /\ Cardinality(S) \in Nat /\ Cardinality(Scanners) \in Nat
        /\ Cardinality(S) <= Cardinality(Scanners)
    BY <2>1, ScansAreCounted
  <2>3. rows[i] <= crashes + Cardinality(S)
    BY DEF ScanInv, RowsOK
  <2>4. rows[i] \in Nat /\ crashes \in Nat
    BY DEF ScanInv, TypeOK
  <2> HIDE DEF S
  <2> QED
    BY <2>2, <2>3, <2>4
<1> QED
  BY <1>1, ScanInvariance, PTL

\* The case's money goes to the comments that matched: no other is put to the
\* model while one of them waits, or after one was passed over (scan.py:666-671).
THEOREM MoneyGoesToMatches == Spec => []MatchedFirst
<1>1. ScanInv => MatchedFirst
  BY DEF ScanInv
<1> QED
  BY <1>1, ScanInvariance, PTL

\* A judgement under way has left its trace: whoever waits for the model, its job
\* is in the table with the attempt begun, so that a crash at that moment leaves
\* something to find (jobs.py:12-14, 79-92).
CallsTraced ==
  /\ \A s \in Scanners : pc[s] = "calling" => run[s].job \in Rowed /\ Begun(run[s].job)
  /\ \A r \in Replayers : rpc[r] = "calling" => rjob[r] \in Rowed /\ Begun(rjob[r])

THEOREM CallsLeaveATrace == Spec => []CallsTraced
<1>1. ScanInv => CallsTraced
  BY DEF ScanInv, PositionsOK, JobsOK, CallsTraced, Begun, Rowed, JobIds
<1> QED
  BY <1>1, ScanInvariance, PTL

\* However many jobs wait, no replay takes more of them than its limit
\* (jobs.py:113-125, __init__.py:169).
THEOREM ReplaysAreBounded == Spec => [](\A r \in Replayers : Cardinality(rrows[r]) <= ReplayLimit)
<1>1. ScanInv => \A r \in Replayers : Cardinality(rrows[r]) <= ReplayLimit
  BY DEF ScanInv, JobsOK
<1> QED
  BY <1>1, ScanInvariance, PTL

\* A run on record as completed left nothing undone: its batch is marked seen,
\* and so in the queue, and its scan-log row is queued (scan.py:792-818, 849-852).
THEOREM CompletedRunsAreWhole == Spec => CompletedIsWhole
<1> DEFINE Whole ==
      \A s \in Scanners :
        lastRun'[s] = "completed" /\ lastRun[s] # "completed" =>
          run[s].found \subseteq seen /\ run[s].logged
<1>1. ScanInv /\ [Next]_vars => [Whole]_vars
  <2> SUFFICES ASSUME ScanInv, [Next]_vars, NEW s \in Scanners,
                      lastRun'[s] = "completed", lastRun[s] # "completed"
               PROVE  run[s].found \subseteq seen /\ run[s].logged
    OBVIOUS
  <2>1. TypeOK /\ LoggedOK
    BY DEF ScanInv
  <2>2. PICK q \in Scanners : ScanStep(q)
    BY DEF Next, ReplayStep, vars, scanVars, SyncKnowledge, ReplayStart, ReplaySkip,
           ReplayBegin, ReplayJudge, ReplayFails, ReplayQueue, ReplayEnd, ReplayCrash,
           ReleaseChanges
  <2>3. Finish(s)
    BY <2>1, <2>2 DEF TypeOK, ScanStep, StartRun, StopEarly, Collect, Scope, PassOver,
         WriteJob, BeginJob, Judge, ProviderFails, PassThreeDone, Record, FinishCut,
         QueueFindings, Remember, QueueLog, Finish, ScanCrash
  <2> QED
    BY <2>1, <2>3 DEF Finish, LoggedOK
<1> HIDE DEF Whole
<1>2. Spec => [][Whole]_vars
  BY <1>1, ScanInvariance, PTL DEF Spec
<1> QED
  BY <1>2 DEF Whole, CompletedIsWhole

=============================================================================
