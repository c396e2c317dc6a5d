------------------------------ MODULE CronFire ------------------------------
(***************************************************************************)
(* cron/jobs.py, cron/scheduler.py and cron/executions.py: who may run a   *)
(* recurring job.  Three things decide it, each in a store of its own:     *)
(*   - the fire claim in jobs.json, a lease that the run keeps fresh;      *)
(*   - the fire fence, a lock per job, under which the claim changes hands *)
(*     and under which a run touches the world outside;                    *)
(*   - the ledger in executions.db, one row per attempt.                   *)
(*                                                                         *)
(* One job, several attempts at it.  A gateway under a service manager     *)
(* hands an attempt to a worker process of its own that survives a restart *)
(* of the gateway; any other process runs it itself.  Each transaction of  *)
(* the code is one action; processes die and stall between them.           *)
(***************************************************************************)
EXTENDS Naturals, FiniteSets

CONSTANTS
  MaxRuns,      \* bound: attempts are 1 .. MaxRuns, in order of creation
  Gateways,     \* processes that ever fire the job
  Nobody,       \* the process of an attempt nobody made yet
  Managed,      \* those that hand it to an external worker
  Survivors,    \* those that are never killed
  Direct        \* those that a webhook also fires directly

ASSUME MaxRunsAssumption == MaxRuns \in Nat
ASSUME GatewaysAssumption == Managed \subseteq Gateways /\ Survivors \subseteq Gateways
ASSUME DirectAssumption == Direct \subseteq Gateways
ASSUME NobodyAssumption == Nobody \notin Gateways

Runs == 1 .. MaxRuns
NoRun == 0

Terminal == {"completed", "failed", "unknown"}
Open == {"claimed", "running"}

Places == {"none", "queued", "claimed", "handoff", "spawned", "ready", "validated",
           "running", "ran", "saved", "delivering", "composed", "checked", "marked",
           "lost", "discarded", "raised", "noticing", "failing", "failedlaunch", "recorded",
           "over", "dead"}

VARIABLES
  claim,        \* fire_claim.by: the run whose token it holds, NoRun when null
  fresh,        \* the claim is younger than FIRE_CLAIM_TTL_SECONDS
  fence,        \* the run that holds _fire_job_lock across a delivery
  record,       \* the run that last_run_at and last_status describe
  status,       \* executions.status, "absent" before the row exists
  handoff,      \* handoff_pending and whether its grace has passed
  adopted,      \* the row's owner is the worker, not the gateway
  by,           \* the gateway that created the row and takes the claim
  ticked,       \* the run is registered in that gateway's _running_job_ids
  alive,        \* the gateway process exists
  worker,       \* the external worker of a run: "none", "alive", "gone"
  waiter,       \* the gateway sits in _wait_for_external_cron_worker
  pc,           \* where the run is
  lost,         \* a look at the claim has found it lost (lost_ownership)
  starts,       \* history: how often the job's agent was started for the run
  sent,         \* how many messages the run handed to a platform, until it is over
  unwritten,    \* history: runs that ended because their outcome could not be written
  marked,       \* history: runs that mark_job_run accepted
  turn,         \* history: when the run took the claim, 0 if it never did
  turns         \* history: how often the claim was taken

claimVars == <<claim, fresh, turn, turns>>
jobVars == <<record, marked>>
ledgerVars == <<status, handoff, adopted>>
birthVars == <<by, ticked>>
processVars == <<alive, worker, waiter>>
effectVars == <<starts, sent, unwritten>>
vars == <<claimVars, fence, jobVars, ledgerVars, birthVars, processVars, pc, lost, effectVars>>

TypeOK ==
  /\ claim \in Runs \cup {NoRun} /\ fresh \in BOOLEAN
  /\ fence \in Runs \cup {NoRun} /\ record \in Runs \cup {NoRun}
  /\ status \in [Runs -> {"absent"} \cup Open \cup Terminal]
  /\ handoff \in [Runs -> {"no", "grace", "late"}]
  /\ adopted \in [Runs -> BOOLEAN]
  /\ by \in [Runs -> Gateways \cup {Nobody}] /\ ticked \in [Runs -> BOOLEAN]
  /\ alive \in [Gateways -> BOOLEAN]
  /\ worker \in [Runs -> {"none", "alive", "gone"}]
  /\ waiter \in [Runs -> BOOLEAN]
  /\ pc \in [Runs -> Places]
  /\ lost \in [Runs -> BOOLEAN]
  /\ starts \in [Runs -> Nat] /\ sent \in [Runs -> Nat] /\ unwritten \subseteq Runs
  /\ marked \subseteq Runs
  /\ turn \in [Runs -> Nat] /\ turns \in Nat

Init ==
  /\ claim = NoRun /\ fresh = FALSE /\ fence = NoRun /\ record = NoRun
  /\ status = [e \in Runs |-> "absent"]
  /\ handoff = [e \in Runs |-> "no"]
  /\ adopted = [e \in Runs |-> FALSE]
  /\ by = [e \in Runs |-> Nobody]
  /\ ticked = [e \in Runs |-> FALSE]
  /\ alive = [g \in Gateways |-> TRUE]
  /\ worker = [e \in Runs |-> "none"]
  /\ waiter = [e \in Runs |-> FALSE]
  /\ pc = [e \in Runs |-> "none"]
  /\ lost = [e \in Runs |-> FALSE]
  /\ starts = [e \in Runs |-> 0] /\ sent = [e \in Runs |-> 0] /\ unwritten = {}
  /\ marked = {}
  /\ turn = [e \in Runs |-> 0] /\ turns = 0

-----------------------------------------------------------------------------
(* The claim and the job's record *)

\* Mutant of Live: the age of the claim is not looked at.
LiveForever == claim # NoRun /\ alive[by[claim]]

\* _claim_is_live(): young, and not of a process on this host that is gone.
Live == claim # NoRun /\ fresh /\ alive[by[claim]]

\* mark_job_run(expected_fire_owner=...) accepts run e, which still holds the
\* claim: the outcome is stamped and the claim cleared.
Stamp(e) ==
  /\ claim = e
  /\ record' = e /\ marked' = marked \cup {e}
  /\ claim' = NoRun /\ fresh' = FALSE

\* It refuses, because the claim is another's or the fence cannot be had in
\* time, or it raises: a claim that e still holds is left to its TTL.
Refuse == UNCHANGED <<record, marked, claim, fresh>>

MarkJobRun(e) == Stamp(e) \/ Refuse

\* _FireOwnership.lost() answers no: the heartbeat has not seen a loss, and a
\* probe of the claim succeeds and refreshes it, or raises.
Kept(e) ==
  /\ ~lost[e]
  /\ fresh' \in {fresh, fresh \/ claim = e}
  /\ UNCHANGED lost

\* It answers yes, and will from now on.  The probe finds the claim gone, or
\* cannot have the fence, which reads the same; or the heartbeat thread, whose
\* word counts only in these looks, has met one of the two, or could not renew
\* the claim for _FIRE_CLAIM_HEARTBEAT_GRACE_SECONDS.
Lost(e) ==
  /\ lost' = [lost EXCEPT ![e] = TRUE]
  /\ UNCHANGED fresh

Goto(e, place) == pc' = [pc EXCEPT ![e] = place]

-----------------------------------------------------------------------------
(* A gateway fires the job *)

\* Some run of the job is registered in this process: "already running".
Busy(g) ==
  \E e \in Runs :
    /\ by[e] = g /\ ticked[e]
    /\ waiter[e] \/ pc[e] \notin {"none", "over", "dead"}

\* _submit_with_guard() of a tick that finds the job due, a manual run, or
\* claim_fire() of the webhook, which alone does not look at the running set:
\* the attempt is written down and queued.
Create(e, g, registered) ==
  /\ pc[e] = "none" /\ \A f \in Runs : f < e => pc[f] # "none"
  /\ alive[g]
  /\ IF registered THEN ~Busy(g) ELSE g \in Direct
  /\ by' = [by EXCEPT ![e] = g]
  /\ ticked' = [ticked EXCEPT ![e] = registered]
  /\ status' = [status EXCEPT ![e] = "claimed"]
  /\ Goto(e, "queued")
  /\ UNCHANGED <<claimVars, fence, jobVars, handoff, adopted, processVars, lost, effectVars>>

\* Mutant of Claim: the fence is not taken.
ClaimUnfenced(e) ==
  /\ pc[e] = "queued"
  /\ IF ~Live
     THEN /\ claim' = e /\ fresh' = TRUE
          /\ turns' = turns + 1
          /\ turn' = [turn EXCEPT ![e] = turns + 1]
          /\ Goto(e, "claimed")
     ELSE /\ Goto(e, "recorded")
          /\ UNCHANGED claimVars
  /\ UNCHANGED <<fence, jobVars, ledgerVars, birthVars, processVars, lost, effectVars>>

\* claim_job_for_fire(), under the fence: a live claim refuses, and so does a
\* fence that cannot be had.  Refused means that the row is closed as failed.
Claim(e) ==
  /\ pc[e] = "queued"
  /\ IF ~Live /\ fence = NoRun
     THEN /\ claim' = e /\ fresh' = TRUE
          /\ turns' = turns + 1
          /\ turn' = [turn EXCEPT ![e] = turns + 1]
          /\ Goto(e, "claimed")
     ELSE /\ Goto(e, "recorded")
          /\ UNCHANGED claimVars
  /\ UNCHANGED <<fence, jobVars, ledgerVars, birthVars, processVars, lost, effectVars>>

-----------------------------------------------------------------------------
(* The handoff to a worker *)

\* mark_execution_handoff_pending(), before the payload and the process.
HandOff(e) ==
  /\ pc[e] = "claimed" /\ by[e] \in Managed
  /\ handoff' = [handoff EXCEPT ![e] = "grace"]
  /\ Goto(e, "handoff")
  /\ UNCHANGED <<claimVars, fence, jobVars, status, adopted, birthVars, processVars, lost,
                 effectVars>>

\* Popen: the worker exists, and the gateway waits for it.
Spawn(e) ==
  /\ pc[e] = "handoff"
  /\ worker' = [worker EXCEPT ![e] = "alive"]
  /\ waiter' = [waiter EXCEPT ![e] = TRUE]
  /\ Goto(e, "spawned")
  /\ UNCHANGED <<claimVars, fence, jobVars, ledgerVars, birthVars, alive, lost, effectVars>>

\* HANDOFF_ADOPTION_GRACE_SECONDS have passed since the handoff.
GraceEnds(e) ==
  /\ handoff[e] = "grace"
  /\ handoff' = [handoff EXCEPT ![e] = "late"]
  /\ UNCHANGED <<claimVars, fence, jobVars, status, adopted, birthVars, processVars, pc, lost,
                 effectVars>>

\* Mutant of Adopt: the row is not looked at.
AdoptUnchecked(e) ==
  /\ pc[e] = "spawned"
  /\ status' = [status EXCEPT ![e] = "running"]
  /\ adopted' = [adopted EXCEPT ![e] = TRUE]
  /\ handoff' = [handoff EXCEPT ![e] = "no"]
  /\ Goto(e, "ready")
  /\ UNCHANGED <<claimVars, fence, jobVars, birthVars, processVars, lost, effectVars>>

\* adopt_claimed_execution(): the worker makes the row its own, or exits.
Adopt(e) ==
  /\ pc[e] = "spawned"
  /\ IF status[e] = "claimed" /\ handoff[e] # "no"
     THEN /\ status' = [status EXCEPT ![e] = "running"]
          /\ adopted' = [adopted EXCEPT ![e] = TRUE]
          /\ handoff' = [handoff EXCEPT ![e] = "no"]
          /\ Goto(e, "ready")
          /\ UNCHANGED worker
     ELSE /\ worker' = [worker EXCEPT ![e] = "gone"]
          /\ Goto(e, "over")
          /\ UNCHANGED ledgerVars
  /\ UNCHANGED <<claimVars, fence, jobVars, birthVars, alive, waiter, lost, effectVars>>

\* The handoff or the payload cannot be written, or the process not started.
LaunchFails(e) ==
  /\ pc[e] = "handoff" \/ (pc[e] = "claimed" /\ by[e] \in Managed)
  /\ Goto(e, "failedlaunch")
  /\ UNCHANGED <<claimVars, fence, jobVars, ledgerVars, birthVars, processVars, lost, effectVars>>

\* run_one_job() records a failed launch.
RecordLaunchFailure(e) ==
  /\ pc[e] = "failedlaunch"
  /\ MarkJobRun(e)
  /\ Goto(e, "recorded")
  /\ UNCHANGED <<turn, turns, fence, ledgerVars, birthVars, processVars, lost, effectVars>>

-----------------------------------------------------------------------------
(* The run itself, in the worker or in a thread of the gateway *)

\* _run_with_fire_claim_heartbeat(): the claim is refreshed before anything
\* else.  The row is closed and nothing is run if it is gone, or, with the
\* claim still held, if the fence cannot be had, the refresh raises or the
\* heartbeat thread cannot be started.
Validate(e) ==
  /\ pc[e] = "ready" \/ (pc[e] = "claimed" /\ by[e] \notin Managed)
  /\ \/ claim = e /\ fresh' = TRUE /\ Goto(e, "validated")
     \/ fresh' \in {fresh, fresh \/ claim = e} /\ Goto(e, "recorded")
  /\ UNCHANGED <<claim, turn, turns, fence, jobVars, ledgerVars, birthVars, processVars, lost,
                 effectVars>>

\* The agent starts: a run in the gateway must win mark_execution_running()
\* first, a worker has won it by adopting the row.
Start(e) ==
  /\ pc[e] = "validated"
  /\ IF adopted[e] \/ (status[e] = "claimed" /\ handoff[e] = "no")
     THEN /\ status' = [status EXCEPT ![e] = "running"]
          /\ starts' = [starts EXCEPT ![e] = @ + 1]
          /\ Goto(e, "running")
     ELSE /\ Goto(e, "over")
          /\ UNCHANGED <<status, starts>>
  /\ UNCHANGED <<claimVars, fence, jobVars, handoff, adopted, birthVars, processVars, lost, sent,
                 unwritten>>

\* run_job() returns, and the claim is looked at.
RunEnds(e) ==
  /\ pc[e] = "running"
  /\ \/ Kept(e) /\ Goto(e, "ran")
     \/ Lost(e) /\ Goto(e, "lost")
  /\ UNCHANGED <<claim, turn, turns, fence, jobVars, ledgerVars, birthVars, processVars,
                 effectVars>>

\* save_job_output() under fire_claim_fence(), which may not be had.
Save(e) ==
  /\ pc[e] = "ran"
  /\ \/ claim = e /\ Goto(e, "saved")
     \/ Goto(e, "lost")
  /\ UNCHANGED <<claimVars, fence, jobVars, ledgerVars, birthVars, processVars, lost, effectVars>>

\* The content is handed to a platform.
HandOver(e) == sent' = [sent EXCEPT ![e] = @ + 1]

\* Mutant of Deliver: the fence is not held, the claim is only looked at.
DeliverUnfenced(e) ==
  /\ pc[e] = "saved"
  /\ \/ Kept(e) /\ claim = e /\ HandOver(e) /\ Goto(e, "delivering")
     \/ Lost(e) /\ Goto(e, "composed") /\ UNCHANGED sent
  /\ UNCHANGED <<claim, turn, turns, fence, jobVars, ledgerVars, birthVars, processVars, starts,
                 unwritten>>

\* Nothing to deliver, or a loss seen just before: the delivery is skipped.
\* Otherwise the fence is taken for as long as the delivery lasts; without it,
\* or if under it the claim turns out to be another's, nothing is delivered.
Deliver(e) ==
  /\ pc[e] = "saved"
  /\ \/ UNCHANGED <<fresh, lost, fence, sent>> /\ Goto(e, "composed")
     \/ Lost(e) /\ UNCHANGED <<fence, sent>> /\ Goto(e, "composed")
     \/ Kept(e) /\ claim = e /\ fence' = e /\ HandOver(e) /\ Goto(e, "delivering")
     \/ Kept(e) /\ UNCHANGED <<fence, sent>> /\ Goto(e, "lost")
  /\ UNCHANGED <<claim, turn, turns, jobVars, ledgerVars, birthVars, processVars, starts,
                 unwritten>>

\* The delivery succeeded or failed; the fence is released.
DeliveryEnds(e) ==
  /\ pc[e] = "delivering"
  /\ fence' = NoRun
  /\ Goto(e, "composed")
  /\ UNCHANGED <<claimVars, jobVars, ledgerVars, birthVars, processVars, lost, effectVars>>

\* The claim is looked at once more before the outcome is recorded.
Check(e) ==
  /\ pc[e] = "composed"
  /\ \/ Kept(e) /\ Goto(e, "checked")
     \/ Lost(e) /\ Goto(e, "lost")
  /\ UNCHANGED <<claim, turn, turns, fence, jobVars, ledgerVars, birthVars, processVars,
                 effectVars>>

\* Mutant of Mark: the owner of the claim is not compared.
MarkUnowned(e) ==
  /\ pc[e] = "checked"
  /\ record' = e /\ marked' = marked \cup {e} /\ claim' = NoRun /\ fresh' = FALSE
  /\ Goto(e, "marked")
  /\ UNCHANGED <<turn, turns, fence, ledgerVars, birthVars, processVars, lost, effectVars>>

\* _finish_completed_run(): the job's record first, the ledger after it.
Mark(e) ==
  /\ pc[e] = "checked"
  /\ \/ Stamp(e) /\ Goto(e, "marked")
     \/ Refuse /\ Goto(e, "discarded")
  /\ UNCHANGED <<turn, turns, fence, ledgerVars, birthVars, processVars, lost, effectVars>>

\* run_job() raises, or the bookkeeping around it, writes of the ledger and of
\* the job's record included; a delivery is left only by an interrupt.
Raise(e) ==
  /\ pc[e] \in {"validated", "running", "ran", "saved", "delivering", "composed", "checked",
               "marked", "lost", "discarded"}
  /\ fence' = IF fence = e THEN NoRun ELSE fence
  /\ Goto(e, "raised")
  /\ UNCHANGED <<claimVars, jobVars, ledgerVars, birthVars, processVars, lost, effectVars>>

\* Mutant of Notify: an attempted delivery is not looked at.
NotifyAgain(e) ==
  /\ pc[e] = "raised"
  /\ \/ Kept(e) /\ HandOver(e) /\ Goto(e, "noticing")
     \/ Lost(e) /\ Goto(e, "failing") /\ UNCHANGED sent
  /\ UNCHANGED <<claim, turn, turns, fence, jobVars, ledgerVars, birthVars, processVars, starts,
                 unwritten>>

\* The except clause of the body: unless a delivery was attempted before or a
\* loss is seen, _deliver_crash_failure() hands over a notice of the failure,
\* without the fence.  It stays silent after an interrupt or for an
\* acknowledged incident.
Notify(e) ==
  /\ pc[e] = "raised"
  /\ \/ Kept(e) /\ sent[e] = 0 /\ HandOver(e) /\ Goto(e, "noticing")
     \/ (Kept(e) \/ UNCHANGED <<fresh, lost>>) /\ UNCHANGED sent /\ Goto(e, "failing")
  /\ UNCHANGED <<claim, turn, turns, fence, jobVars, ledgerVars, birthVars, processVars, starts,
                 unwritten>>

\* The notice was delivered or not.
NoticeEnds(e) ==
  /\ pc[e] = "noticing"
  /\ Goto(e, "failing")
  /\ UNCHANGED <<claimVars, fence, jobVars, ledgerVars, birthVars, processVars, lost, effectVars>>

\* _record_fire_ownership_lost(), which refreshes the claim first, and the rest
\* of the except clause: a run that still holds the claim is recorded as
\* failed, another is discarded.
RecordFailure(e) ==
  /\ \/ pc[e] = "lost" /\ Goto(e, "discarded")
     \/ pc[e] = "failing" /\ Goto(e, "recorded")
  /\ \/ MarkJobRun(e)
     \/ /\ pc[e] = "lost" /\ claim = e /\ fresh' = TRUE
        /\ UNCHANGED <<claim, jobVars>>
  /\ UNCHANGED <<turn, turns, fence, ledgerVars, birthVars, processVars, lost, effectVars>>

\* Mutant of Finish: a discarded run is closed as completed.
FinishOptimistic(e) ==
  /\ pc[e] \in {"marked", "discarded", "recorded"}
  /\ IF status[e] \in Open /\ (adopted[e] => worker[e] = "alive")
     THEN /\ status' = [status EXCEPT ![e] = "completed"]
          /\ handoff' = [handoff EXCEPT ![e] = "no"]
     ELSE UNCHANGED <<status, handoff>>
  /\ worker' = [worker EXCEPT ![e] = IF @ = "alive" THEN "gone" ELSE @]
  /\ Goto(e, "over")
  /\ lost' = [lost EXCEPT ![e] = FALSE] /\ sent' = [sent EXCEPT ![e] = 0]
  /\ UNCHANGED <<claimVars, fence, jobVars, adopted, birthVars, alive, waiter, starts, unwritten>>

\* finish_execution() writes the outcome over a row that is open and this
\* process's own; a worker exits after it.
Finish(e) ==
  /\ pc[e] \in {"marked", "discarded", "recorded"}
  /\ IF status[e] \in Open /\ (adopted[e] => worker[e] = "alive")
     THEN /\ \E result \in IF pc[e] = "marked" THEN {"completed", "failed"} ELSE {"failed"} :
               status' = [status EXCEPT ![e] = result]
          /\ handoff' = [handoff EXCEPT ![e] = "no"]
     ELSE UNCHANGED <<status, handoff>>
  /\ worker' = [worker EXCEPT ![e] = IF @ = "alive" THEN "gone" ELSE @]
  /\ Goto(e, "over")
  /\ lost' = [lost EXCEPT ![e] = FALSE] /\ sent' = [sent EXCEPT ![e] = 0]
  /\ UNCHANGED <<claimVars, fence, jobVars, adopted, birthVars, alive, waiter, starts, unwritten>>

\* finish_execution() raises where nothing in the process tries again: the row
\* stays open, the worker exits all the same.
FinishFails(e) ==
  /\ pc[e] = "recorded"
  /\ unwritten' = unwritten \cup {e}
  /\ worker' = [worker EXCEPT ![e] = IF @ = "alive" THEN "gone" ELSE @]
  /\ Goto(e, "over")
  /\ lost' = [lost EXCEPT ![e] = FALSE] /\ sent' = [sent EXCEPT ![e] = 0]
  /\ UNCHANGED <<claimVars, fence, jobVars, ledgerVars, birthVars, alive, waiter, starts>>

-----------------------------------------------------------------------------
(* Deaths, time and recovery *)

\* The row of e is open and the process that owns it is gone.
Abandoned(e) ==
  /\ status[e] \in Open
  /\ IF adopted[e] THEN worker[e] # "alive" ELSE ~alive[by[e]]

\* Mutant of Recover: a row that is being handed over is left alone for good.
RecoverNoHandoff(g) ==
  /\ alive[g]
  /\ \E e \in Runs : Abandoned(e) /\ handoff[e] = "no"
  /\ status' = [e \in Runs |-> IF Abandoned(e) /\ handoff[e] = "no" THEN "unknown" ELSE status[e]]
  /\ handoff' = [e \in Runs |-> IF Abandoned(e) /\ handoff[e] = "no" THEN "no" ELSE handoff[e]]
  /\ UNCHANGED <<claimVars, fence, jobVars, adopted, birthVars, processVars, pc, lost, effectVars>>

\* recover_interrupted_executions(), of a tick, a start or a manual run: every
\* abandoned row but those within the grace of a handoff becomes unknown.
Recover(g) ==
  /\ alive[g]
  /\ \E e \in Runs : Abandoned(e) /\ handoff[e] # "grace"
  /\ LET found(e) == Abandoned(e) /\ handoff[e] # "grace"
     IN /\ status' = [e \in Runs |-> IF found(e) THEN "unknown" ELSE status[e]]
        /\ handoff' = [e \in Runs |-> IF found(e) THEN "no" ELSE handoff[e]]
  /\ UNCHANGED <<claimVars, fence, jobVars, adopted, birthVars, processVars, pc, lost, effectVars>>

\* The gateway that waits sees the row settled.  When the worker exits without
\* that, the gateway calls Recover and sees it settled then; but a worker that
\* exits before it acknowledged, or without having adopted the row, which
\* Recover leaves to its owner, is a failed launch.
WaiterEnds(e) ==
  /\ waiter[e]
  /\ \/ status[e] \in Terminal /\ UNCHANGED pc
     \/ /\ status[e] \in Open /\ worker[e] = "gone"
        /\ adopted[e] => starts[e] = 0 /\ pc[e] = "dead"
        /\ Goto(e, "failedlaunch")
  /\ waiter' = [waiter EXCEPT ![e] = FALSE]
  /\ UNCHANGED <<claimVars, fence, jobVars, ledgerVars, birthVars, alive, worker, lost, effectVars>>

\* A process is killed: what it runs stops, and its locks are released.
GatewayDies(g) ==
  /\ alive[g] /\ g \notin Survivors
  /\ alive' = [alive EXCEPT ![g] = FALSE]
  /\ LET within(e) == by[e] = g /\ worker[e] # "alive" /\ pc[e] # "over"
     IN /\ pc' = [e \in Runs |-> IF within(e) THEN "dead" ELSE pc[e]]
        /\ fence' = IF \E e \in Runs : within(e) /\ fence = e THEN NoRun ELSE fence
        /\ lost' = [e \in Runs |-> lost[e] /\ ~within(e)]
        /\ sent' = [e \in Runs |-> IF within(e) THEN 0 ELSE sent[e]]
  /\ waiter' = [e \in Runs |-> waiter[e] /\ by[e] # g]
  /\ UNCHANGED <<claimVars, jobVars, ledgerVars, birthVars, worker, starts, unwritten>>

WorkerDies(e) ==
  /\ worker[e] = "alive"
  /\ worker' = [worker EXCEPT ![e] = "gone"]
  /\ Goto(e, "dead")
  /\ lost' = [lost EXCEPT ![e] = FALSE] /\ sent' = [sent EXCEPT ![e] = 0]
  /\ fence' = IF fence = e THEN NoRun ELSE fence
  /\ UNCHANGED <<claimVars, jobVars, ledgerVars, birthVars, alive, waiter, starts, unwritten>>

\* The run that holds the claim refreshes it no more.
Forsaken == claim # NoRun /\ pc[claim] \in {"recorded", "over", "dead"}

\* The claim reaches its TTL: it is forsaken, or its process has stalled, or
\* the heartbeat thread has given up.
Expire ==
  /\ claim # NoRun /\ fresh
  /\ fresh' = FALSE
  /\ UNCHANGED <<claim, turn, turns, fence, jobVars, ledgerVars, birthVars, processVars, pc, lost,
                 effectVars>>

-----------------------------------------------------------------------------
\* What the process of a run does as long as it lives.
Step(e) ==
  \/ Claim(e) \/ HandOff(e) \/ Spawn(e) \/ LaunchFails(e) \/ Adopt(e) \/ WaiterEnds(e)
  \/ RecordLaunchFailure(e) \/ Validate(e) \/ Start(e) \/ RunEnds(e) \/ Save(e) \/ Deliver(e)
  \/ DeliveryEnds(e) \/ Check(e) \/ Mark(e) \/ Raise(e) \/ Notify(e) \/ NoticeEnds(e)
  \/ RecordFailure(e) \/ Finish(e) \/ FinishFails(e)

Next ==
  \/ \E e \in Runs : Step(e) \/ GraceEnds(e) \/ WorkerDies(e)
  \/ \E e \in Runs, g \in Gateways, registered \in BOOLEAN : Create(e, g, registered)
  \/ \E g \in Gateways : Recover(g) \/ GatewayDies(g)
  \/ Expire

Spec == Init /\ [][Next]_vars

\* Processes that live go on, jobs and deliveries end (both have time limits),
\* gateways look for abandoned rows every five minutes, and time passes: a
\* claim that nobody refreshes reaches its TTL.
Fairness ==
  /\ \A e \in Runs : WF_vars(Step(e)) /\ WF_vars(GraceEnds(e))
  /\ \A g \in Survivors : WF_vars(Recover(g))
  /\ WF_vars(Forsaken /\ Expire)

FairSpec == Spec /\ Fairness

-----------------------------------------------------------------------------
(* Properties *)

\* The result of a run is delivered under the fence and, below it, the claim,
\* whoever fires the job meanwhile, however long the run has been stalled and
\* whoever died: no two runs deliver a result at once, and a run that was
\* replaced never does.  And a run hands over one message at most, its result
\* or the notice of its crash.  That notice is the one message without the
\* fence: it may go out beside the delivery of a replacement, or after it
\* (jobs.py:353, scheduler.py:2667, 2937-2944).
DeliversAlone ==
  \A e \in Runs :
    /\ pc[e] = "delivering" =>
         /\ claim = e
         /\ \A f \in Runs : pc[f] = "delivering" => f = e
    /\ sent[e] <= 1

\* last_run_at and last_status describe the latest of the runs that were
\* recorded: a run that was replaced never writes over its replacement, nor
\* clears its claim (jobs.py:2305, scheduler.py:2926).
RecordsInOrder ==
  [][record' # record =>
       /\ record = NoRun \/ turn[record'] > turn[record]
       /\ claim = record']_vars

\* What the ledger calls settled is over: the outcome stands, and the agent is
\* not started for that attempt any more, be it by a worker that comes after
\* recovery has given the row up or by the gateway beside its worker; before
\* that it is started at most once (executions.py:194, scheduler.py:3251).
SettledIsOver ==
  [][\A e \in Runs :
       /\ status[e] \in Terminal => status'[e] = status[e] /\ starts'[e] = starts[e]
       /\ starts'[e] <= 1]_vars

\* The two stores agree across a death between them: what the ledger calls
\* completed was started and is on the job's record, so that an occurrence is
\* skipped as completed only if it was (scheduler.py:2721, jobs.py:2571).
CompletedIsMarked ==
  \A e \in Runs : status[e] = "completed" => e \in marked /\ starts[e] = 1

\* Why the above holds.  The fence and a delivery are one thing, and while it
\* is held the claim stays where it is; the claim is with the latest to take
\* it, later than the run on record; and an attempt that is under way has an
\* open row of a process that lives.
Early == {"queued", "claimed", "handoff"}
Body == {"validated", "running", "ran", "saved", "delivering", "composed", "checked", "marked",
         "lost", "discarded", "raised", "noticing", "failing"}

FenceInv ==
  /\ \A e \in Runs : pc[e] = "delivering" <=> fence = e
  /\ fence # NoRun => claim = fence

TurnsInv ==
  /\ \A e \in Runs : turn[e] <= turns
  /\ claim # NoRun => turn[claim] = turns /\ pc[claim] \notin {"none", "queued"}
  /\ claim # NoRun /\ record # NoRun => turn[record] < turns
  /\ record # NoRun => record \in marked
  /\ \A e \in marked : pc[e] \notin {"none", "queued"}

\* One attempt: its place, its row and the process that owns it.
LedgerOK(e) ==
  /\ pc[e] = "none" <=> status[e] = "absent"
  /\ pc[e] = "none" <=> by[e] \notin Gateways
  /\ pc[e] \in Early \cup {"none"} =>
       /\ ~adopted[e] /\ worker[e] = "none"
       /\ handoff[e] = "no" <=> pc[e] # "handoff"
  /\ pc[e] \in Early => status[e] = "claimed" /\ alive[by[e]]
  /\ pc[e] = "spawned" => worker[e] = "alive" /\ ~adopted[e]
  /\ pc[e] = "ready" => worker[e] = "alive" /\ adopted[e] /\ status[e] = "running"
  /\ pc[e] \in Body =>
       /\ status[e] \in Open
       /\ IF adopted[e] THEN worker[e] = "alive" ELSE alive[by[e]] /\ worker[e] = "none"
  /\ pc[e] \in Early \cup {"none", "spawned", "ready", "validated"} => starts[e] = 0
  /\ pc[e] \in {"running", "ran", "saved", "delivering", "composed", "checked", "marked"} =>
       starts[e] = 1
  /\ starts[e] <= 1
  /\ pc[e] \in Early \cup {"none", "spawned", "ready", "validated", "running", "ran", "saved"} =>
       sent[e] = 0
  /\ sent[e] <= 1
  /\ pc[e] = "marked" => e \in marked
  /\ status[e] = "completed" => e \in marked /\ starts[e] = 1

LedgerInv == \A e \in Runs : LedgerOK(e)

FireInv == TypeOK /\ FenceInv /\ TurnsInv /\ LedgerInv

\* Every attempt gets an outcome, through deaths of either process before,
\* during and after the handoff.  The exception is one whose outcome could not
\* be written, for as long as the process that owns its row lives: recovery
\* does not look at the rows of the living (executions.py:277-280).
EveryRunSettles ==
  \A e \in Runs :
    status[e] \in Open ~>
      status[e] \in Terminal \/ (e \in unwritten /\ ~Abandoned(e))

\* The job never stays claimed for good: whoever held the claim, it can be
\* taken again (jobs.py:2082).
ClaimableAgain == []<>(~Live)
=============================================================================
