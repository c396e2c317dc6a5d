-------------------------------- MODULE Jobs --------------------------------
(***************************************************************************)
(* plugins/ettok/jobs.py: the table of classification jobs.  A job is one  *)
(* observation judged under one knowledge release; it is written before    *)
(* the attempt so that a crash leaves a trace of what was in flight.  The  *)
(* operations below are the functions of the module, one commit each; who  *)
(* calls them, and when, is in ScanRun.                                    *)
(***************************************************************************)
EXTENDS Naturals, FiniteSets

CONSTANTS
  Items,         \* observations of one case (content_hash and case_key)
  MaxRelease,    \* bound: knowledge releases are 1 .. MaxRelease
  MaxAttempts    \* jobs.MAX_ATTEMPTS

ASSUME ItemsAssumption == IsFiniteSet(Items)
ASSUME MaxReleaseAssumption == MaxRelease \in Nat \ {0}
ASSUME MaxAttemptsAssumption == MaxAttempts \in Nat

Releases == 1 .. MaxRelease
JobIds == Items \X Releases
JobStates == {"none", "queued", "running", "completed", "failed"}

VARIABLES
  jobs,    \* the row of each job; state "none" while there is no row
  born     \* created_at, as the place of the row in that order; 0 while there is none

jobVars == <<jobs, born>>

JobsTypeOK ==
  /\ jobs \in [JobIds -> [state : JobStates, attempts : Nat]]
  /\ born \in [JobIds -> Nat]

JobsInit ==
  /\ jobs = [j \in JobIds |-> [state |-> "none", attempts |-> 0]]
  /\ born = [j \in JobIds |-> 0]

Rowed == {j \in JobIds : jobs[j].state # "none"}

\* enqueue(): finds the row there is, whatever its state, or inserts one.
EnqueueJob(j) ==
  IF jobs[j].state = "none"
  THEN /\ jobs' = [jobs EXCEPT ![j].state = "queued"]
       /\ born' = [born EXCEPT ![j] = Cardinality(Rowed) + 1]
  ELSE UNCHANGED jobVars

\* start(): the attempt is counted before it is made, from any state.
StartJob(j) ==
  /\ jobs' = [jobs EXCEPT ![j] = [state |-> "running", attempts |-> @.attempts + 1]]
  /\ UNCHANGED born

\* complete() and fail(): unconditional as well.
CompleteJob(j) ==
  /\ jobs' = [jobs EXCEPT ![j].state = "completed"]
  /\ UNCHANGED born

FailJob(j) ==
  /\ jobs' = [jobs EXCEPT ![j].state = "failed"]
  /\ UNCHANGED born

\* Mutant of IsReplayable: a job left running is taken to be running.
IsReplayableIdle(j) ==
  /\ jobs[j].state \in {"queued", "failed"}
  /\ jobs[j].attempts < MaxAttempts

IsReplayable(j) ==
  /\ jobs[j].state \in {"queued", "running", "failed"}
  /\ jobs[j].attempts < MaxAttempts

\* replayable(): the oldest of them, at most limit.
Replayable(limit) ==
  LET all == {j \in JobIds : IsReplayable(j)}
  IN  {j \in all : Cardinality({q \in all : born[q] < born[j]}) < limit}

\* The job a walk in the order of created_at comes to first.
IsOldest(j, S) == j \in S /\ \A q \in S : born[j] <= born[q]

=============================================================================
