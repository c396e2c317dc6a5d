------------------------------ MODULE ScanRun ------------------------------
(***************************************************************************)
(* plugins/ettok/scan.py, run(): one batch of items worked under one case, *)
(* from deduplication to the delivery queue, and plugins/ettok/__init__.py *)
(* replay(): the tool that re-attempts what a crash or an outage left.     *)
(*                                                                         *)
(* Both work on the same SQLite file from different processes, and either  *)
(* may die between any two commits.  Every commit is one action.  What     *)
(* happens to a row once it is in the outbox is module Outbox.             *)
(*                                                                         *)
(* Abstracted: a verdict is what kind of judgement it is, a price is one   *)
(* or two units, and every item hangs under a post of its own.             *)
(***************************************************************************)
EXTENDS Jobs

CONSTANTS
  Scanners,      \* processes that run scans
  Replayers,     \* chat sessions that call ettok_replay
  Matched,       \* items a curated term or trope matches
  MaxRoom,       \* bound: items a case has left (limits.items_remaining)
  MaxMoney,      \* bound: model budget a case has left, in units
  ReplayLimit,   \* replay()'s limit
  MaxCrashes     \* bound: processes killed in the middle of a step

ASSUME MatchedAssumption == Matched \subseteq Items
ASSUME ScanBoundsAssumption ==
  MaxRoom \in Nat /\ MaxMoney \in Nat /\ ReplayLimit \in Nat \ {0} /\ MaxCrashes \in Nat
ASSUME ProcessesAssumption ==
  IsFiniteSet(Scanners) /\ Scanners \cap Replayers = {}

\* What the finding of an item says about its judgement: never examined, set
\* aside for want of money, given up on by the provider, judged by the model.
Verdicts == {"context", "match_only", "unanswered", "model"}

VARIABLES
  seen,       \* seen_item
  queued,     \* findings written to flagged-items rows of the outbox
  rows,       \* how many such rows scans have written for each item
  recorded,   \* items with a row in classification (record_judgement)
  release,    \* the knowledge release the platform serves now
  hand,       \* the release each process holds in memory, 0 for none
  pc,         \* where each scan is in run()
  run,        \* the local variables of each scan
  lastRun,    \* the row of the process's last run in case_run
  rpc,        \* where each replay is
  rrows,      \* the jobs it has not reached yet
  rjob,       \* the job it is working
  crashes     \* how often a process died so far

tableVars == <<seen, queued, rows, recorded>>
knowVars == <<release, hand>>
scanVars == <<pc, run, lastRun>>
replayVars == <<rpc, rrows, rjob>>
vars == <<jobVars, tableVars, knowVars, scanVars, replayVars, crashes>>

Processes == Scanners \cup Replayers
Finding == [item : Items, verdict : Verdicts, release : Releases]
NoJob == <<>>

\* room and money: what the picked case may still collect and spend; found: the
\* candidates; hits: those that matched; away: those whose post is out of scope;
\* todo: those the current pass has not reached yet; job: the job being worked;
\* verdict: the judgement of each candidate; cut: the run stopped at its item
\* budget; logged: it has queued its scan-log row.
Locals == [room : Nat, money : Nat, found : SUBSET Items, hits : SUBSET Items,
           away : SUBSET Items, todo : SUBSET Items, job : JobIds \cup {NoJob},
           verdict : [Items -> Verdicts], cut : BOOLEAN, logged : BOOLEAN]

Blank == [room |-> 0, money |-> 0, found |-> {}, hits |-> {}, away |-> {}, todo |-> {},
          job |-> NoJob, verdict |-> [i \in Items |-> "context"], cut |-> FALSE,
          logged |-> FALSE]

ScanPositions == {"idle", "picked", "scope", "assess", "job", "calling", "record",
                  "queue", "remember", "log", "deliver"}

TypeOK ==
  /\ JobsTypeOK
  /\ seen \subseteq Items
  /\ queued \subseteq Finding
  /\ rows \in [Items -> Nat]
  /\ recorded \subseteq Items
  /\ release \in Releases
  /\ hand \in [Processes -> Releases \cup {0}]
  /\ pc \in [Scanners -> ScanPositions]
  /\ run \in [Scanners -> Locals]
  /\ lastRun \in [Scanners -> {"none", "open", "stopped", "item_budget", "completed"}]
  /\ rpc \in [Replayers -> {"idle", "walk", "calling", "queue"}]
  /\ rrows \in [Replayers -> SUBSET JobIds]
  /\ rjob \in [Replayers -> JobIds \cup {NoJob}]
  /\ crashes \in 0 .. MaxCrashes

Init ==
  /\ JobsInit
  /\ seen = {} /\ queued = {} /\ recorded = {}
  /\ rows = [i \in Items |-> 0]
  /\ release = 1
  /\ hand = [p \in Processes |-> 0]
  /\ pc = [s \in Scanners |-> "idle"]
  /\ run = [s \in Scanners |-> Blank]
  /\ lastRun = [s \in Scanners |-> "none"]
  /\ rpc = [r \in Replayers |-> "idle"]
  /\ rrows = [r \in Replayers |-> {}]
  /\ rjob = [r \in Replayers |-> NoJob]
  /\ crashes = 0

Goto(s, p) == pc' = [pc EXCEPT ![s] = p]
Become(s, l) == run' = [run EXCEPT ![s] = l]

-----------------------------------------------------------------------------
(* run(): starting, and the free passes. *)

\* The knowledge in memory is used while it is young and fetched again when it
\* is not; the case comes with what it may still collect and spend.  The row of
\* the run is written before anything else.
StartRun(s, n, m) ==
  /\ pc[s] = "idle"
  /\ \E k \in {hand[s], release} \ {0} : hand' = [hand EXCEPT ![s] = k]
  /\ Become(s, [run[s] EXCEPT !.room = n, !.money = m])
  /\ lastRun' = [lastRun EXCEPT ![s] = "open"]
  /\ Goto(s, "picked")
  /\ UNCHANGED <<jobVars, tableVars, release, replayVars, crashes>>

\* unknown_case, not_due, claimed_elsewhere: ended with its reason at once.
StopEarly(s) ==
  /\ pc[s] = "picked"
  /\ lastRun' = [lastRun EXCEPT ![s] = "stopped"]
  /\ Become(s, Blank)
  /\ Goto(s, "idle")
  /\ UNCHANGED <<jobVars, tableVars, knowVars, replayVars, crashes>>

\* Mutant of Fresh: a batch is only compared with itself.
FreshInBatch(offered) == offered

Fresh(offered) == offered \ seen

\* Pass one over a batch: what was seen is set aside, what is fresh is kept
\* while there is room, and an item whose matching raised is dropped.
Collect(s, offered, stop) ==
  /\ pc[s] = "picked"
  /\ \E kept \in SUBSET Fresh(offered) :
       /\ Cardinality(kept) <= run[s].room
       /\ stop => kept # Fresh(offered) /\ Cardinality(kept) = run[s].room
       /\ Become(s, [run[s] EXCEPT !.found = kept, !.cut = stop])
  /\ Goto(s, "scope")
  /\ UNCHANGED <<jobVars, tableVars, knowVars, lastRun, replayVars, crashes>>

Less(m, cost) == IF m > cost THEN m - cost ELSE 0

\* Pass two: the model places the posts no topic marker placed, while there is
\* money; under a post it places in a community more items may match.
Scope(s) ==
  /\ pc[s] = "scope"
  /\ \E placed \in SUBSET run[s].found, more \in SUBSET run[s].found, cost \in 0 .. 1 :
       /\ run[s].money = 0 => placed = {} /\ more = {}
       /\ Become(s, [run[s] EXCEPT !.away = placed,
                                  !.hits = (Matched \cap run[s].found) \cup (more \ placed),
                                  !.money = Less(@, cost),
                                  !.todo = run[s].found])
  /\ Goto(s, "assess")
  /\ UNCHANGED <<jobVars, tableVars, knowVars, lastRun, replayVars, crashes>>

-----------------------------------------------------------------------------
(* run(): pass three, the paid one. *)

\* Mutant of NextUp: the candidates as they were collected.
AnyOrder(s) == run[s].todo

\* sorted(candidates, key=not matched): the matched ones come first.
NextUp(s) ==
  LET matched == run[s].todo \cap run[s].hits
  IN  IF matched # {} THEN matched ELSE run[s].todo

\* What becomes of the locals when item i gets verdict v at a price.
Judged(s, i, v, cost) ==
  Become(s, [run[s] EXCEPT !.verdict[i] = v, !.todo = @ \ {i}, !.job = NoJob,
                           !.money = Less(@, cost)])

Assessable(s, i) == i \in run[s].hits \/ i \notin run[s].away

\* An out-of-scope post excuses its comments unless one matched, and without
\* money a comment keeps what the rules found.  Neither touches the disk.
PassOver(s) ==
  /\ pc[s] = "assess"
  /\ \E i \in NextUp(s) :
       \/ ~Assessable(s, i) /\ Judged(s, i, "context", 0)
       \/ Assessable(s, i) /\ run[s].money = 0 /\ Judged(s, i, "match_only", 0)
  /\ UNCHANGED <<jobVars, tableVars, knowVars, pc, lastRun, replayVars, crashes>>

\* The job is written before the attempt.
WriteJob(s) ==
  /\ pc[s] = "assess"
  /\ run[s].money > 0
  /\ \E i \in NextUp(s) :
       /\ Assessable(s, i)
       /\ EnqueueJob(<<i, hand[s]>>)
       /\ Become(s, [run[s] EXCEPT !.job = <<i, hand[s]>>])
  /\ Goto(s, "job")
  /\ UNCHANGED <<tableVars, knowVars, lastRun, replayVars, crashes>>

BeginJob(s) ==
  /\ pc[s] = "job"
  /\ StartJob(run[s].job)
  /\ Goto(s, "calling")
  /\ UNCHANGED <<tableVars, knowVars, run, lastRun, replayVars, crashes>>

\* The model answers: the job is complete and the price is charged.
Judge(s) ==
  /\ pc[s] = "calling"
  /\ CompleteJob(run[s].job)
  /\ \E cost \in 1 .. 2 : Judged(s, run[s].job[1], "model", cost)
  /\ Goto(s, "assess")
  /\ UNCHANGED <<tableVars, knowVars, lastRun, replayVars, crashes>>

\* classify() raises: the job fails, the item goes on with what the rules
\* found, and nothing is charged.
ProviderFails(s) ==
  /\ pc[s] = "calling"
  /\ FailJob(run[s].job)
  /\ Judged(s, run[s].job[1], "unanswered", 0)
  /\ Goto(s, "assess")
  /\ UNCHANGED <<tableVars, knowVars, lastRun, replayVars, crashes>>

PassThreeDone(s) ==
  /\ pc[s] = "assess"
  /\ run[s].todo = {}
  /\ Become(s, [run[s] EXCEPT !.todo = @ \cup run[s].found])
  /\ Goto(s, "record")
  /\ UNCHANGED <<jobVars, tableVars, knowVars, lastRun, replayVars, crashes>>

-----------------------------------------------------------------------------
(* run(): writing down and queueing. *)

\* record_judgement(), one commit per candidate.
Record(s) ==
  /\ pc[s] = "record"
  /\ \E i \in run[s].todo :
       /\ recorded' = recorded \cup {i}
       /\ Become(s, [run[s] EXCEPT !.todo = @ \ {i}])
  /\ UNCHANGED <<jobVars, seen, queued, rows, knowVars, pc, lastRun, replayVars, crashes>>

\* Mutant of FinishCut: the items are marked seen before their row is queued.
FinishCutRemembering(s) ==
  /\ pc[s] = "record"
  /\ run[s].todo = {}
  /\ lastRun' = IF run[s].cut THEN [lastRun EXCEPT ![s] = "item_budget"] ELSE lastRun
  /\ seen' = seen \cup run[s].found
  /\ Goto(s, IF run[s].found = {} THEN "log" ELSE "queue")
  /\ UNCHANGED <<jobVars, queued, rows, recorded, knowVars, run, replayVars, crashes>>

\* A run cut at its item budget is finished before anything is queued.
FinishCut(s) ==
  /\ pc[s] = "record"
  /\ run[s].todo = {}
  /\ lastRun' = IF run[s].cut THEN [lastRun EXCEPT ![s] = "item_budget"] ELSE lastRun
  /\ Goto(s, IF run[s].found = {} THEN "log" ELSE "queue")
  /\ UNCHANGED <<jobVars, tableVars, knowVars, run, replayVars, crashes>>

FindingsOf(s) ==
  {[item |-> i, verdict |-> run[s].verdict[i], release |-> hand[s]] : i \in run[s].found}

\* One outbox row for the whole batch.
QueueFindings(s) ==
  /\ pc[s] = "queue"
  /\ queued' = queued \cup FindingsOf(s)
  /\ rows' = [i \in Items |-> IF i \in run[s].found THEN rows[i] + 1 ELSE rows[i]]
  /\ Goto(s, "remember")
  /\ UNCHANGED <<jobVars, seen, recorded, knowVars, run, lastRun, replayVars, crashes>>

\* remember(): only once the row is committed.
Remember(s) ==
  /\ pc[s] = "remember"
  /\ seen' = seen \cup run[s].found
  /\ Goto(s, "log")
  /\ UNCHANGED <<jobVars, queued, rows, recorded, knowVars, run, lastRun, replayVars, crashes>>

\* The scan-log row, which moves the case to the back of the rota.
QueueLog(s) ==
  /\ pc[s] = "log"
  /\ Become(s, [run[s] EXCEPT !.logged = TRUE])
  /\ Goto(s, "deliver")
  /\ UNCHANGED <<jobVars, tableVars, knowVars, lastRun, replayVars, crashes>>

\* Mutant of Finish: an empty-handed run is closed without its scan-log row.
FinishUnlogged(s) ==
  /\ pc[s] = "deliver" \/ (pc[s] = "log" /\ run[s].found = {})
  /\ lastRun' = IF run[s].cut THEN lastRun ELSE [lastRun EXCEPT ![s] = "completed"]
  /\ Become(s, Blank)
  /\ Goto(s, "idle")
  /\ UNCHANGED <<jobVars, tableVars, knowVars, replayVars, crashes>>

\* After the drain (Outbox) and the evidence: the last commit.
Finish(s) ==
  /\ pc[s] = "deliver"
  /\ lastRun' = IF run[s].cut THEN lastRun ELSE [lastRun EXCEPT ![s] = "completed"]
  /\ Become(s, Blank)
  /\ Goto(s, "idle")
  /\ UNCHANGED <<jobVars, tableVars, knowVars, replayVars, crashes>>

\* The process dies; what it committed stays, what it held in memory does not.
ScanCrash(s) ==
  /\ pc[s] # "idle"
  /\ crashes < MaxCrashes
  /\ crashes' = crashes + 1
  /\ Become(s, Blank)
  /\ hand' = [hand EXCEPT ![s] = 0]
  /\ Goto(s, "idle")
  /\ UNCHANGED <<jobVars, tableVars, release, lastRun, replayVars>>

-----------------------------------------------------------------------------
(* replay(). *)

\* Mutant of SyncKnowledge: the knowledge is exchanged under a replay's feet.
SyncAnyTime(r) ==
  /\ hand' = [hand EXCEPT ![r] = release]
  /\ UNCHANGED <<jobVars, tableVars, release, scanVars, replayVars, crashes>>

\* ettok_sync_knowledge, between two calls of the tools.
SyncKnowledge(r) ==
  /\ rpc[r] = "idle"
  /\ hand' = [hand EXCEPT ![r] = release]
  /\ UNCHANGED <<jobVars, tableVars, release, scanVars, replayVars, crashes>>

\* Without knowledge the tool refuses; otherwise it reads its rows once.
ReplayStart(r) ==
  /\ rpc[r] = "idle"
  /\ hand[r] # 0
  /\ rrows' = [rrows EXCEPT ![r] = Replayable(ReplayLimit)]
  /\ rpc' = [rpc EXCEPT ![r] = "walk"]
  /\ UNCHANGED <<jobVars, tableVars, knowVars, scanVars, rjob, crashes>>

ReachedBy(r, j) == rpc[r] = "walk" /\ IsOldest(j, rrows[r])
DropRow(r, j) == rrows' = [rrows EXCEPT ![r] = @ \ {j}]

\* A job of another release is left for its own.
ReplaySkip(r) ==
  /\ \E j \in rrows[r] : ReachedBy(r, j) /\ j[2] # hand[r] /\ DropRow(r, j)
  /\ UNCHANGED <<jobVars, tableVars, knowVars, scanVars, rpc, rjob, crashes>>

Begin(r, j) ==
  /\ DropRow(r, j)
  /\ StartJob(j)
  /\ rjob' = [rjob EXCEPT ![r] = j]
  /\ rpc' = [rpc EXCEPT ![r] = "calling"]

\* Mutant of ReplayBegin: whatever release is loaded will do.
ReplayBeginAny(r) ==
  /\ \E j \in rrows[r] : ReachedBy(r, j) /\ Begin(r, j)
  /\ UNCHANGED <<tableVars, knowVars, scanVars, crashes>>

\* The row is started as it was read, whatever became of it since.
ReplayBegin(r) ==
  /\ \E j \in rrows[r] : ReachedBy(r, j) /\ j[2] = hand[r] /\ Begin(r, j)
  /\ UNCHANGED <<tableVars, knowVars, scanVars, crashes>>

ReplayJudge(r) ==
  /\ rpc[r] = "calling"
  /\ CompleteJob(rjob[r])
  /\ rpc' = [rpc EXCEPT ![r] = "queue"]
  /\ UNCHANGED <<tableVars, knowVars, scanVars, rrows, rjob, crashes>>

ReplayFails(r) ==
  /\ rpc[r] = "calling"
  /\ FailJob(rjob[r])
  /\ rpc' = [rpc EXCEPT ![r] = "walk"]
  /\ rjob' = [rjob EXCEPT ![r] = NoJob]
  /\ UNCHANGED <<tableVars, knowVars, scanVars, rrows, crashes>>

\* The verdict is queued for delivery, in a row and a commit of its own.
ReplayQueue(r) ==
  /\ rpc[r] = "queue"
  /\ queued' = queued \cup {[item |-> rjob[r][1], verdict |-> "model", release |-> hand[r]]}
  /\ rpc' = [rpc EXCEPT ![r] = "walk"]
  /\ rjob' = [rjob EXCEPT ![r] = NoJob]
  /\ UNCHANGED <<jobVars, seen, rows, recorded, knowVars, scanVars, rrows, crashes>>

ReplayEnd(r) ==
  /\ rpc[r] = "walk"
  /\ rrows[r] = {}
  /\ rpc' = [rpc EXCEPT ![r] = "idle"]
  /\ UNCHANGED <<jobVars, tableVars, knowVars, scanVars, rrows, rjob, crashes>>

ReplayCrash(r) ==
  /\ rpc[r] # "idle"
  /\ crashes < MaxCrashes
  /\ crashes' = crashes + 1
  /\ hand' = [hand EXCEPT ![r] = 0]
  /\ rpc' = [rpc EXCEPT ![r] = "idle"]
  /\ rrows' = [rrows EXCEPT ![r] = {}]
  /\ rjob' = [rjob EXCEPT ![r] = NoJob]
  /\ UNCHANGED <<jobVars, tableVars, release, scanVars>>

\* A curator publishes: every semantic input is part of the release.
ReleaseChanges ==
  /\ release < MaxRelease
  /\ release' = release + 1
  /\ UNCHANGED <<jobVars, tableVars, hand, scanVars, replayVars, crashes>>

-----------------------------------------------------------------------------
ScanStep(s) ==
  \/ \E n \in 0 .. MaxRoom, m \in 0 .. MaxMoney : StartRun(s, n, m)
  \/ StopEarly(s)
  \/ \E offered \in SUBSET Items, stop \in BOOLEAN : Collect(s, offered, stop)
  \/ Scope(s)
  \/ PassOver(s)
  \/ WriteJob(s)
  \/ BeginJob(s)
  \/ Judge(s)
  \/ ProviderFails(s)
  \/ PassThreeDone(s)
  \/ Record(s)
  \/ FinishCut(s)
  \/ QueueFindings(s)
  \/ Remember(s)
  \/ QueueLog(s)
  \/ Finish(s)
  \/ ScanCrash(s)

ReplayStep(r) ==
  \/ SyncKnowledge(r)
  \/ ReplayStart(r)
  \/ ReplaySkip(r)
  \/ ReplayBegin(r)
  \/ ReplayJudge(r)
  \/ ReplayFails(r)
  \/ ReplayQueue(r)
  \/ ReplayEnd(r)
  \/ ReplayCrash(r)

Next ==
  \/ \E s \in Scanners : ScanStep(s)
  \/ \E r \in Replayers : ReplayStep(r)
  \/ ReleaseChanges

Spec == Init /\ [][Next]_vars

\* The operator syncs and replays again and again, and a provider asked again
\* and again answers in the end.  Crashes are bounded by MaxCrashes.
ReplayFairness ==
  \A r \in Replayers :
    /\ SF_vars(SyncKnowledge(r))
    /\ SF_vars(ReplayStart(r))
    /\ SF_vars(ReplayJudge(r))
    /\ WF_vars(ReplaySkip(r) \/ ReplayBegin(r) \/ ReplayQueue(r) \/ ReplayEnd(r))

\* The case is scanned again and again with room and budget, every page offering
\* every item.
ScanFairness ==
  \A s \in Scanners :
    /\ SF_vars(StartRun(s, MaxRoom, MaxMoney))
    /\ SF_vars(Collect(s, Items, FALSE))
    /\ SF_vars(Judge(s))
    /\ WF_vars(Scope(s) \/ PassOver(s) \/ WriteJob(s) \/ BeginJob(s) \/ PassThreeDone(s)
               \/ Record(s) \/ FinishCut(s) \/ QueueFindings(s) \/ Remember(s)
               \/ QueueLog(s) \/ Finish(s))

ReplaySpec == Spec /\ ReplayFairness
FairSpec == ReplaySpec /\ ScanFairness

-----------------------------------------------------------------------------
(* Properties. *)

QueuedItems == {f.item : f \in queued}
AskedModel == {"unanswered", "model"}

\* Nothing is marked seen before it is in the delivery queue and in the local
\* log of judgements, whenever a scan is killed: what no later scan will look
\* at again is on its way (scan.py:158-166, 792-797).
SeenIsQueued == seen \subseteq QueuedItems \cap recorded

\* A scan writes an item for delivery once.  It takes a crash between the row
\* and remember(), or two scans that read seen_item before either wrote it, to
\* write it again (scan.py:564-572, 792-797).
RowsNeedCrashes == \A i \in Items : rows[i] <= Cardinality(Scanners) + crashes

\* When the money runs out it runs out on the unmatched: no comment without a
\* match was put to the model while one with a match waits for it or was passed
\* over for want of budget (scan.py:666-671).
AskedUnmatched(s) == \E i \in run[s].found \ run[s].hits : run[s].verdict[i] \in AskedModel

MatchedFirst ==
  \A s \in Scanners : AskedUnmatched(s) =>
    \A h \in run[s].hits :
      /\ run[s].verdict[h] # "match_only"
      /\ h \in run[s].todo => pc[s] = "record"

\* A judgement goes out under release k only if the model was asked under
\* release k, by a job of that release: no replay files an answer under the
\* identity of another question (__init__.py:164-191).
JudgedUnderItsRelease ==
  \A f \in queued :
    f.verdict \in AskedModel => jobs[<<f.item, f.release>>].attempts > 0

\* What a process holds while it works: knowledge of one release throughout, and
\* a job of that release once it has one; nothing between two runs.
PositionsOK ==
  /\ \A s \in Scanners :
       /\ pc[s] = "idle" => run[s] = Blank
       /\ pc[s] # "idle" => hand[s] \in Releases
       /\ pc[s] \in {"job", "calling"} => run[s].job \in Items \X {hand[s]}
       /\ pc[s] = "calling" => jobs[run[s].job].attempts > 0
  /\ \A r \in Replayers :
       /\ rpc[r] # "idle" => hand[r] \in Releases
       /\ rpc[r] \in {"calling", "queue"} =>
            rjob[r] \in Items \X {hand[r]} /\ jobs[rjob[r]].attempts > 0

\* A candidate the model was asked about was asked about in a job.
AskedOK ==
  \A s \in Scanners, i \in Items :
    run[s].verdict[i] \in AskedModel => jobs[<<i, hand[s]>>].attempts > 0

\* How far a batch has been written down at each point of the run.
BatchOK ==
  \A s \in Scanners :
    /\ pc[s] = "record" => run[s].found \ run[s].todo \subseteq recorded
    /\ pc[s] \in {"queue", "remember"} => run[s].found \subseteq recorded
    /\ pc[s] = "remember" => run[s].found \subseteq QueuedItems

\* Pass three at each of its points: nobody is judged before it, an unmatched
\* candidate is taken up when no matched one is left, and who was passed over for
\* want of budget leaves none.
OrderOK ==
  \A s \in Scanners :
    /\ pc[s] \in {"picked", "scope"} => run[s].verdict = Blank.verdict
    /\ pc[s] \in {"job", "calling"} =>
         run[s].money > 0 /\ (run[s].job[1] \in run[s].hits \/ run[s].hits \cap run[s].todo = {})
    /\ pc[s] \in {"assess", "job", "calling"} /\ AskedUnmatched(s) =>
         run[s].hits \cap run[s].todo = {}
    /\ (\E i \in Items : run[s].verdict[i] = "match_only") => run[s].money = 0
    /\ pc[s] \in {"queue", "remember", "log", "deliver"} => run[s].todo = {}

\* Scans that may still write a row for i; those that wrote one and are about
\* to mark i seen.
Carrying(i) ==
  {s \in Scanners : i \in run[s].found /\ pc[s] \notin {"remember", "log", "deliver"}}
Written(i) == {s \in Scanners : i \in run[s].found /\ pc[s] = "remember"}

\* Of the scans that wrote a row for an unseen item, all that did not crash are
\* about to mark it; once it is seen, nobody new will carry it.
RowsOK ==
  \A i \in Items :
    rows[i] <= crashes + Cardinality(IF i \in seen THEN Scanners \ Carrying(i) ELSE Written(i))

\* What the end of a run finds done.
LoggedOK ==
  \A s \in Scanners :
    /\ pc[s] \in {"log", "deliver"} => run[s].found \subseteq seen
    /\ pc[s] = "deliver" => run[s].logged

\* The job table and those who work from it: no two rows are of one age, a call
\* under way has left its trace in the table (jobs.py:12-14), and a replay holds
\* no more rows than it may.
Begun(j) == jobs[j].state \in {"running", "completed", "failed"}

JobsOK ==
  /\ \A j \in Rowed : born[j] \in 1 .. Cardinality(Rowed)
  /\ \A i, j \in Rowed : born[i] = born[j] => i = j
  /\ \A s \in Scanners :
       /\ pc[s] = "job" => run[s].job \in Rowed
       /\ pc[s] = "calling" => Begun(run[s].job)
  /\ \A r \in Replayers :
       /\ rpc[r] \in {"calling", "queue"} => Begun(rjob[r])
       /\ rrows[r] \subseteq Rowed /\ Cardinality(rrows[r]) <= ReplayLimit

\* The inductive invariant behind SeenIsQueued, JudgedUnderItsRelease,
\* RowsNeedCrashes, MatchedFirst and CompletedIsWhole.
ScanInv ==
  /\ TypeOK /\ PositionsOK /\ AskedOK /\ BatchOK /\ SeenIsQueued /\ JudgedUnderItsRelease
  /\ OrderOK /\ MatchedFirst /\ RowsOK /\ LoggedOK /\ JobsOK

\* A run is on record as completed only once everything it kept is queued and
\* marked seen and its scan-log row is queued, so the case moves to the back of
\* the rota (scan.py:792-818, 849-852).
CompletedIsWhole ==
  [][\A s \in Scanners :
       lastRun'[s] = "completed" /\ lastRun[s] # "completed" =>
         run[s].found \subseteq seen /\ run[s].logged]_vars

\* A judgement a crash or an outage interrupted is made in the end, or its
\* attempts are used up, as long as its release is the one the platform serves
\* (jobs.py:113-125).
InterruptedIsRetried ==
  \A i \in Items :
    LET j == <<i, MaxRelease>>
    IN  jobs[j].state # "none" ~> jobs[j].state = "completed" \/ jobs[j].attempts >= MaxAttempts

\* Some finding of this verdict is queued for the job's item and release; a
\* replay or a scan still has one in memory.
QueuedAs(j, v) == [item |-> j[1], verdict |-> v, release |-> j[2]] \in queued
Holding(j) ==
  \/ \E r \in Replayers : rpc[r] = "queue" /\ rjob[r] = j
  \/ \E s \in Scanners : j[1] \in run[s].found /\ hand[s] = j[2]

\* __init__.py:205-211: the platform does not go on showing an outage's empty
\* result once a replay has recovered the verdict.
RecoveredIsQueued ==
  \A j \in JobIds :
    jobs[j].state = "completed" /\ QueuedAs(j, "unanswered") =>
      QueuedAs(j, "model") \/ Holding(j)

\* __init__.py:244-248: what was left unanswered under an older release is
\* judged under the current one by scanning the case again.
LeftUnanswered(i) ==
  i \in seen /\ \A f \in queued : f.item = i => f.verdict = "unanswered" /\ f.release < MaxRelease

StaleIsReassessed ==
  \A i \in Items :
    LeftUnanswered(i) /\ release = MaxRelease ~>
      \E f \in queued : f.item = i /\ f.release = MaxRelease

=============================================================================
