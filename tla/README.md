# Ettok AI: a verification development

This directory holds TLA+ models of the parts of this repository that carry its own logic, the
plugin `src/plugins/ettok/`, with TLC configurations that check them on small instances and TLAPS
proofs that hold for every instance. Around the plugin the repository contains an agent runtime
(conversation loop, gateway, cron, tools, desktop and web front ends) that it inherits from an
upstream project. Of that runtime the cron part is modelled too, `src/cron/`, because every
unattended scan is fired by it and every report of one leaves through it; from the rest the models
take only that several processes work on one SQLite file, and that any of them may be killed.

## The system

| part | source (`src/plugins/ettok/` unless it starts with `cron/`) | state it keeps | operations | hard part | what makes it correct |
|---|---|---|---|---|---|
| delivery outbox | `platform/outbox.py` | table `outbox` | enqueue, reclaim_in_flight, drain | several drainers, lost and late answers, crash between send and record | delivered only if performed, performed once, every row settles |
| platform client | `platform/client.py` | none | request with retries, classified outcome, uploads | not paired, 4xx, 5xx, dropped line | an outcome is permanent only if it will not change |
| classification jobs | `jobs.py` | table `classification_job` | enqueue, start, complete, fail, replayable | crash in an attempt, two workers on one job | an interrupted judgement is made or given up visibly |
| scan run | `scan.py` | `seen_item`, `classification`, `case_run`, queued rows | run(): collect, scope, classify, record, queue, remember, log | crash between any two commits, budgets that run out, stale knowledge | nothing seen is lost, duplicates need a cause, money goes to matches |
| agent tools | `__init__.py` | knowledge in memory | sync, scan, replay, submit, collect, resolve_context, teach | model calls of minutes between a read and its use | a verdict keeps the identity of its question |
| evidence archive | `collect/evidence.py` | files, table `evidence_artifact` | capture, store, deliver, discard_delivered | the only copy; crash between mark, unlink and commit; two deliverers | never delete the only copy, never forget a file |
| cases and rota | `cases.py` | `case_run` | pick, start_run, finish_run, Budget | a case claimed elsewhere, cached budgets | one case does not starve another |
| cron job firing | `cron/jobs.py`, `cron/scheduler.py`, `cron/executions.py` | fire claim in `jobs.json`, a lock per job, the ledger `executions.db` | claim, heartbeat, hand to a worker, run, deliver, mark, finish, recover | a worker outlives its gateway, a stalled run is replaced and wakes up | one run delivers at a time, a settled outcome stands, the job is fired again |
| cron delivery queue | `cron/delivery_queue.py` | tables `deliveries`, `delivery_tombstones` | enqueue_and_wait, claim_next, send, finish, recover_abandoned, retention | crash between send and record, a worker that gives up while a gateway sends | a message is sent at most once and an outcome stands |
| accounts and pacing | `collect/session.py` | table of account states | account_state, record_success, quarantine, release | expiry, states overwriting each other | no collecting with a lost or quarantined account |
| report publishing | `publish.py` | none (jobs are on the platform) | claim, publish, report | failure in the middle of a batch | each claimed job is reported |
| knowledge fetch | `platform/knowledge.py` | a bundle in memory | fetch, assessment_id | three requests across a release | one release per bundle |
| pairing | `platform/pairing.py` | `.env` | begin, poll, write_credentials | the key is handed over once | the key is not lost |
| local store | `store/schema.py` | the SQLite file | connect, table rebuilds | killed between two statements of a rebuild | no row is lost |
| detection | `detect/` | none | match, scope, classify, guidance | pure functions over text | undecided is never a clearance |
| reports, CLI, wizard, dashboard | `report.py`, `cli.py`, `setup_wizard.py`, `dashboard/` | none | views and prompts | none | none |

How they interact: the collect tool captures a page and stores its row; the scan tool fetches
knowledge, picks a case, and turns collected items into findings, writing a job before each model
call; findings, the scan log and lexicon gaps become outbox rows; the end of a submitting scan
drains the outbox and then delivers evidence. The replay tool takes up jobs a crash or an outage
left and queues their verdicts; the submit tool and the command line drain the same outbox. They
share nothing but the SQLite file and the evidence directory.

Which case a scan works is settled with the platform: `pick()` reads it off the knowledge in hand, the
run claims the case and gives it back, and the case moves on only when the scan-log row, which
waits in the outbox and outlives the run, arrives. A scheduled scan is an attempt at a cron job. It
is claimed in `jobs.json`, written to the ledger, run by the gateway itself or by a worker process
that survives a restart of the gateway, and its report is sent under the job's lock, or, by a worker,
left in the delivery queue for whichever gateway is up.

## The modules

| module | models | correspondence |
|---|---|---|
| `Delivery` | what the outbox promises | abstract: submit, perform once, acknowledge after |
| `Outbox` | `outbox.py`, the platform behind it | one action per commit of `drain()`; `wire` holds requests in transit, `performed` what the platform has done under which key |
| `Jobs` | `jobs.py` | one operator per function; `born` is the order of `created_at` |
| `ScanRun` | `scan.run()` and the `replay` tool on the jobs of `Jobs` | one action per commit; the locals of a run are the record `run[s]`, its place is `pc[s]` |
| `Evidence` | `collect/evidence.py` | one action per file read, request, commit and unlink; the locals of a delivery are `run[d]` |
| `Rota` | `pick()`, `claim_case()`, the head and the end of `scan.run()`, several agents at one platform | one action per call to the platform; the age of an agent's knowledge is `choice[a]` |
| `Accounts` | `collect/session.py`: the table `account_health` | one operator per function |
| `Publish` | `publish.py` and the collect tool over the accounts of `Accounts`, jobs at the platform | one action per commit, request or use of an account; `noticed`, `careless`, `posts`, `told` and `stranded` are history |
| `AtMostOnce` | what the cron delivery queue promises, and publishing | abstract: request, at most one attempt, one outcome |
| `CronDelivery` | `cron/delivery_queue.py` | one action per transaction; a gateway's place in `drain()` is `pc[g]`, a worker in `enqueue_and_wait()` is `waiting[r]` |
| `CronFire` | who runs a job: `jobs.py`, `scheduler.py`, `executions.py` of `cron/` | one action per transaction or held lock; the attempt's place is `pc[e]`, its messages are counted in `sent[e]`; history in `marked`, `turn`, `starts` and `unwritten` |
| `MC` and the module's name | small instances | only give constants their values |
| `OldestFirst` | SELECT ... ORDER BY age LIMIT n | lemmas only: what such a query of `Outbox`, `Jobs` and `Evidence` returns |
| `OutboxProofs`, `ScanProofs`, `EvidenceProofs`, `PublishProofs`, `RotaProofs`, `CronDeliveryProofs`, `CronFireProofs` | | lemmas, inductive invariants, theorems |

`ScanRun` extends `Jobs`, and `Publish` extends `Accounts`. `Outbox` and `ScanRun` meet in the set `queued`: what `ScanRun` puts there
is a row of `Outbox` from then on, and neither reads what the other does with it, so they are
checked apart. `Rota` takes a whole run of `ScanRun` as the span between a claim and the row it
queues. `CronFire` takes a delivery as the step between its two looks at the claim; how a worker's
message leaves is `CronDelivery`. `Publish` and `Evidence` meet in the collect tool, which notes what
a page says of the account before it stores the capture; neither looks at the other's table.

Abstractions. A message, item or capture is a number or a model value. A verdict is the kind of
judgement it is; a model call costs one or two units of the budget, a scope check none or one.
Every item hangs under a post of its own. A crash is an action that empties a process's memory and
keeps the tables, the files and what the platform has. SQLite commits are atomic and durable; a
transaction that spans several statements is one action where it is committed.
In `Evidence`, another process may commit while one is unlinking, although SQLite's write lock
would make it wait: more interleavings than the program has, none less.
In the cron modules a restarted gateway is another element of `Gateways`, since the code tells
processes apart by pid, start time and a uuid. Times are their effects: a claim is fresh or not, a
handoff is within its grace or late, a case is due or not.

## What the runs check

| run | instance | shows |
|---|---|---|
| `outbox_shared` | 2 rows, 2 drainers, only one of which reclaims, limit 2 | `IndInv`, `PerformedOnce` |
| `outbox_single` | 3 rows, 1 drainer, limit 2, row 2 malformed | `LoneDrainerInv`, `ImplementsDelivery`, `EveryRowSettles` |
| `outbox_reclaim` | 2 rows, 2 drainers that reclaim | `ReclaimsOnlyAbandoned` fails |
| `scan_run` | a matched and an unmatched item, room and money for two units, 2 crashes | `SeenIsQueued`, `RowsNeedCrashes`, `MatchedFirst`, `CompletedIsWhole` |
| `scan_retry` | 1 item, a scan and a replay, 2 releases, 2 attempts, 1 crash | `ScanInv`, `JudgedUnderItsRelease`, `InterruptedIsRetried` |
| `scan_stale` | 1 item, 2 releases, no crash | `StaleIsReassessed` fails |
| `scan_recovered` | 1 item, 1 release, 1 crash | `RecoveredIsQueued` fails |
| `evidence` | 2 captures, 2 deliverers, 1 crash; capture 1 is refused and may be unreadable or stuck | `EvidenceInv`, `OnlyCopyKept`, `ForgottenMeansGone`, `EveryCaptureArrives`, `RemovedUnlessKilled` |
| `publish` | 2 publishers, 1 collector, 1 account, 2 posts, 2 jobs a claim | `PublishInv`, `ChallengesAreKept`, `ReportsAreTrue`, `AtMostOnePost`, `EveryClaimIsReported` |
| `rota` | 2 agents, one of them also operated by a person, 2 cases of equal rank, one waiting row a case, one run that breaks | `RotaInv`, `OverlapNeedsMishap`, `EveryCaseHasItsTurn` |
| `cron_delivery` | 2 requests, one made twice, 2 gateways of which the newer survives, 2 rows a drain, 1 outcome kept | `DeliveryInv`, `RetentionBound`, `ReportsAgree`, `AtMostOneSend`, `EveryRowSettles` |
| `cron_fire` | 2 attempts at one job, a managed gateway that may die and a surviving one that runs jobs itself and is fired by a webhook too (`Direct`), stalls, failing writes and locks that cannot be had | `FireInv`, `DeliversAlone`, `CompletedIsMarked`, `RecordsInOrder`, `SettledIsOver`, `EveryRunSettles`, `ClaimableAgain` |

Why the bounds are enough. `outbox_shared` needs two rows so that an answer to one could be taken
for the other, and two drainers so that one could overwrite the other; three rows against a limit
of two in `outbox_single` make a row wait for a later drain behind a malformed one. `scan_run` has two
crashes because a duplicate after a crash needs one and losing the second attempt needs another;
money 2 with prices up to 2 lets it run out before, between and after the two items. `scan_retry`
has two releases so that a job can go stale under a replay that has already read it, and two attempts
so that they can be used up. In `evidence` the refused capture is the older one, so that it stays at
the head of every snapshot, and a second deliverer can unlink between the two reads of the first.
`publish` has one account for both posts and the collector, so that uses meet and the first post of
a batch may put the account of the second out; two publishers so that a job could be with both.
`rota` needs two cases so that one could starve and two agents so that they could meet on one;
`MaxRows` 1 means a second row of a case is not queued while one waits, and its single fault lets
a claim be left behind by a run that is gone. `cron_delivery` keeps one outcome so that a second
retires the first to a tombstone while a repeated request for it may still come. Two attempts in
`cron_fire` are the replaced run and its replacement, in each of the four pairings of gateway
and worker; `Direct` holds one of them to keep the run short; the
proofs hold for any.
Bounds appear as constants named for it (`MaxRows`, `MaxCrashes`, `MaxRelease`, `MaxRoom`, `MaxMoney`,
`MaxCaptures`, `MaxFaults`, `MaxRuns`, `MaxRequests`); the clock of a deferred row is the action `ClockPasses`.
Deadlock is checked except in `evidence`, where the system rests once every capture is
delivered, and in `cron_fire`, where it rests once the last attempt is over.

Every property of a passing run has a mutant of the code that breaks it, a definition next to the one it
changes: a shared key, a key per attempt, a reclaim that takes too much or too little, seen before
queued, no look at `seen_item`, collection order instead of priority, a run closed without its log,
knowledge exchanged in the middle of a replay, a replay under any release, running jobs left alone,
confirmation on send, an exception that leaves the loop, discarding unconfirmed rows, forgetting the
rows another process has just marked, discarding only when nothing waits, a lost login that heals by
itself, posting without a look at the account, passing over a job whose account is out, posting
again after an unclear end, an unconfirmed post reported as done, a claim that ignores the 409, a pick by state alone, an abandoned
send queued again, a time-out reported as failed although the row is still queued, a lease as the only guard of a delivery, a crash notice
after a delivery that was attempted, a mark
without a look at the claim, a fire claim nobody may ever take over. `PROJECT.json` lists them all.

## Fairness

Safety needs none. Liveness assumes what the program is built on and no more:

* scans and drains are started again and again (the cron scheduler of the runtime), hence strong
  fairness of starting and weak fairness of each step of a process that is not killed. In `Outbox`
  processes may crash for ever, so steps carry strong fairness; elsewhere crashes are bounded;
* a request, an upload or a model call that is repeated for ever succeeds in the end (strong
  fairness of acceptance, of the answer to a waiting process and of `ReplayJudge`); a single one may
  fail, and any finite number may;
* an HTTP request that is never answered times out (`client.py:109`), hence weak fairness of
  `RecordTransient`;
* `next_attempt_at` is reached, and so are the next scan of a case, the end of a lease and the end
  of a knowledge bundle's quarter of an hour; a knowledge bundle that is too old is fetched again;
* in `Publish`, a process that is not killed goes on: pages, requests and the retries of a report
  have time limits (weak fairness of `Step`). Runs need not be started again for what is checked;
* in `Rota`, the schedule's run of an agent that finds its case free gets it in the end (strong
  fairness of `InTurn`): an agent does not lose the race for a free case for ever. Runs that raise
  or are killed are bounded, because an agent whose every run breaks does starve its case;
* in `CronDelivery`, the housekeeping of every living gateway comes round once a minute (weak
  fairness of `Drain`), and a gateway whose claims are cut off by commits that fail gets one through in the
  end (strong fairness of `Claim`);
* in `CronFire`, a living run goes on, since jobs, scripts and deliveries have time limits (weak
  fairness of `Step`); recovery runs every five minutes in the gateways that survive (`Recover`); the
  handoff's grace runs out (`GraceEnds`), and so does the lease of a claim whose run has ended
  (`Forsaken /\ Expire`). The lease may run out at any other time as well: a live process may miss
  all its heartbeats. The heartbeat thread has no action of its own, because what it finds is read only in
  the looks a run takes at its claim (`Lost`).

`scan_stale` is refuted under all of this plus a case that is scanned again and again with room and
money and a page that offers every item: giving the program more does not help it.

Liveness is checked within limits that matter. `EveryRowSettles` has one drainer: two that reclaim from each
other for ever, and as many always-deferred rows as the limit, are outside it.
`EveryRunSettles` of `CronFire` excuses an attempt whose outcome could not be written
(`unwritten`) for as long as the process that owns its row lives, because recovery does not look at the rows
of the living. `EveryCaptureArrives` has fewer refused captures than the limit: with 50 of them at the head of the
query, newer captures are never tried. `InterruptedIsRetried` has fewer stale jobs than the limit of
a replay, for the same reason.

## What is proved

All proofs are checked by TLAPS from the definitions and the named assumptions on the constants
(finitely many items and scanners, natural bounds, positive limits, scanners apart from replayers).

* `OldestFirst`: a query of `n` rows in the order of an age that no two of a finite set of rows share
  returns `n` of them, or all if there are fewer (`FirstNAreCounted`). The models write such a query as the
  rows that fewer than `n` others precede; the number of rows before a row is a bijection onto
  `0 .. |A| - 1`, which is the whole proof. `DrainsAreBounded`, `ReplaysAreBounded` and
  `UploadsAreBounded` use it: no pass works on more than its limit, whatever waits and whatever
  others commit meanwhile.
* `OutboxProofs`: `Invariance` proves `IndInv`. "Delivered means performed" and "performed once"
  are not inductive alone: a late answer could be taken for another row (`PositionsOK` says who
  waits for what, and that an `ok` is held only for performed work), and a second key could be in
  use (`KeysOK` says that every request in transit carries its row's key). `DeliveredIsPerformed`
  and `WorkIsDoneOnce` follow. `LoneDrainerDelivers` proves the refinement of `Delivery` for one
  drainer that reclaims. It rests on `SnapshotStaysPending`, that is on `LoneDrainerInv`, which is
  what two drainers break: a row delivered by one may be set back to in_flight by the other's
  older snapshot.
* `ScanProofs`: `ScanInvariance` proves `ScanInv`, whose parts say how far a batch is written down
  at each place of a run (`BatchOK`), which release a process holds (`PositionsOK`), that
  whoever has a model verdict has counted an attempt (`AskedOK`), that matched items come first in what is
  still to judge (`OrderOK`), that a run past its log row has queued it (`LoggedOK`), and that
  job rows have ages of their own and are there before their model calls (`JobsOK`).
  `SeenIsDeliverable`, `ReleasesAreKept`, `MoneyGoesToMatches` and `CallsLeaveATrace` follow, and
  `CompletedRunsAreWhole` as an action property.
  `DuplicatesNeedCrashes` is a counting argument (`RowsOK`): while an item is not seen, each
  of its rows belongs to a scan that is about to mark it (`Carrying`, `Written`) or to one that was
  killed there; once it is seen, no scan takes it up any more, and
  each that still has it can add one row. Hence at most one row for each scanner and each crash.
* `EvidenceProofs`: `EvidenceInvariance` proves `EvidenceInv`. That the only copy is kept rests on
  three facts that hold together: the platform has all of a capture or nothing (`AllOrNothing`),
  a run that reads a capture the platform lacks reads all of it (`ReadOK`, because nobody unlinks
  what is not marked), and marked means held (`DeliveredIsHeld`). `ForgottenMeansGone` rests on the
  files of chosen rows being among those still to unlink. `OnlyCopyIsKept` and
  `NoFileIsForgotten` follow.

* `PublishProofs`: `PublishInvariant` proves `PublishInv` in two halves. Of the accounts, that while
  nobody was careless an account has one user, who alone knows of a block the table does not have
  (`UsesAreAlone`); `BlocksAreKept` needs it, because a success or a second block written by another
  user would wipe the first. Of the jobs, that each is with one process, which knows what the site
  answered to it (`JobsAreOwned`); `ReportsTellTheTruth` and `NothingIsPostedTwice` follow.
  `PublishingKeepsItsPromise` proves that publishing implements `AtMostOnce`: a claim is the
  request of several jobs at once, a post that goes out is the attempt, and what the platform makes of the
  report is an outcome that stands, whoever reports again.
* `RotaProofs`: `RotaInvariant` proves `RotaInv`: until a mishap, whoever works a case or is about to give it back
  holds it at the platform, and nobody submits without a claim.
  `OverlapsAreMishaps` follows.
* `CronDeliveryProofs`: `DeliveryInvariant` proves `DeliveryInv`: a row that may still be claimed was
  never sent, a row and its tombstone never coexist, and a gateway that holds a row is alone with
  it. `QueueKeepsItsPromise` proves the refinement of `AtMostOnce` from it, for any number of gateways, deaths and
  repeated requests; `RetentionIsBounded` and `ReportsAreHonest` follow. The latter says of every report
  what the row and its message were at that moment, and of every message that leaves after the report of a
  failure that its row is left unknown.
* `CronFireProofs`: `FireInvariant` proves `FireInv`, which says for each place of a run what it
  holds there: the fence while it delivers, and under the fence the claim, because the claim changes
  hands only under the fence. `DeliveriesAreAlone` is about results: the notice of a crash is sent without
  the fence, may go out beside the delivery of a replacement, and is held to one thing, that a run which
  attempted its delivery sends none. `DeliveriesAreAlone`, `CompletedRunsAreMarked`, `RecordsAreInOrder` (by the
  order in which runs took the claim, `turn`) and `SettledRunsAreOver` follow.

Every safety invariant, action property and refinement that a passing run checks is stated by a theorem. Only model-checked
are the liveness properties, which are out of the prover's reach as are ENABLED and
induction over recursive data, and the three properties that fail. TLC looked at the inductive invariants before
they were proved: each is an invariant of a run, and `ScanInv` was also checked once on the instance
of `scan_run` (1,993,769 states) and on two scanners over one matched item, alone (197,933) and with a
replay beside them (1,859,894).

## What the work found

With a run: `reclaim_in_flight()` takes rows from living processes (`outbox.py:57` against 51);
an unanswered item is never reassessed after a release change (`scan.py:565` against
`__init__.py:247`); a replay killed between two commits loses its verdict for good
(`__init__.py:203` against 205-211). Without a run, read off the code while modelling it: a
delivered capture whose run was killed before it unlinked stays on the machine until another one waits
(`evidence.py:183` against 11; `RemovedUnlessKilled` shows that nothing else keeps it there); a job whose
report or bookkeeping raises strands the claimed ones behind it (`publish.py:139` against 124); a
success that began before a challenge wipes the quarantine (`session.py:123` against 35), and a
challenge wipes a lost login (`session.py:141` against 134); a read error
counts as a missing file and the capture is then marked delivered and deleted (`evidence.py:189`); an unlink error leaves a file no row names
(`evidence.py:139`); rows refused while the machine was unpaired are never retried
(`outbox.py:94`); a job killed in its last attempt is neither replayable nor counted as needing
attention (`jobs.py:121`); replay takes jobs that are running and judges with fewer inputs than
the scan did; `start()` follows `enqueue()` whatever state the found job is in; a claim call that
times out counts as a platform without claiming (`scan.py:531`); a run within a quarter of an hour of the
last fetch picks the case just scanned again, with its whole budget (`scan.py:435`); a run that does
not submit still collects and queues, under no claim (`scan.py:511`); after a restart of its gateway a
live worker's claim counts as dead, so that the job is run a second time beside it
(`cron/jobs.py:2065`; `DeliversAlone` and `RecordsInOrder` hold all the same); a worker's time-out fences a row that a
gateway has claimed and not yet handed over, so that the message leaves after its failure was reported
(`cron/delivery_queue.py:340` against 316; `ReportsAgree` says when); the notice of a crashed run is sent
without the fence, after a look at the claim that answers "still ours" when it raises
(`cron/scheduler.py:2937` against 2933; `DeliversAlone` names it); an answer of 300 to 399 counts as
success, so that a redirect in front of the platform would empty the queue and delete captures
(`platform/client.py:114`). `PROJECT.json` has the quotations.

Smaller observations on the cron code. `_terminalize_wait_timeout()` reads the row and not its
tombstone, so a delivered row that is retired between two polls is reported to the worker as timed
out. A worker whose time is up while its row is still pending is told it was deferred, and nobody is
told if it fails later (`delivery_queue.py:316`). `docs/chronos-managed-cron-contract.md` says that a
relay's retry after a completed fire is dropped; `claim_job_for_fire()` does not look at the due time,
so it runs the job again. A run's own heartbeat waits for the job's lock while its delivery holds it; a delivery
longer than that wait makes the run believe it was replaced, and it is recorded as interrupted.

`OnlyCopyKept` names the captures it excludes (`Unreadable`, those the system may fail to read) and
`ForgottenMeansGone` those the system may fail to remove (`Stubborn`); both are empty on a machine
where file operations on existing files succeed.

## Not modelled

* `on_delivered` of `drain()` and `forget_completed()` have no caller; the empty-item branch of
  `replay` cannot be reached from a scan, which skips items without text.
* `Rota`: the remaining budget of a case, cases the platform adds or withdraws, ranks other than equal
  in the instance (a lower rank starves by design while a higher one is due). A claim names the
  agent's key, so the platform cannot tell two processes of one machine apart.
* `Publish`: several machines, which have a table each and share accounts only if one person is signed
  in on both; the pauses of `Pacer`; the patterns of `detect_block`, whose false positives are blocks like others.
  `publish.run()` has no caller in this repository but its tests: that it is started again is not assumed.
* `CronFire`: one-shot jobs, schedules and the due time of an occurrence, the marking of runs at an
  orderly shutdown, the forced release of a run that overstays; a ledger read that raises in a gateway
  waiting for its worker, which takes the living worker for a failed launch and gives its claim up
  (`scheduler.py:2442`). Why a write or a lock fails is left open: it may fail at any time.
  `CronDelivery`: redaction of payloads and the migration of columns.
* Post checkpoints (`remember_posts`), the lexicon-gaps row, `resolve_context`.
* Two captures of one address in one second share a file stem; captures in the model own their files.
* Which case an artefact belongs to: written once with the row, never changed.
* Answers of 300 to 399, which no handler of the platform is known to give: `Outbox` and `Evidence` take a
  success for the platform's own.
* Text: prompts, matching, normalisation, selectors, formatting.

## Plan

1. Done: `Delivery`, `Outbox`, `Jobs`, `ScanRun`, `Evidence`; then `CronDelivery` with
   `AtMostOnce`, `CronFire`, `Rota` and `Publish` with `Accounts`; their runs and theorems.
2. `Knowledge`: one bundle or three requests across a release, and the case budgets kept with it;
   property: a bundle is of one release.
3. `Migration`: the table rebuilds of `schema.py`, statement by statement, two processes connecting;
   property: every row is in the table again after the next connect. One run.
4. In existing modules: `resolve_context` and the lexicon-gaps row in `ScanRun`, the two statements of
   `enqueue()` in `Jobs`.
5. Proofs: what is left is that `ScanRun` hands rows to the outbox as `Delivery` expects of a submitter, and,
   in `Rota`, how often a case can be overtaken by one that was scanned after it.
