---------------------------- MODULE CronDelivery ----------------------------
(***************************************************************************)
(* cron/delivery_queue.py: the table in which a cron worker, which lives   *)
(* outside the gateway and holds no adapter, leaves the message of its run *)
(* for whatever gateway process is up to send.                             *)
(*                                                                         *)
(* A worker inserts one row and polls it; every gateway's housekeeping     *)
(* thread drains the table once a minute.  Each transaction of the code is *)
(* one action, so gateways, workers and deaths interleave between them.    *)
(* A restarted gateway is another element of Gateways: process identity in *)
(* the code is a uuid made at import (line 32), pid and start time.        *)
(***************************************************************************)
EXTENDS Naturals, FiniteSets

CONSTANTS
  MaxRequests,  \* bound: executions are 1 .. MaxRequests, in order of created_at
  Gateways,     \* gateway processes that ever run
  Nobody,       \* the owner of a row no gateway has claimed: NULL
  Survivors,    \* those that are never killed
  Limit,        \* drain()'s limit: how many rows one call takes
  Keep,         \* MAX_TERMINAL_DELIVERIES
  Repeated      \* executions whose delivery is requested a second time

ASSUME MaxRequestsAssumption == MaxRequests \in Nat
ASSUME NobodyAssumption == Nobody \notin Gateways
ASSUME SurvivorsAssumption == Survivors \subseteq Gateways
ASSUME LimitAssumption == Limit \in Nat \ {0}
ASSUME KeepAssumption == Keep \in Nat
ASSUME RepeatedAssumption == Repeated \subseteq 1 .. MaxRequests

Requests == 1 .. MaxRequests
NoRequest == 0

Terminal == {"delivered", "failed", "unknown"}
States == {"pending", "delivering"} \cup Terminal

VARIABLES
  status,       \* deliveries.status, or "absent" when there is no row
  owner,        \* deliveries.owner_process_id / owner_pid / owner_started_at
  tomb,         \* delivery_tombstones.terminal_status, or "none"
  alive,        \* the gateway process exists
  active,       \* _ACTIVE_DELIVERIES of each gateway process
  pc,           \* where each gateway is in drain()
  row,          \* the row it has picked, claimed or sent
  left,         \* how many more rows this drain() may take
  waiting,      \* a worker is in enqueue_and_wait for this execution
  calls,        \* how often it was called
  answer,       \* what the last call that returned reported: "none", "ok", "error"
  sends         \* how often the row was handed to the gateway's send callback

tableVars == <<status, owner, tomb>>
gatewayVars == <<alive, active, pc, row, left>>
workerVars == <<waiting, calls, answer>>
vars == <<tableVars, gatewayVars, workerVars, sends>>

TypeOK ==
  /\ status \in [Requests -> States \cup {"absent"}]
  /\ owner \in [Requests -> Gateways \cup {Nobody}]
  /\ tomb \in [Requests -> Terminal \cup {"none"}]
  /\ alive \in [Gateways -> BOOLEAN]
  /\ active \in [Gateways -> SUBSET Requests]
  /\ pc \in [Gateways -> {"idle", "looping", "picked", "claimed", "sent"}]
  /\ row \in [Gateways -> Requests \cup {NoRequest}]
  /\ left \in [Gateways -> 0 .. Limit]
  /\ waiting \in [Requests -> BOOLEAN]
  /\ calls \in [Requests -> 0 .. 2]
  /\ answer \in [Requests -> {"none", "ok", "error"}]
  /\ sends \in [Requests -> Nat]

Init ==
  /\ status = [r \in Requests |-> "absent"]
  /\ owner = [r \in Requests |-> Nobody]
  /\ tomb = [r \in Requests |-> "none"]
  /\ alive = [g \in Gateways |-> TRUE]
  /\ active = [g \in Gateways |-> {}]
  /\ pc = [g \in Gateways |-> "idle"]
  /\ row = [g \in Gateways |-> NoRequest]
  /\ left = [g \in Gateways |-> 0]
  /\ waiting = [r \in Requests |-> FALSE]
  /\ calls = [r \in Requests |-> 0]
  /\ answer = [r \in Requests |-> "none"]
  /\ sends = [r \in Requests |-> 0]

-----------------------------------------------------------------------------
(* The tables *)

\* get_status(): the row, or else the tombstone that retention left of it.
Outcome(r) ==
  IF status[r] \in Terminal THEN status[r]
  ELSE IF status[r] = "absent" THEN tomb[r] ELSE "none"

\* What enqueue_and_wait makes of a terminal status: None, or an error.
Report(result) == IF result = "delivered" THEN "ok" ELSE "error"

TerminalRows(st) == {r \in Requests : st[r] \in Terminal}

\* max(0, terminal_count - keep)
Excess(st) ==
  LET count == Cardinality(TerminalRows(st)) IN IF count > Keep THEN count - Keep ELSE 0

\* _prune_terminal_unlocked() at the end of a transaction that leaves `st`:
\* the terminal rows beyond Keep become tombstones.  The code takes those
\* finished longest ago by the wall clock, which may be set back: any may be.
Prune(st) ==
  \E gone \in SUBSET TerminalRows(st) :
    /\ Cardinality(gone) = Excess(st)
    /\ status' = [r \in Requests |-> IF r \in gone THEN "absent" ELSE st[r]]
    /\ tomb' = [r \in Requests |->
                  IF r \in gone /\ tomb[r] = "none" THEN st[r] ELSE tomb[r]]

-----------------------------------------------------------------------------
(* The worker *)

\* Mutant of Enqueue: the tombstone is not looked up.
EnqueueUnchecked(r) ==
  /\ ~waiting[r]
  /\ calls[r] < IF r \in Repeated THEN 2 ELSE 1
  /\ \A q \in Requests : q < r => calls[q] > 0
  /\ calls' = [calls EXCEPT ![r] = @ + 1]
  /\ status' = [status EXCEPT ![r] = IF @ = "absent" THEN "pending" ELSE @]
  /\ waiting' = [waiting EXCEPT ![r] = TRUE]
  /\ UNCHANGED <<owner, tomb, gatewayVars, answer, sends>>

\* enqueue(): under BEGIN IMMEDIATE, the tombstone is looked up and the row
\* inserted unless one is there.  A terminal status is answered at once.
\* Executions are numbered by created_at, so the first calls come in order.
Enqueue(r) ==
  /\ ~waiting[r]
  /\ calls[r] < IF r \in Repeated THEN 2 ELSE 1
  /\ \A q \in Requests : q < r => calls[q] > 0
  /\ calls' = [calls EXCEPT ![r] = @ + 1]
  /\ IF Outcome(r) # "none"
     THEN /\ answer' = [answer EXCEPT ![r] = Report(Outcome(r))]
          /\ UNCHANGED <<status, waiting>>
     ELSE /\ status' = [status EXCEPT ![r] = IF @ = "absent" THEN "pending" ELSE @]
          /\ waiting' = [waiting EXCEPT ![r] = TRUE]
          /\ UNCHANGED answer
  /\ UNCHANGED <<owner, tomb, gatewayVars, sends>>

\* One poll of the loop of enqueue_and_wait() that finds a terminal status.
Poll(r) ==
  /\ waiting[r]
  /\ Outcome(r) # "none"
  /\ waiting' = [waiting EXCEPT ![r] = FALSE]
  /\ answer' = [answer EXCEPT ![r] = Report(Outcome(r))]
  /\ UNCHANGED <<tableVars, gatewayVars, calls, sends>>

\* Mutant of WaitTimesOut: the time-out of one row does not prune.
WaitTimesOutUnpruned(r) ==
  /\ waiting[r]
  /\ waiting' = [waiting EXCEPT ![r] = FALSE]
  /\ LET fenced == IF status[r] = "delivering" THEN "unknown" ELSE status[r]
     IN /\ status' = [status EXCEPT ![r] = fenced]
        /\ answer' = [answer EXCEPT ![r] = IF fenced = "pending" THEN "ok" ELSE Report(fenced)]
  /\ UNCHANGED <<owner, tomb, gatewayVars, calls, sends>>

\* Mutant of WaitTimesOut: a row still queued is reported as a failure.
WaitTimesOutFailing(r) ==
  /\ waiting[r]
  /\ waiting' = [waiting EXCEPT ![r] = FALSE]
  /\ answer' = [answer EXCEPT ![r] = Report(status[r])]
  /\ Prune([status EXCEPT ![r] = IF @ = "delivering" THEN "unknown" ELSE @])
  /\ UNCHANGED <<owner, gatewayVars, calls, sends>>

\* _terminalize_wait_timeout(): the deadline has passed.  A pending row is
\* left queued and reported as success; one caught mid-send becomes unknown.
\* Only the row is read here: one retention has retired reads as a time-out.
WaitTimesOut(r) ==
  /\ waiting[r]
  /\ waiting' = [waiting EXCEPT ![r] = FALSE]
  /\ IF status[r] = "pending"
     THEN /\ answer' = [answer EXCEPT ![r] = "ok"]
          /\ UNCHANGED <<status, tomb>>
     ELSE LET fenced == IF status[r] = "delivering" THEN "unknown" ELSE status[r]
          IN /\ answer' = [answer EXCEPT ![r] = Report(fenced)]
             /\ Prune([status EXCEPT ![r] = fenced])
  /\ UNCHANGED <<owner, gatewayVars, calls, sends>>

\* The worker is killed while it waits.
WorkerDies(r) ==
  /\ waiting[r]
  /\ waiting' = [waiting EXCEPT ![r] = FALSE]
  /\ UNCHANGED <<tableVars, gatewayVars, calls, answer, sends>>

-----------------------------------------------------------------------------
(* The gateway *)

\* Mutant of Abandoned: a process leaves its own rows to others.
AbandonedByOthers(g) ==
  {r \in Requests : status[r] = "delivering" /\ owner[r] # g /\ ~alive[owner[r]]}

\* A delivering row is abandoned if its owner is provably gone, or is this
\* process and no drain of it is busy with the row any more.
Abandoned(g) ==
  {r \in Requests :
     /\ status[r] = "delivering"
     /\ IF owner[r] = g THEN r \notin active[g] ELSE ~alive[owner[r]]}

\* Mutant of StartDrain: an abandoned row is queued once more.
StartDrainRequeueing(g) ==
  /\ alive[g] /\ pc[g] = "idle"
  /\ Prune([r \in Requests |-> IF r \in Abandoned(g) THEN "pending" ELSE status[r]])
  /\ pc' = [pc EXCEPT ![g] = "looping"]
  /\ left' = [left EXCEPT ![g] = Limit]
  /\ UNCHANGED <<owner, alive, active, row, workerVars, sends>>

\* drain() starts with recover_abandoned().  The SELECT and its guarded
\* UPDATEs are one action: an abandoned row stays so until it is unknown.
StartDrain(g) ==
  /\ alive[g] /\ pc[g] = "idle"
  /\ Prune([r \in Requests |-> IF r \in Abandoned(g) THEN "unknown" ELSE status[r]])
  /\ pc' = [pc EXCEPT ![g] = "looping"]
  /\ left' = [left EXCEPT ![g] = Limit]
  /\ UNCHANGED <<owner, alive, active, row, workerVars, sends>>

\* claim_next(), first statement: the oldest pending row.
Pick(g) ==
  /\ pc[g] = "looping"
  /\ left[g] > 0
  /\ \E r \in Requests :
       /\ status[r] = "pending"
       /\ \A q \in Requests : status[q] = "pending" => r <= q
       /\ row' = [row EXCEPT ![g] = r]
  /\ pc' = [pc EXCEPT ![g] = "picked"]
  /\ UNCHANGED <<tableVars, alive, active, left, workerVars, sends>>

\* claim_next(), the UPDATE ... WHERE status='pending' and its commit.
Claim(g) ==
  /\ pc[g] = "picked"
  /\ status[row[g]] = "pending"
  /\ status' = [status EXCEPT ![row[g]] = "delivering"]
  /\ owner' = [owner EXCEPT ![row[g]] = g]
  /\ active' = [active EXCEPT ![g] = @ \cup {row[g]}]
  /\ pc' = [pc EXCEPT ![g] = "claimed"]
  /\ UNCHANGED <<tomb, alive, row, left, workerVars, sends>>

\* drain() calls send(): from here the message may be out.
Send(g) ==
  /\ pc[g] = "claimed"
  /\ sends' = [sends EXCEPT ![row[g]] = @ + 1]
  /\ pc' = [pc EXCEPT ![g] = "sent"]
  /\ UNCHANGED <<tableVars, alive, active, row, left, workerVars>>

\* send() has returned or raised, and _finish() commits: it writes the
\* outcome only over a delivering row this process owns.
Finish(g, result) ==
  /\ pc[g] = "sent"
  /\ LET mine == status[row[g]] = "delivering" /\ owner[row[g]] = g
     IN Prune(IF mine THEN [status EXCEPT ![row[g]] = result] ELSE status)
  /\ active' = [active EXCEPT ![g] = @ \ {row[g]}]
  /\ pc' = [pc EXCEPT ![g] = "looping"]
  /\ left' = [left EXCEPT ![g] = @ - 1]
  /\ row' = [row EXCEPT ![g] = NoRequest]
  /\ UNCHANGED <<owner, alive, workerVars, sends>>

\* drain() returns: nothing is pending, the limit is reached, another
\* gateway took the row first, or a statement raised.  An exception in
\* _finish() drops the row from the active set and leaves it delivering; one
\* in claim_next() leaves it pending, and in the active set if it is the
\* commit that raises.
DrainEnds(g) ==
  /\ \/ /\ pc[g] = "looping"
        /\ (left[g] = 0 \/ \A r \in Requests : status[r] # "pending")
        /\ UNCHANGED active
     \/ /\ pc[g] = "picked"
        /\ status[row[g]] # "pending"
        /\ UNCHANGED active
     \/ /\ pc[g] = "picked"
        /\ status[row[g]] = "pending"
        /\ \E added \in {{}, {row[g]}} : active' = [active EXCEPT ![g] = @ \cup added]
     \/ /\ pc[g] = "sent"
        /\ active' = [active EXCEPT ![g] = @ \ {row[g]}]
  /\ pc' = [pc EXCEPT ![g] = "idle"]
  /\ row' = [row EXCEPT ![g] = NoRequest]
  /\ left' = [left EXCEPT ![g] = 0]
  /\ UNCHANGED <<tableVars, alive, workerVars, sends>>

\* The gateway process is killed, wherever it is.
Die(g) ==
  /\ alive[g] /\ g \notin Survivors
  /\ alive' = [alive EXCEPT ![g] = FALSE]
  /\ active' = [active EXCEPT ![g] = {}]
  /\ pc' = [pc EXCEPT ![g] = "idle"]
  /\ row' = [row EXCEPT ![g] = NoRequest]
  /\ left' = [left EXCEPT ![g] = 0]
  /\ UNCHANGED <<tableVars, workerVars, sends>>

-----------------------------------------------------------------------------
Drain(g) ==
  \/ StartDrain(g) \/ Pick(g) \/ Claim(g) \/ Send(g) \/ DrainEnds(g)
  \/ \E result \in {"delivered", "failed"} : Finish(g, result)

Next ==
  \/ \E r \in Requests : Enqueue(r) \/ Poll(r) \/ WaitTimesOut(r) \/ WorkerDies(r)
  \/ \E g \in Gateways : Drain(g) \/ Die(g)

Spec == Init /\ [][Next]_vars

\* The housekeeping thread of a gateway calls drain() every minute for as
\* long as the process lives and runs it to its end, and its claims do not
\* fail for ever.
Fairness ==
  \A g \in Gateways : WF_vars(Drain(g)) /\ SF_vars(Claim(g))

FairSpec == Spec /\ Fairness

-----------------------------------------------------------------------------
(* Properties *)

\* The queue implements the promise of its header (lines 4-7).
Promise == INSTANCE AtMostOnce WITH
  Request <- Requests,
  requested <- {r \in Requests : calls[r] > 0},
  attempts <- sends,
  outcome <- [r \in Requests |-> Outcome(r)]

AtMostOneSend == Promise!Spec

\* A request that can still be claimed was never sent, a row and its
\* tombstone never coexist, what was asked for never vanishes, and the
\* gateway that holds a row is alone with it: together the reason why no
\* message leaves twice, through claims, deaths, recoveries and retention.
Untouched(r) == status[r] \in {"absent", "pending"} /\ tomb[r] = "none"
Holding(g) == pc[g] \in {"claimed", "sent"}

RowsInv ==
  \A r \in Requests :
    /\ calls[r] = 0 <=> status[r] = "absent" /\ tomb[r] = "none"
    /\ status[r] # "absent" => tomb[r] = "none"
    /\ Untouched(r) => sends[r] = 0
    /\ sends[r] <= 1
    /\ Outcome(r) \in {"delivered", "failed"} => sends[r] = 1
    /\ waiting[r] => calls[r] > 0

HoldersInv ==
  /\ \A g \in Gateways :
       /\ pc[g] \in {"picked", "claimed", "sent"} =>
            row[g] \in Requests /\ calls[row[g]] > 0 /\ left[g] > 0
       /\ Holding(g) =>
            /\ ~Untouched(row[g]) /\ Outcome(row[g]) \in {"none", "unknown"}
            /\ status[row[g]] = "delivering" => owner[row[g]] = g
            /\ sends[row[g]] = IF pc[g] = "sent" THEN 1 ELSE 0
       /\ pc[g] \in {"idle", "looping"} => row[g] = NoRequest
       /\ ~alive[g] => pc[g] = "idle"
  /\ \A g, h \in Gateways :
       Holding(g) /\ Holding(h) /\ row[g] = row[h] => g = h

DeliveryInv == TypeOK /\ RowsInv /\ HoldersInv

\* Every transaction that ends a delivery prunes too: the table never holds
\* more than MAX_TERMINAL_DELIVERIES outcomes.
RetentionBound == Cardinality(TerminalRows(status)) <= Keep

\* What a worker is told and what becomes of its message agree.  Success is
\* reported of a message that was sent, or that is still queued (lines
\* 316-320).  A failure is reported of one whose row says failed or unknown,
\* or whose row was retired between two polls; and a message still leaves
\* after that only if a gateway had claimed it when the worker gave up, in
\* which case the row says unknown for good (lines 219-304 against 340).
ReportsAgree ==
  [][\A r \in Requests :
       /\ answer'[r] # answer[r] /\ answer'[r] = "ok" =>
            status[r] = "pending" \/ (Outcome(r) = "delivered" /\ sends[r] = 1)
       /\ answer'[r] # answer[r] /\ answer'[r] = "error" =>
            Outcome(r)' \in {"failed", "unknown"} \/ tomb[r] = "delivered"
       /\ sends'[r] # sends[r] /\ answer[r] = "error" =>
            Outcome(r) = "unknown"]_vars

\* A row that a gateway took gets an outcome, whether that gateway dies in
\* the middle or cannot write the outcome it got; and so does a pending one.
EveryRowSettles ==
  \A r \in Requests :
    status[r] \in {"pending", "delivering"} ~> Outcome(r) # "none"
=============================================================================
