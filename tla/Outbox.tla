------------------------------- MODULE Outbox -------------------------------
(***************************************************************************)
(* plugins/ettok/platform/outbox.py: the durable delivery queue, the       *)
(* processes that drain it and the platform it is drained to.              *)
(*                                                                         *)
(* The queue is one SQLite table that several processes share: the         *)
(* scheduled scan, the chat session and the command line each run drain()  *)
(* on it.  Every commit of the code is one action here, so a process can   *)
(* die between any two of them and two processes can interleave between    *)
(* any two of them.                                                        *)
(*                                                                         *)
(* The platform is external: it is modelled from what the code says it     *)
(* relies on (outbox.py:9, an idempotency key replays the original         *)
(* response) and from the statuses client.py tells apart.                  *)
(***************************************************************************)
EXTENDS Naturals, FiniteSets

CONSTANTS
  MaxRows,      \* bound: rows are 1 .. MaxRows, in the order of their ids
  Drainers,     \* processes that may run drain() on the shared table
  Reclaimers,   \* those that call reclaim_in_flight() first (scan, submit, CLI)
  Limit,        \* drain()'s limit: how many rows one call takes
  Malformed     \* rows whose body the platform answers with a 4xx

ASSUME MaxRowsAssumption == MaxRows \in Nat
ASSUME LimitAssumption == Limit \in Nat \ {0}
ASSUME ReclaimersAssumption == Reclaimers \subseteq Drainers

Rows == 1 .. MaxRows
NoRow == 0

States == {"pending", "in_flight", "delivered", "failed_permanent"}

VARIABLES
  state,        \* outbox.state, or "absent" before the row is inserted
  key,          \* outbox.idempotency_key
  deferred,     \* next_attempt_at lies in the future
  nextKey,      \* the next key new_idempotency_key() returns
  pc,           \* where each process is in drain()
  batch,        \* rows of the snapshot it has not reached yet
  current,      \* the row it has marked in_flight and waits on
  answer,       \* what the platform has answered it, "none" so far
  wire,         \* requests sent and neither answered nor lost
  performed,    \* requests whose work the platform has done
  authorized    \* the machine is paired and its key is accepted

queueVars == <<state, key, deferred, nextKey>>
drainVars == <<pc, batch, current, answer>>
platformVars == <<wire, performed, authorized>>
vars == <<queueVars, drainVars, platformVars>>

Request == [from : Drainers, row : Rows, key : Nat]
Work == [row : Rows, key : Nat]

TypeOK ==
  /\ state \in [Rows -> States \cup {"absent"}]
  /\ key \in [Rows -> Nat]
  /\ deferred \in [Rows -> BOOLEAN]
  /\ nextKey \in Nat
  /\ pc \in [Drainers -> {"idle", "reclaimed", "draining", "sending"}]
  /\ batch \in [Drainers -> SUBSET Rows]
  /\ current \in [Drainers -> Rows \cup {NoRow}]
  /\ answer \in [Drainers -> {"none", "ok", "refused"}]
  /\ wire \subseteq Request
  /\ performed \subseteq Work
  /\ authorized \in BOOLEAN

Init ==
  /\ state = [r \in Rows |-> "absent"]
  /\ key = [r \in Rows |-> 0]
  /\ deferred = [r \in Rows |-> FALSE]
  /\ nextKey = 1
  /\ pc = [d \in Drainers |-> "idle"]
  /\ batch = [d \in Drainers |-> {}]
  /\ current = [d \in Drainers |-> NoRow]
  /\ answer = [d \in Drainers |-> "none"]
  /\ wire = {}
  /\ performed = {}
  /\ authorized \in BOOLEAN

-----------------------------------------------------------------------------
(* The table. *)

\* Mutant of Enqueue: one key for the whole run instead of one per row.
EnqueueSharedKey(r) ==
  /\ state[r] = "absent"
  /\ \A q \in Rows : q < r => state[q] # "absent"
  /\ state' = [state EXCEPT ![r] = "pending"]
  /\ key' = [key EXCEPT ![r] = nextKey]
  /\ UNCHANGED <<deferred, nextKey, drainVars, platformVars>>

\* enqueue(): the row is on disk, under a key of its own, before any send.
Enqueue(r) ==
  /\ state[r] = "absent"
  /\ \A q \in Rows : q < r => state[q] # "absent"
  /\ state' = [state EXCEPT ![r] = "pending"]
  /\ key' = [key EXCEPT ![r] = nextKey]
  /\ nextKey' = nextKey + 1
  /\ UNCHANGED <<deferred, drainVars, platformVars>>

\* next_attempt_at is reached.
ClockPasses(r) ==
  /\ deferred[r]
  /\ deferred' = [deferred EXCEPT ![r] = FALSE]
  /\ UNCHANGED <<state, key, nextKey, drainVars, platformVars>>

\* Mutants of ReclaimInFlight: nothing is reclaimed, or everything that has
\* not failed is.
ReclaimNothing(d) ==
  /\ d \in Reclaimers
  /\ pc[d] = "idle"
  /\ pc' = [pc EXCEPT ![d] = "reclaimed"]
  /\ UNCHANGED <<queueVars, batch, current, answer, platformVars>>

ReclaimUnfailed(d) ==
  /\ d \in Reclaimers
  /\ pc[d] = "idle"
  /\ state' = [r \in Rows |->
                 IF state[r] \in {"in_flight", "delivered"} THEN "pending" ELSE state[r]]
  /\ pc' = [pc EXCEPT ![d] = "reclaimed"]
  /\ UNCHANGED <<key, deferred, nextKey, batch, current, answer, platformVars>>

\* reclaim_in_flight(): every in_flight row, whoever marked it.
ReclaimInFlight(d) ==
  /\ d \in Reclaimers
  /\ pc[d] = "idle"
  /\ state' = [r \in Rows |->
                 IF state[r] = "in_flight" THEN "pending" ELSE state[r]]
  /\ pc' = [pc EXCEPT ![d] = "reclaimed"]
  /\ UNCHANGED <<key, deferred, nextKey, batch, current, answer, platformVars>>

\* Mutant of Due: everything the platform does not have yet is due.
DueUndelivered == {r \in Rows : state[r] # "delivered" /\ ~deferred[r]}

Due == {r \in Rows : state[r] = "pending" /\ ~deferred[r]}

\* pending(): the rows due now with the smallest ids, at most Limit of them.
PendingRows == {r \in Due : Cardinality({q \in Due : q < r}) < Limit}

\* drain() reads its snapshot once and walks it.
Snapshot(d) ==
  /\ pc[d] = IF d \in Reclaimers THEN "reclaimed" ELSE "idle"
  /\ batch' = [batch EXCEPT ![d] = PendingRows]
  /\ pc' = [pc EXCEPT ![d] = "draining"]
  /\ UNCHANGED <<queueVars, current, answer, platformVars>>

\* Mutant of Take: a fresh idempotency key for every attempt.
TakeFreshKey(d) ==
  /\ pc[d] = "draining"
  /\ \E r \in batch[d] :
       /\ \A q \in batch[d] : r <= q
       /\ state' = [state EXCEPT ![r] = "in_flight"]
       /\ current' = [current EXCEPT ![d] = r]
       /\ batch' = [batch EXCEPT ![d] = @ \ {r}]
       /\ wire' = wire \cup {[from |-> d, row |-> r, key |-> nextKey]}
  /\ nextKey' = nextKey + 1
  /\ pc' = [pc EXCEPT ![d] = "sending"]
  /\ UNCHANGED <<key, deferred, answer, performed, authorized>>

\* The UPDATE to in_flight is not conditioned on the row's state; then the
\* request leaves, unless there is no key to send it with (_headers raises).
Take(d) ==
  /\ pc[d] = "draining"
  /\ \E r \in batch[d] :
       /\ \A q \in batch[d] : r <= q
       /\ state' = [state EXCEPT ![r] = "in_flight"]
       /\ current' = [current EXCEPT ![d] = r]
       /\ batch' = [batch EXCEPT ![d] = @ \ {r}]
       /\ \/ /\ wire' = wire \cup {[from |-> d, row |-> r, key |-> key[r]]}
             /\ answer' = answer
          \/ /\ ~authorized
             /\ wire' = wire
             /\ answer' = [answer EXCEPT ![d] = "refused"]
  /\ pc' = [pc EXCEPT ![d] = "sending"]
  /\ UNCHANGED <<key, deferred, nextKey, performed, authorized>>

\* The outcome of the row is recorded, and the process turns to the next one.
Record(d, outcome) ==
  /\ pc[d] = "sending"
  /\ state' = [state EXCEPT ![current[d]] = outcome]
  /\ current' = [current EXCEPT ![d] = NoRow]
  /\ answer' = [answer EXCEPT ![d] = "none"]
  /\ pc' = [pc EXCEPT ![d] = "draining"]
  /\ UNCHANGED <<key, nextKey, batch, platformVars>>

\* A 2xx, original or replayed.
RecordDelivered(d) ==
  /\ answer[d] = "ok"
  /\ Record(d, "delivered")
  /\ UNCHANGED deferred

\* PermanentError: not paired, 400, 401, 403 or another 4xx.
RecordRefused(d) ==
  /\ answer[d] = "refused"
  /\ Record(d, "failed_permanent")
  /\ UNCHANGED deferred

\* TransientError: 409, 429, 5xx, or a line that dropped.  The request may
\* have been lost, may have been performed, may still be on its way.
RecordTransient(d) ==
  /\ Record(d, "pending")
  /\ deferred' = [deferred EXCEPT ![current[d]] = TRUE]

\* The snapshot is exhausted.
Finish(d) ==
  /\ pc[d] = "draining"
  /\ batch[d] = {}
  /\ pc' = [pc EXCEPT ![d] = "idle"]
  /\ UNCHANGED <<queueVars, batch, current, answer, platformVars>>

\* The process is killed or the machine loses power; what it committed stays.
Crash(d) ==
  /\ pc[d] # "idle"
  /\ pc' = [pc EXCEPT ![d] = "idle"]
  /\ batch' = [batch EXCEPT ![d] = {}]
  /\ current' = [current EXCEPT ![d] = NoRow]
  /\ answer' = [answer EXCEPT ![d] = "none"]
  /\ UNCHANGED <<queueVars, platformVars>>

-----------------------------------------------------------------------------
(* The platform, external. *)

\* The process that sent m still waits for the answer.
Awaited(m) == pc[m.from] = "sending" /\ current[m.from] = m.row

Answer(m, a) ==
  /\ wire' = wire \ {m}
  /\ answer' = IF Awaited(m) THEN [answer EXCEPT ![m.from] = a] ELSE answer
  /\ UNCHANGED <<queueVars, pc, batch, current, authorized>>

\* Success is taken for the platform's: it answers 2xx when the work is done.
\* _classify() lets a 3xx pass too, which httpx does not follow here; answers
\* of a proxy in front of the platform are outside the model.
Acceptable(r) == authorized /\ r \notin Malformed

\* The work of a request is done unless its key is known, and then the answer
\* is a replay.
Known(k) == \E w \in performed : w.key = k

Accept(m) ==
  /\ Acceptable(m.row)
  /\ performed' = IF Known(m.key) THEN performed
                  ELSE performed \cup {[row |-> m.row, key |-> m.key]}
  /\ Answer(m, "ok")

Refuse(m) ==
  /\ ~Acceptable(m.row)
  /\ Answer(m, "refused")
  /\ UNCHANGED performed

Lose(m) ==
  /\ wire' = wire \ {m}
  /\ UNCHANGED <<queueVars, drainVars, performed, authorized>>

\* The key is revoked, or the machine is paired again.
ChangePairing ==
  /\ authorized' = ~authorized
  /\ UNCHANGED <<queueVars, drainVars, wire, performed>>

-----------------------------------------------------------------------------
DrainStep(d) ==
  \/ ReclaimInFlight(d)
  \/ Snapshot(d)
  \/ Take(d)
  \/ RecordDelivered(d)
  \/ RecordRefused(d)
  \/ RecordTransient(d)
  \/ Finish(d)
  \/ Crash(d)

Next ==
  \/ \E r \in Rows : Enqueue(r) \/ ClockPasses(r)
  \/ \E d \in Drainers : DrainStep(d)
  \/ \E m \in wire : Accept(m) \/ Refuse(m) \/ Lose(m)
  \/ ChangePairing

Spec == Init /\ [][Next]_vars

\* The scheduler runs the scan again and again and does not kill it for ever;
\* a request repeated for ever is in the end answered in time; an unanswered
\* one times out (client.py:109).
Fairness ==
  /\ \A r \in Rows : WF_vars(ClockPasses(r))
  /\ SF_vars(\E m \in wire : Awaited(m) /\ (Accept(m) \/ Refuse(m)))
  /\ \A d \in Drainers :
       /\ WF_vars(ReclaimInFlight(d))
       /\ SF_vars(Snapshot(d))
       /\ SF_vars(Take(d))
       /\ SF_vars(RecordDelivered(d))
       /\ SF_vars(RecordRefused(d))
       /\ WF_vars(RecordTransient(d))
       /\ WF_vars(Finish(d))

FairSpec == Spec /\ Fairness

-----------------------------------------------------------------------------
(* Properties. *)

Enqueued == {r \in Rows : state[r] # "absent"}
PerformedRows == {w.row : w \in performed}
DeliveredRows == {r \in Rows : state[r] = "delivered"}

\* A row is recorded delivered only if the platform has done that very row's
\* work: no answer to another row's request, no refusal and no timeout is ever
\* taken for it, whichever process asked and however late the answer came
\* (outbox.py:116-119 after the request of 88-93).
DeliveredMeansPerformed == DeliveredRows \subseteq PerformedRows

\* However often a row is sent, by however many processes, the platform does
\* its work once (outbox.py:9-12, the key of line 38 sent at line 91).
PerformedOnce ==
  \A v, w \in performed : v.row = w.row => v = w

\* Each process knows where it is: it waits on one row, which is in the table,
\* and holds an "ok" only for a row whose work is done.
PositionsOK ==
  \A d \in Drainers :
    /\ pc[d] = "sending" <=> current[d] \in Rows
    /\ batch[d] \cup ({current[d]} \ {NoRow}) \subseteq Enqueued
    /\ answer[d] # "none" => pc[d] = "sending"
    /\ answer[d] = "ok" => current[d] \in PerformedRows

\* Every key names one row, and every request and every piece of work carries
\* the key its row was inserted with.
KeysOK ==
  /\ \A r \in Enqueued : key[r] < nextKey
  /\ \A q, r \in Enqueued : key[q] = key[r] => q = r
  /\ \A m \in wire \cup performed : m.row \in Enqueued /\ m.key = key[m.row]

\* The inductive invariant behind the two properties above: the shape of the
\* state, the keys, and what each drainer may hold at each point of drain().
IndInv == TypeOK /\ PositionsOK /\ KeysOK /\ DeliveredMeansPerformed

\* Every row ends delivered or refused for good, through any number of crashes,
\* lost requests, late requests and lost answers (outbox.py:1 and 48-55).
EveryRowSettles ==
  \A r \in Rows :
    state[r] = "pending" ~> state[r] \in {"delivered", "failed_permanent"}

\* outbox.py:51: a row left in_flight means that the process that sent it died.
ReclaimsOnlyAbandoned ==
  [][\A d \in Drainers : ReclaimInFlight(d) =>
       \A e \in Drainers : pc[e] = "sending" => state[current[e]] # "in_flight"]_vars

\* Seen from outside, the queue is the one Delivery describes.
DeliveryView == INSTANCE Delivery WITH
  Submission <- Rows,
  submitted <- Enqueued,
  done <- PerformedRows,
  acknowledged <- DeliveredRows

\* With a single process draining, the queue implements Delivery: the work is
\* done once, acknowledged after, and an acknowledgement is never undone by a
\* reclaim, a retry or a late answer (outbox.py:73-121).
ImplementsDelivery == DeliveryView!Spec

\* What makes it true: a lone process only ever touches rows that are still
\* pending in its snapshot, or in_flight because it sent them.
LoneDrainerInv ==
  \A d \in Drainers :
    /\ \A r \in batch[d] : state[r] = "pending"
    /\ pc[d] = "sending" => state[current[d]] = "in_flight"

=============================================================================
