-------------------------------- MODULE Rota --------------------------------
(***************************************************************************)
(* plugins/ettok/cases.py (pick), scan.py (run) and platform/client.py     *)
(* (claim_case): which case a scan works, when several agents scan for one *)
(* platform.                                                               *)
(*                                                                         *)
(* The platform says which cases are due and since when.  An agent reads   *)
(* that with its knowledge, keeps it for a quarter of an hour, picks the   *)
(* first case by it, claims it for the length of the run and gives it      *)
(* back.  The case moves on only when the scan-log row of a run arrives,   *)
(* which waits in the agent's outbox and outlives the run.                 *)
(*                                                                         *)
(* Times are left out but for their order: next_scan_at is a place in the  *)
(* rota, and a case is due when that time has passed.  What an agent keeps *)
(* of its knowledge is what pick() answers on it.                          *)
(***************************************************************************)
EXTENDS Naturals, FiniteSets

CONSTANTS
  Agents,       \* agents paired with the platform, each with an outbox
  Operated,     \* those of them that a person also talks to
  Nobody,       \* holds a case that nobody has claimed
  Cases,        \* the cases that may be run
  NoCase,       \* what pick() answers when none is due
  Unread,       \* there is no knowledge, or it is too old to be used
  Rank,         \* the order of the cases' states, a live campaign before a watch
  MaxRows,      \* bound: scan-log rows of one case that wait in the outboxes
  MaxFaults     \* bound: runs that raise or are killed

ASSUME CasesAssumption == IsFiniteSet(Cases) /\ NoCase \notin Cases /\ Unread \notin Cases
ASSUME AgentsAssumption == Nobody \notin Agents /\ Operated \subseteq Agents
ASSUME RankAssumption == Rank \in [Cases -> Nat]
ASSUME BoundsAssumption == MaxRows \in Nat /\ MaxFaults \in Nat

Positions == 1 .. Cardinality(Cases)

VARIABLES
  due,          \* platform: cases whose next_scan_at has passed
  place,        \* platform: the order of next_scan_at
  lease,        \* platform: who has claimed the case
  choice,       \* what pick() answers on the knowledge in hand
  pc,           \* where the agent's run is
  job,          \* the case it works
  rows,         \* scan-log rows in the agents' outboxes, by case
  faults,       \* history: runs that raised or were killed
  mishap        \* history: see ClaimUnavailable and Expire

platformVars == <<due, place, lease>>
agentVars == <<choice, pc, job, rows>>
vars == <<platformVars, agentVars, faults, mishap>>

Places == {"idle", "claimed", "unclaimed", "queueonly", "leaving"}

TypeOK ==
  /\ due \subseteq Cases
  /\ place \in [Cases -> Positions]
  /\ lease \in [Cases -> Agents \cup {Nobody}]
  /\ choice \in [Agents -> Cases \cup {NoCase, Unread}]
  /\ pc \in [Agents -> Places]
  /\ job \in [Agents -> Cases \cup {NoCase}]
  /\ rows \in [Cases -> Nat]
  /\ faults \in Nat /\ mishap \in BOOLEAN

\* No case was ever scanned: all are due, in the order the platform lists them.
Init ==
  /\ due = Cases
  /\ place \in [Cases -> Positions] /\ \A c, d \in Cases : place[c] = place[d] => c = d
  /\ lease = [c \in Cases |-> Nobody]
  /\ choice = [a \in Agents |-> Unread]
  /\ pc = [a \in Agents |-> "idle"] /\ job = [a \in Agents |-> NoCase]
  /\ rows = [c \in Cases |-> 0]
  /\ faults = 0 /\ mishap = FALSE

-----------------------------------------------------------------------------
(* What an agent knows of the rota *)

\* Mutant of First: cases of equal rank are not told apart by their wait.
FirstByState(c) ==
  c \in due /\ \A d \in due : Rank[c] <= Rank[d]

\* pick(): of the cases that are due the first by state, then by next_scan_at.
First(c) ==
  /\ c \in due
  /\ \A d \in due \ {c} : Rank[c] < Rank[d] \/ (Rank[c] = Rank[d] /\ place[c] < place[d])

\* The run's own knowledge.fetch().  (sync_knowledge is Age, then Fetch.)
Fetch(a) ==
  /\ pc[a] = "idle" /\ choice[a] = Unread
  /\ \/ \E c \in Cases : First(c) /\ choice' = [choice EXCEPT ![a] = c]
     \/ ~(\E c \in Cases : First(c)) /\ choice' = [choice EXCEPT ![a] = NoCase]
  /\ UNCHANGED <<platformVars, pc, job, rows, faults, mishap>>

\* MAX_KNOWLEDGE_AGE_SECONDS have passed, which the start of a run looks at.
Age(a) ==
  /\ pc[a] = "idle" /\ choice[a] # Unread
  /\ choice' = [choice EXCEPT ![a] = Unread]
  /\ UNCHANGED <<platformVars, pc, job, rows, faults, mishap>>

-----------------------------------------------------------------------------
(* One run *)

\* The platform grants a claim of c to a: nobody else holds the case.
Free(a, c) == lease[c] \in {Nobody, a}

\* A run of a on c has chosen its case and got past the claim.
Enter(a, c, at) ==
  /\ pc[a] = "idle" /\ choice[a] # Unread
  /\ pc' = [pc EXCEPT ![a] = at] /\ job' = [job EXCEPT ![a] = c]
  /\ UNCHANGED <<due, place, choice, rows, faults>>

\* Mutant of Claim: any answer but success lets the run go on.
ClaimRegardless(a, c) ==
  /\ Enter(a, c, IF Free(a, c) THEN "claimed" ELSE "unclaimed")
  /\ lease' = IF Free(a, c) THEN [lease EXCEPT ![c] = a] ELSE lease
  /\ UNCHANGED mishap

\* run() works c under a claim.  A claim of another agent is answered with a
\* 409, and that run ends where it began.
Claim(a, c) ==
  /\ Free(a, c)
  /\ Enter(a, c, "claimed")
  /\ lease' = [lease EXCEPT ![c] = a]
  /\ UNCHANGED mishap

\* Every attempt of the call fails, or it is granted and not heard of: any
\* error but a 409 is tolerated and the run goes on without the claim.
ClaimUnavailable(a, c) ==
  /\ Enter(a, c, "unclaimed")
  /\ lease' \in {lease} \cup (IF Free(a, c) THEN {[lease EXCEPT ![c] = a]} ELSE {})
  /\ mishap' = TRUE

\* A run that is to queue and not to submit claims nothing.
QueueOnly(a, c) ==
  /\ Enter(a, c, "queueonly")
  /\ UNCHANGED <<lease, mishap>>

\* The schedule works what pick() answers; an operator asks for a case, which
\* outranks the rota.
Scheduled(a) == \E c \in Cases : choice[a] = c /\ (Claim(a, c) \/ ClaimUnavailable(a, c))

\* A run of the schedule that finds its case free.
InTurn(a) ==
  \E c \in Cases : choice[a] = c /\ Free(a, c) /\ (Claim(a, c) \/ ClaimUnavailable(a, c))

Asked(a) ==
  /\ a \in Operated
  /\ \E c \in Cases : Claim(a, c) \/ ClaimUnavailable(a, c) \/ QueueOnly(a, c)

\* The batch is collected, judged and queued, and the scan-log row with it, in
\* a queue-only run also.  Without a claim there is nothing to give back.
WorkEnds(a) ==
  /\ pc[a] \in {"claimed", "unclaimed", "queueonly"}
  /\ rows[job[a]] < MaxRows
  /\ rows' = [rows EXCEPT ![job[a]] = @ + 1]
  /\ pc' = [pc EXCEPT ![a] = IF @ = "claimed" THEN "leaving" ELSE "idle"]
  /\ job' = [job EXCEPT ![a] = IF pc[a] = "claimed" THEN @ ELSE NoCase]
  /\ UNCHANGED <<platformVars, choice, faults, mishap>>

\* The claim is released after the drain, whether that delivered the rows or
\* not.  The call may fail, and counts only when it is the holder's.
Leave(a) ==
  /\ pc[a] = "leaving"
  /\ lease' \in {lease, [lease EXCEPT ![job[a]] = IF @ = a THEN Nobody ELSE @]}
  /\ pc' = [pc EXCEPT ![a] = "idle"] /\ job' = [job EXCEPT ![a] = NoCase]
  /\ UNCHANGED <<due, place, choice, rows, faults, mishap>>

\* The run raises: the tool reports an error and the agent lives on, with its
\* knowledge and with the claim.  Or the process is killed.
Break(a) ==
  /\ pc[a] # "idle" /\ faults < MaxFaults
  /\ faults' = faults + 1
  /\ \/ UNCHANGED choice
     \/ choice' = [choice EXCEPT ![a] = Unread]
  /\ pc' = [pc EXCEPT ![a] = "idle"] /\ job' = [job EXCEPT ![a] = NoCase]
  /\ UNCHANGED <<platformVars, rows, mishap>>

-----------------------------------------------------------------------------
(* The platform *)

\* Agent a's run on c is under way and was granted the case.
Holding(a, c) == pc[a] \in {"claimed", "leaving"} /\ job[a] = c

\* A scan-log row of c arrives, by whatever drain of its outbox: c is due an
\* interval from now, after everything that is due already.
Deliver(c) ==
  /\ rows[c] > 0
  /\ rows' = [rows EXCEPT ![c] = @ - 1]
  /\ due' = due \ {c}
  /\ place' \in [Cases -> Positions]
  /\ \A d, e \in Cases : place'[d] = place'[e] => d = e
  /\ \A d, e \in Cases \ {c} : place'[d] < place'[e] <=> place[d] < place[e]
  /\ \A d \in due' : place'[d] < place'[c]
  /\ UNCHANGED <<lease, choice, pc, job, faults, mishap>>

\* Time passes: the next case becomes due.
Passes ==
  /\ \E c \in Cases \ due :
       /\ \A d \in Cases \ due : place[c] <= place[d]
       /\ due' = due \cup {c}
  /\ UNCHANGED <<place, lease, agentVars, faults, mishap>>

\* A claim runs out, be its run over, dead or merely longer than the lease,
\* which nothing renews; or a release that its agent gave up arrives after all.
Expire(c) ==
  /\ lease[c] # Nobody
  /\ lease' = [lease EXCEPT ![c] = Nobody]
  /\ mishap' = (mishap \/ Holding(lease[c], c))
  /\ UNCHANGED <<due, place, agentVars, faults>>

-----------------------------------------------------------------------------
RunStep(a) == WorkEnds(a) \/ Leave(a)

Next ==
  \/ \E a \in Agents : RunStep(a) \/ Fetch(a) \/ Age(a) \/ Scheduled(a) \/ Asked(a) \/ Break(a)
  \/ \E c \in Cases : Deliver(c) \/ Expire(c)
  \/ Passes

Spec == Init /\ [][Next]_vars

\* Runs end, and the schedule starts the next; neither operators nor another
\* agent's claims get in its way for ever.  Knowledge gets too old and is read
\* again; outboxes are drained; leases run out and time passes.
Fairness ==
  /\ \A a \in Agents :
       /\ WF_vars(RunStep(a))
       /\ WF_vars(Fetch(a))
       /\ SF_vars(Age(a))
       /\ SF_vars(InTurn(a))
  /\ \A c \in Cases : WF_vars(Deliver(c)) /\ WF_vars(Expire(c))
  /\ WF_vars(Passes)

FairSpec == Spec /\ Fairness

-----------------------------------------------------------------------------
(* Properties *)

\* Two agents at work on one case, queue-only runs aside, take a mishap: a claim call
\* that failed and was tolerated, or a lease that was lost under its run.
\* Runs that are killed or raise, the claims they leave behind, knowledge that
\* is out of date, operators who ask for the same case and rows that arrive
\* late do not suffice (scan.py:507, scan.py:840).
OverlapNeedsMishap ==
  ~mishap => \A a, b \in Agents :
    /\ pc[a] \in {"claimed", "unclaimed"} /\ pc[b] \in {"claimed", "unclaimed"}
    /\ job[a] = job[b]
    => a = b

\* Why the above holds: as long as nothing went wrong, who works a case holds
\* it at the platform.
ClaimsHold ==
  ~mishap => \A a \in Agents :
    /\ pc[a] # "unclaimed"
    /\ pc[a] \in {"claimed", "leaving"} => lease[job[a]] = a

JobsInv == \A a \in Agents : pc[a] = "idle" <=> job[a] = NoCase

RotaInv == TypeOK /\ JobsInv /\ ClaimsHold

\* No case of the first rank is starved: whatever is cached, claimed, killed
\* or asked for, one that is due is scanned and moves on (cases.py:158).
EveryCaseHasItsTurn ==
  \A c \in Cases : (\A d \in Cases : Rank[c] <= Rank[d]) => (c \in due ~> c \notin due)
=============================================================================
