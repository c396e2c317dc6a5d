------------------------------ MODULE Publish -------------------------------
(***************************************************************************)
(* plugins/ettok/publish.py, and the collect tool of plugins/ettok/        *)
(* __init__.py, over the accounts of collect/session.py: who uses an       *)
(* account, what happens to it when the site notices, and what becomes of  *)
(* the posts the platform hands to this machine.                           *)
(*                                                                         *)
(* A publishing process claims a batch of jobs and works them one by one.  *)
(* For each it looks at the account, posts with it, which takes minutes in *)
(* a browser, writes down what that says of the account and reports to the *)
(* platform.  Collecting uses an account in the same way.  All of them     *)
(* share the table, and any of them may be killed between two commits.     *)
(***************************************************************************)
EXTENDS Accounts, Naturals, FiniteSets

CONSTANTS
  Publishers,   \* processes that run publish.run(), again and again
  Collectors,   \* processes that run the collect tool
  Jobs,         \* social_publish jobs of the platform
  AccountOf,    \* the account of a job's payload
  NoAccount,    \* a payload without one
  NoJob,
  Limit         \* claim_jobs()'s limit

ASSUME ProcessesAssumption == Publishers \cap Collectors = {}
ASSUME JobsAssumption == IsFiniteSet(Jobs) /\ NoJob \notin Jobs
ASSUME AccountsAssumption == NoAccount \notin Accounts
ASSUME AccountOfAssumption == AccountOf \in [Jobs -> Accounts \cup {NoAccount}]
ASSUME LimitAssumption == Limit \in Nat \ {0}

Processes == Publishers \cup Collectors
Blocks == {"challenge", "signedout"}
Answers == {"confirmed", "unclear"} \cup Blocks

VARIABLES
  platform,     \* platform: where a job stands; "manual" is what "failed" makes of it
  pc,           \* where the process is
  batch,        \* claimed jobs it has not begun
  job,          \* the job it works
  at,           \* the account it uses
  answer,       \* what the site answered to that use
  posts,        \* history: how often a job was posted
  told,         \* history: what the site answered to a job
  noticed,      \* history: a block that was neither waited out nor cleared
  careless,     \* history: two uses of the account met, or a block was not written down
  stranded      \* history: jobs of a run that broke, or of an answer nobody heard

useVars == <<job, at, answer>>
siteVars == <<posts, told, noticed>>
vars == <<accountVars, platform, pc, batch, useVars, siteVars, careless, stranded>>

TypeOK ==
  /\ AccountsTypeOK
  /\ platform \in [Jobs -> {"pending", "claimed", "done", "manual"}]
  /\ pc \in [Processes -> {"idle", "batch", "using", "answered", "reporting"}]
  /\ batch \in [Processes -> SUBSET Jobs]
  /\ job \in [Processes -> Jobs \cup {NoJob}]
  /\ at \in [Processes -> Accounts \cup {NoAccount}]
  /\ answer \in [Processes -> Answers \cup {"none"}]
  /\ posts \in [Jobs -> Nat]
  /\ told \in [Jobs -> Answers \cup {"none"}]
  /\ noticed \in [Accounts -> Blocks \cup {"none"}]
  /\ careless \in [Accounts -> BOOLEAN]
  /\ stranded \subseteq Jobs

Init ==
  /\ AccountsInit
  /\ platform = [j \in Jobs |-> "pending"]
  /\ pc = [p \in Processes |-> "idle"]
  /\ batch = [p \in Processes |-> {}]
  /\ job = [p \in Processes |-> NoJob]
  /\ at = [p \in Processes |-> NoAccount]
  /\ answer = [p \in Processes |-> "none"]
  /\ posts = [j \in Jobs |-> 0]
  /\ told = [j \in Jobs |-> "none"]
  /\ noticed = [a \in Accounts |-> "none"]
  /\ careless = [a \in Accounts |-> FALSE]
  /\ stranded = {}

\* The process has an account open, or knows something the table does not.
InUse(p, a) == pc[p] \in {"using", "answered"} /\ at[p] = a

-----------------------------------------------------------------------------
(* The batch: claim(), run() *)

\* The platform hands out pending jobs, at most limit of them.  It marks them
\* claimed; the answer may be lost, and what the retries inside request() or
\* the next run are given are other jobs.
ClaimBatch(p) ==
  /\ p \in Publishers /\ pc[p] = "idle"
  /\ \E S \in SUBSET {j \in Jobs : platform[j] = "pending"} :
       /\ S # {} /\ Cardinality(S) <= Limit
       /\ platform' = [j \in Jobs |-> IF j \in S THEN "claimed" ELSE platform[j]]
       /\ \/ /\ batch' = [batch EXCEPT ![p] = S]
             /\ pc' = [pc EXCEPT ![p] = "batch"]
             /\ UNCHANGED stranded
          \/ /\ stranded' = stranded \cup S
             /\ UNCHANGED <<batch, pc>>
  /\ UNCHANGED <<accountVars, useVars, siteVars, careless>>

\* The for loop of run() is through.
EndBatch(p) ==
  /\ pc[p] = "batch" /\ batch[p] = {}
  /\ pc' = [pc EXCEPT ![p] = "idle"]
  /\ UNCHANGED <<accountVars, platform, batch, useVars, siteVars, careless, stranded>>

-----------------------------------------------------------------------------
(* One use of an account: handle(), collect() *)

Opens(p, a) ==
  /\ at' = [at EXCEPT ![p] = a]
  /\ careless' = [b \in Accounts |->
       careless[b] \/ (b = a /\ \E q \in Processes \ {p} : InUse(q, b))]

\* Mutant of BeginJob: a job whose account is out is passed over.
BeginJobPassingOver(p) ==
  /\ pc[p] = "batch"
  /\ \E j \in batch[p] :
       /\ batch' = [batch EXCEPT ![p] = @ \ {j}]
       /\ IF AccountOf[j] = NoAccount \/ Usable(AccountOf[j])
          THEN /\ job' = [job EXCEPT ![p] = j]
               /\ Opens(p, AccountOf[j])
               /\ pc' = [pc EXCEPT ![p] = "using"]
          ELSE UNCHANGED <<job, pc, at, careless>>
  /\ UNCHANGED <<accountVars, platform, answer, siteVars, stranded>>

\* Mutant of BeginJob: nobody looks at the account.
BeginJobUnchecked(p) ==
  /\ pc[p] = "batch"
  /\ \E j \in batch[p] :
       /\ batch' = [batch EXCEPT ![p] = @ \ {j}]
       /\ job' = [job EXCEPT ![p] = j]
       /\ Opens(p, AccountOf[j])
  /\ pc' = [pc EXCEPT ![p] = "using"]
  /\ UNCHANGED <<accountVars, platform, answer, siteVars, stranded>>

\* handle() looks at the account, and posts unless it is out; then the job
\* goes back at once.
BeginJob(p) ==
  /\ pc[p] = "batch"
  /\ \E j \in batch[p] :
       /\ batch' = [batch EXCEPT ![p] = @ \ {j}]
       /\ job' = [job EXCEPT ![p] = j]
       /\ IF AccountOf[j] = NoAccount \/ Usable(AccountOf[j])
          THEN /\ Opens(p, AccountOf[j])
               /\ pc' = [pc EXCEPT ![p] = "using"]
          ELSE /\ pc' = [pc EXCEPT ![p] = "reporting"]
               /\ UNCHANGED <<at, careless>>
  /\ UNCHANGED <<accountVars, platform, answer, siteVars, stranded>>

\* collect() looks at the account and opens the page.
BeginCollect(c, a) ==
  /\ c \in Collectors /\ pc[c] = "idle"
  /\ Usable(a)
  /\ Opens(c, a)
  /\ pc' = [pc EXCEPT ![c] = "using"]
  /\ UNCHANGED <<accountVars, platform, batch, job, answer, siteVars, stranded>>

\* The site notices: known to the site from now on, to the table later.
Notices(p, r) ==
  noticed' = IF r \in Blocks /\ at[p] \in Accounts
             THEN [noticed EXCEPT ![at[p]] = r] ELSE noticed

\* Mutant of Posted: an unclear end is tried again.
PostedRetrying(p, r) ==
  /\ p \in Publishers /\ pc[p] = "using"
  /\ \/ r = "confirmed" /\ posts' = [posts EXCEPT ![job[p]] = @ + 1]
     \/ r # "confirmed" /\ posts' \in {posts, [posts EXCEPT ![job[p]] = @ + 1]}
  /\ told' = [told EXCEPT ![job[p]] = r]
  /\ Notices(p, r)
  /\ answer' = [answer EXCEPT ![p] = r]
  /\ pc' = [pc EXCEPT ![p] = IF r = "unclear" /\ posts[job[p]] < 2 THEN "using" ELSE "answered"]
  /\ UNCHANGED <<accountVars, platform, batch, job, at, careless, stranded>>

\* post() returns or raises.  Only a confirmed post is sure to be up; one
\* that raised, was not confirmed or met a block may be up as well.
Posted(p, r) ==
  /\ p \in Publishers /\ pc[p] = "using"
  /\ \/ r = "confirmed" /\ posts' = [posts EXCEPT ![job[p]] = @ + 1]
     \/ r # "confirmed" /\ posts' \in {posts, [posts EXCEPT ![job[p]] = @ + 1]}
  /\ told' = [told EXCEPT ![job[p]] = r]
  /\ Notices(p, r)
  /\ answer' = [answer EXCEPT ![p] = r]
  /\ pc' = [pc EXCEPT ![p] = "answered"]
  /\ UNCHANGED <<accountVars, platform, batch, job, at, careless, stranded>>

\* The collector returns: a page, or a block.
Collected(c, r) ==
  /\ c \in Collectors /\ pc[c] = "using"
  /\ r # "unclear"
  /\ Notices(c, r)
  /\ answer' = [answer EXCEPT ![c] = r]
  /\ pc' = [pc EXCEPT ![c] = "answered"]
  /\ UNCHANGED <<accountVars, platform, batch, job, at, posts, told, careless, stranded>>

\* record_success(), quarantine(), or nothing: one commit.
Note(p) ==
  /\ pc[p] = "answered"
  /\ \/ (at[p] = NoAccount \/ answer[p] = "unclear") /\ UNCHANGED accountVars
     \/ at[p] # NoAccount /\ answer[p] = "confirmed" /\ Heal(at[p])
     \/ at[p] # NoAccount /\ answer[p] \in Blocks /\ Quarantine(at[p], answer[p])
  /\ at' = [at EXCEPT ![p] = NoAccount]
  /\ IF p \in Publishers
     THEN pc' = [pc EXCEPT ![p] = "reporting"] /\ UNCHANGED answer
     ELSE pc' = [pc EXCEPT ![p] = "idle"] /\ answer' = [answer EXCEPT ![p] = "none"]
  /\ UNCHANGED <<platform, batch, job, siteVars, careless, stranded>>

-----------------------------------------------------------------------------
(* The report *)

\* Mutant of Verdict: what did not raise is taken to be up.
VerdictOptimistic(p) == IF answer[p] \in {"confirmed", "unclear"} THEN "done" ELSE "manual"

\* The platform turns a failed job into one for a person.
Verdict(p) == IF answer[p] = "confirmed" THEN "done" ELSE "manual"

\* A report arrives; request() sends it again until an answer is heard.
ReportArrives(p) ==
  /\ pc[p] = "reporting"
  /\ platform' = [platform EXCEPT ![job[p]] = Verdict(p)]
  /\ UNCHANGED <<accountVars, pc, batch, useVars, siteVars, careless, stranded>>

ReportHeard(p) ==
  /\ pc[p] = "reporting" /\ platform[job[p]] = Verdict(p)
  /\ pc' = [pc EXCEPT ![p] = "batch"]
  /\ job' = [job EXCEPT ![p] = NoJob]
  /\ answer' = [answer EXCEPT ![p] = "none"]
  /\ UNCHANGED <<accountVars, platform, batch, at, siteVars, careless, stranded>>

-----------------------------------------------------------------------------
(* What ends a run, and what ends a block *)

\* The process is killed, or a commit or the last attempt at a report raises,
\* which leaves handle() and with it the loop of run().
Break(p) ==
  /\ pc[p] # "idle"
  /\ stranded' = stranded \cup batch[p] \cup ({job[p]} \ {NoJob})
  /\ careless' = [a \in Accounts |->
       careless[a] \/ (pc[p] = "answered" /\ at[p] = a /\ answer[p] \in Blocks)]
  /\ pc' = [pc EXCEPT ![p] = "idle"]
  /\ batch' = [batch EXCEPT ![p] = {}]
  /\ job' = [job EXCEPT ![p] = NoJob]
  /\ at' = [at EXCEPT ![p] = NoAccount]
  /\ answer' = [answer EXCEPT ![p] = "none"]
  /\ UNCHANGED <<accountVars, platform, siteVars>>

\* With the last block the carelessness about it is over too.
Forgiven(a) ==
  /\ noticed' = [noticed EXCEPT ![a] = "none"]
  /\ careless' = [careless EXCEPT ![a] = \E p, q \in Processes : p # q /\ InUse(p, a) /\ InUse(q, a)]

\* The rest of a challenged account is over.  No use of an account takes a day.
DayPasses(a) ==
  /\ cooling[a] \/ noticed[a] = "challenge"
  /\ \A p \in Processes : ~(InUse(p, a) /\ answer[p] \in Blocks)
  /\ CooldownEnds(a)
  /\ IF noticed[a] = "signedout" THEN UNCHANGED <<noticed, careless>> ELSE Forgiven(a)
  /\ UNCHANGED <<platform, pc, batch, useVars, posts, told, stranded>>

\* release(): a person has signed in and cleared what there was.
Release(a) ==
  /\ noticed[a] # "none" \/ state[a] # "healthy"
  /\ Heal(a)
  /\ Forgiven(a)
  /\ UNCHANGED <<platform, pc, batch, useVars, posts, told, stranded>>

-----------------------------------------------------------------------------
Step(p) ==
  \/ BeginJob(p) \/ EndBatch(p) \/ Note(p) \/ ReportArrives(p) \/ ReportHeard(p)
  \/ \E r \in Answers : Posted(p, r) \/ Collected(p, r)

Next ==
  \/ \E p \in Processes : Step(p) \/ ClaimBatch(p) \/ Break(p)
  \/ \E c \in Collectors, a \in Accounts : BeginCollect(c, a)
  \/ \E a \in Accounts : DayPasses(a) \/ Release(a)

Spec == Init /\ [][Next]_vars

\* A process that lives goes on: pages, requests and retries have time limits.
Fairness == \A p \in Processes : WF_vars(Step(p))

FairSpec == Spec /\ Fairness

-----------------------------------------------------------------------------
(* Properties *)

\* A block is not forgotten: an account that was challenged or signed out is
\* not used again until its rest is over or a person has released it, unless
\* two uses of it met or the process that saw the block died before it wrote
\* it down (session.py:119, session.py:130, __init__.py:829, publish.py:83).
ChallengesAreKept ==
  \A a \in Accounts : noticed[a] # "none" /\ Usable(a) =>
    careless[a] \/ \E p \in Processes : InUse(p, a) /\ answer[p] \in Blocks

\* What the platform is told is so: done is what the site confirmed, a post
\* that a person is asked for was not, and one whose account was out was not
\* even tried (publish.py:86, 94, 104, 110, 116).
ReportsAreTrue ==
  \A j \in Jobs :
    /\ platform[j] = "done" => told[j] = "confirmed" /\ posts[j] = 1
    /\ platform[j] = "manual" =>
         told[j] # "confirmed" /\ (told[j] = "none" => posts[j] = 0)

\* A post goes out at most once, whatever is lost, repeated, or run beside it
\* (publish.py:91, client.py:199).
PostedOnce == \A j \in Jobs : posts[j] <= 1

\* What the platform makes of a job: a person looks after one that failed, so
\* nobody can say any more what will become of its post.
Outcome(j) ==
  CASE platform[j] = "done" -> "delivered"
    [] platform[j] = "manual" -> "unknown"
    [] OTHER -> "none"

Promise == INSTANCE AtMostOnce WITH
  Request <- Jobs,
  requested <- {j \in Jobs : platform[j] # "pending"},
  attempts <- posts,
  outcome <- [j \in Jobs |-> Outcome(j)]

\* Publishing keeps the same promise as the delivery queue: a claimed job is
\* posted at most once, is called done only after it was, and neither a report
\* that is repeated nor a run beside it takes a verdict back (publish.py:33-40,
\* client.py:199).
AtMostOnePost == Promise!Spec

\* While nobody was careless, an account has one user at a time, and what was
\* noticed is in the table or about to be written there by that user.
UsesAreAlone ==
  \A a \in Accounts : ~careless[a] =>
    /\ \A p, q \in Processes : InUse(p, a) /\ InUse(q, a) => p = q
    /\ \A p \in Processes : InUse(p, a) =>
         noticed[a] \in {"none", answer[p]} /\ (pc[p] = "using" => noticed[a] = "none")
    /\ noticed[a] = "signedout" /\ (\A p \in Processes : ~InUse(p, a)) => state[a] = "auth_lost"

\* A claimed job is with one process or stranded; who reports knows what the
\* site said of this job.
Holds(p, j) == j \in batch[p] \/ job[p] = j

JobsAreOwned ==
  /\ \A p, q \in Processes, j \in Jobs : Holds(p, j) /\ Holds(q, j) => p = q
  /\ \A p \in Processes : job[p] \notin batch[p]
  /\ \A p \in Processes, j \in Jobs :
       /\ j \in batch[p] => platform[j] = "claimed" /\ told[j] = "none" /\ posts[j] = 0
       /\ job[p] = j /\ pc[p] \in {"using", "answered"} => platform[j] = "claimed"
       /\ job[p] = j /\ pc[p] = "using" => told[j] = "none" /\ posts[j] = 0
       /\ job[p] = j /\ pc[p] \in {"answered", "reporting"} => answer[p] = told[j]
       /\ job[p] = j /\ pc[p] = "reporting" => platform[j] \in {"claimed", Verdict(p)}
  /\ \A j \in Jobs :
       /\ platform[j] = "pending" => told[j] = "none" /\ posts[j] = 0 /\ \A p \in Processes : ~Holds(p, j)
       /\ told[j] = "none" => posts[j] = 0
       /\ told[j] = "confirmed" => posts[j] = 1

PlacesOK ==
  /\ \A p \in Publishers :
       /\ pc[p] \in {"using", "answered", "reporting"} <=> job[p] # NoJob
       /\ pc[p] = "idle" => batch[p] = {}
  /\ \A p \in Collectors :
       pc[p] \in {"idle", "using", "answered"} /\ job[p] = NoJob /\ batch[p] = {}
  /\ \A p \in Processes :
       /\ pc[p] \in {"idle", "batch", "using"} => answer[p] = "none"
       /\ pc[p] = "answered" => answer[p] # "none"
       /\ pc[p] \in {"idle", "batch", "reporting"} => at[p] = NoAccount

PublishInv ==
  /\ TypeOK /\ PlacesOK /\ JobsAreOwned /\ UsesAreAlone
  /\ ChallengesAreKept /\ ReportsAreTrue /\ PostedOnce

\* Every claimed job is reported, whatever its account or its post did, unless
\* its run broke or the answer that named it was lost (publish.py:40).
EveryClaimIsReported ==
  \A j \in Jobs :
    platform[j] = "claimed" ~> platform[j] \in {"done", "manual"} \/ j \in stranded
=============================================================================
