--------------------------- MODULE PublishProofs ----------------------------
(***************************************************************************)
(* Theorems about Publish.  The invariant has two halves that do not need  *)
(* each other: what is known of the accounts (UsesAreAlone and             *)
(* ChallengesAreKept), and what is known of the jobs (JobsAreOwned,        *)
(* ReportsAreTrue and PostedOnce).  Both rest on the places of the         *)
(* processes.  With the second half, publishing implements AtMostOnce.     *)
(***************************************************************************)
EXTENDS Publish, TLAPS

Grounds == TypeOK /\ PlacesOK
AccountsInv == UsesAreAlone /\ ChallengesAreKept
JobsInv == JobsAreOwned /\ ReportsAreTrue /\ PostedOnce

\* Nothing is in use, claimed or noticed in the initial states.
LEMMA InitPublish == Init => PublishInv
<1> SUFFICES ASSUME Init PROVE PublishInv
  OBVIOUS
<1> USE DEF Init, AccountsInit
<1>1. TypeOK
  BY DEF TypeOK, AccountsTypeOK, States, Answers, Blocks
<1>2. PlacesOK
  BY JobsAssumption, ProcessesAssumption DEF PlacesOK, Processes
<1>3. JobsAreOwned /\ ReportsAreTrue /\ PostedOnce
  BY JobsAssumption DEF JobsAreOwned, ReportsAreTrue, PostedOnce, Holds
<1>4. UsesAreAlone /\ ChallengesAreKept
  BY DEF UsesAreAlone, ChallengesAreKept, InUse
<1>5. QED
  BY <1>1, <1>2, <1>3, <1>4 DEF PublishInv

\* Opening an account, breaking off and forgiving keep careless in its type.
LEMMA CarelessTyped ==
  ASSUME TypeOK, NEW p, NEW a, Opens(p, a) \/ Break(p) \/ Forgiven(a)
  PROVE  careless' \in [Accounts -> BOOLEAN]
<1>1. CASE Opens(p, a)
  <2>1. \A b \in Accounts :
          (careless[b] \/ (b = a /\ \E q \in Processes \ {p} : InUse(q, b))) \in BOOLEAN
    OBVIOUS
  <2>2. QED
    BY <1>1, <2>1, Zenon DEF Opens
<1>2. CASE Break(p)
  <2>1. \A b \in Accounts :
          (careless[b] \/ (pc[p] = "answered" /\ at[p] = b /\ answer[p] \in Blocks)) \in BOOLEAN
    OBVIOUS
  <2>2. QED
    BY <1>2, <2>1, Zenon DEF Break
<1>3. CASE Forgiven(a)
  <2> DEFINE Meet == \E x, y \in Processes : x # y /\ InUse(x, a) /\ InUse(y, a)
  <2>1. Meet \in BOOLEAN
    OBVIOUS
  <2>2. careless' = [careless EXCEPT ![a] = Meet]
    BY <1>3 DEF Forgiven
  <2>3. careless \in [Accounts -> BOOLEAN]
    BY DEF TypeOK
  <2> HIDE DEF Meet
  <2>4. QED
    BY <2>1, <2>2, <2>3
<1>4. QED
  BY <1>1, <1>2, <1>3

\* Every action keeps the variables in their types.
LEMMA TypeKept == Grounds /\ [Next]_vars => TypeOK'
<1> SUFFICES ASSUME Grounds, [Next]_vars PROVE TypeOK'
  OBVIOUS
<1> USE JobsAssumption, AccountsAssumption, AccountOfAssumption
<1> USE DEF Grounds, TypeOK, AccountsTypeOK, States
<1>1. ASSUME NEW p \in Processes, BeginJob(p) PROVE TypeOK'
  <2> PICK j \in batch[p] :
        /\ batch' = [batch EXCEPT ![p] = @ \ {j}]
        /\ job' = [job EXCEPT ![p] = j]
        /\ IF AccountOf[j] = NoAccount \/ Usable(AccountOf[j])
           THEN /\ Opens(p, AccountOf[j])
                /\ pc' = [pc EXCEPT ![p] = "using"]
           ELSE /\ pc' = [pc EXCEPT ![p] = "reporting"]
                /\ UNCHANGED <<at, careless>>
    BY <1>1 DEF BeginJob
  <2>1. j \in Jobs /\ AccountOf[j] \in Accounts \cup {NoAccount}
    OBVIOUS
  <2>2. careless' \in [Accounts -> BOOLEAN]
    <3>1. CASE Opens(p, AccountOf[j])
      BY <3>1, CarelessTyped
    <3>2. CASE UNCHANGED careless
      BY <3>2
    <3>3. QED
      BY <3>1, <3>2
  <2>3. at' \in [Processes -> Accounts \cup {NoAccount}]
    BY <2>1 DEF Opens
  <2>4. batch' \in [Processes -> SUBSET Jobs] /\ job' \in [Processes -> Jobs \cup {NoJob}]
    BY <2>1
  <2>5. pc' \in [Processes -> {"idle", "batch", "using", "answered", "reporting"}]
    OBVIOUS
  <2>6. QED
    BY <1>1, <2>2, <2>3, <2>4, <2>5 DEF BeginJob, accountVars, siteVars
<1>2. ASSUME NEW p \in Processes, EndBatch(p) PROVE TypeOK'
  BY <1>2 DEF EndBatch, accountVars, useVars, siteVars
<1>3. ASSUME NEW p \in Processes, Note(p) PROVE TypeOK'
  <2>1. accountVars' = accountVars \/ Heal(at[p]) \/ Quarantine(at[p], answer[p])
    BY <1>3 DEF Note
  <2>2. AccountsTypeOK'
    BY <2>1 DEF accountVars, Heal, Quarantine
  <2>3. answer' \in [Processes -> Answers \cup {"none"}]
    BY <1>3 DEF Note
  <2>4. pc' \in [Processes -> {"idle", "batch", "using", "answered", "reporting"}]
    BY <1>3 DEF Note
  <2>5. QED
    BY <1>3, <2>2, <2>3, <2>4 DEF Note, siteVars
<1>4. ASSUME NEW p \in Processes, ReportArrives(p) PROVE TypeOK'
  BY <1>4 DEF ReportArrives, Verdict, accountVars, useVars, siteVars
<1>5. ASSUME NEW p \in Processes, ReportHeard(p) PROVE TypeOK'
  BY <1>5 DEF ReportHeard, accountVars, siteVars
<1>6. ASSUME NEW p \in Processes, NEW r \in Answers, Posted(p, r) PROVE TypeOK'
  <2>1. job[p] \in Jobs
    BY <1>6 DEF Posted, PlacesOK
  <2>2. posts' \in [Jobs -> Nat]
    <3>1. posts[job[p]] + 1 \in Nat
      BY <2>1
    <3>2. posts' = posts \/ posts' = [posts EXCEPT ![job[p]] = posts[job[p]] + 1]
      BY <1>6 DEF Posted
    <3>3. QED
      BY <3>1, <3>2
  <2>3. noticed' \in [Accounts -> Blocks \cup {"none"}]
    BY <1>6 DEF Posted, Notices
  <2>4. told' \in [Jobs -> Answers \cup {"none"}] /\ answer' \in [Processes -> Answers \cup {"none"}]
    BY <1>6 DEF Posted
  <2>5. QED
    BY <1>6, <2>2, <2>3, <2>4 DEF Posted, accountVars
<1>7. ASSUME NEW p \in Processes, NEW r \in Answers, Collected(p, r) PROVE TypeOK'
  <2>1. noticed' \in [Accounts -> Blocks \cup {"none"}]
    BY <1>7 DEF Collected, Notices
  <2>2. QED
    BY <1>7, <2>1 DEF Collected, accountVars
<1>8. ASSUME NEW p \in Processes, ClaimBatch(p) PROVE TypeOK'
  <2> PICK S \in SUBSET {j \in Jobs : platform[j] = "pending"} :
        /\ platform' = [j \in Jobs |-> IF j \in S THEN "claimed" ELSE platform[j]]
        /\ \/ /\ batch' = [batch EXCEPT ![p] = S]
              /\ pc' = [pc EXCEPT ![p] = "batch"]
              /\ UNCHANGED stranded
           \/ /\ stranded' = stranded \cup S
              /\ UNCHANGED <<batch, pc>>
    BY <1>8 DEF ClaimBatch
  <2>1. S \subseteq Jobs
    OBVIOUS
  <2>2. batch' \in [Processes -> SUBSET Jobs] /\ stranded' \subseteq Jobs
    BY <2>1
  <2>3. platform' \in [Jobs -> {"pending", "claimed", "done", "manual"}]
    OBVIOUS
  <2>4. QED
    BY <1>8, <2>2, <2>3 DEF ClaimBatch, accountVars, useVars, siteVars
<1>9. ASSUME NEW p \in Processes, Break(p) PROVE TypeOK'
  <2>1. careless' \in [Accounts -> BOOLEAN]
    BY <1>9, CarelessTyped
  <2>2. stranded' \subseteq Jobs
    BY <1>9 DEF Break
  <2>3. QED
    BY <1>9, <2>1, <2>2 DEF Break, accountVars, siteVars
<1>10. ASSUME NEW c \in Processes, NEW a \in Accounts, BeginCollect(c, a) PROVE TypeOK'
  <2>1. careless' \in [Accounts -> BOOLEAN]
    BY <1>10, CarelessTyped DEF BeginCollect
  <2>2. QED
    BY <1>10, <2>1 DEF BeginCollect, Opens, accountVars, siteVars
<1>11. ASSUME NEW a \in Accounts, DayPasses(a) PROVE TypeOK'
  <2>1. careless' \in [Accounts -> BOOLEAN]
    BY <1>11, CarelessTyped DEF DayPasses
  <2>2. QED
    BY <1>11, <2>1 DEF DayPasses, CooldownEnds, Forgiven, useVars
<1>12. ASSUME NEW a \in Accounts, Release(a) PROVE TypeOK'
  <2>1. careless' \in [Accounts -> BOOLEAN]
    BY <1>12, CarelessTyped DEF Release
  <2>2. QED
    BY <1>12, <2>1 DEF Release, Heal, Forgiven, useVars
<1>13. CASE UNCHANGED vars
  BY <1>13 DEF vars, accountVars, useVars, siteVars
<1>14. Collectors \subseteq Processes
  BY DEF Processes
<1>15. QED
  BY <1>1, <1>2, <1>3, <1>4, <1>5, <1>6, <1>7, <1>8, <1>9, <1>10, <1>11, <1>12, <1>13, <1>14
     DEF Next, Step

\* A process that works a job is a publisher, has one, and knows the answer
\* to it when there is one.
LEMMA PlacesKept == Grounds /\ [Next]_vars => PlacesOK'
<1> SUFFICES ASSUME Grounds, [Next]_vars PROVE PlacesOK'
  OBVIOUS
<1> USE JobsAssumption, ProcessesAssumption, AccountsAssumption, AccountOfAssumption
<1> USE DEF Grounds, TypeOK, PlacesOK, Processes
<1>1. ASSUME NEW p \in Processes, BeginJob(p) PROVE PlacesOK'
  <2>1. p \in Publishers
    BY <1>1 DEF BeginJob
  <2>2. QED
    BY <1>1, <2>1 DEF BeginJob, Opens
<1>2. ASSUME NEW p \in Processes, EndBatch(p) PROVE PlacesOK'
  BY <1>2 DEF EndBatch, useVars
<1>3. ASSUME NEW p \in Processes, Note(p) PROVE PlacesOK'
  BY <1>3 DEF Note
<1>4. ASSUME NEW p \in Processes, ReportArrives(p) PROVE PlacesOK'
  BY <1>4 DEF ReportArrives, useVars
<1>5. ASSUME NEW p \in Processes, ReportHeard(p) PROVE PlacesOK'
  BY <1>5 DEF ReportHeard
<1>6. ASSUME NEW p \in Processes, NEW r \in Answers, Posted(p, r) PROVE PlacesOK'
  BY <1>6 DEF Posted, Answers, Blocks
<1>7. ASSUME NEW p \in Processes, NEW r \in Answers, Collected(p, r) PROVE PlacesOK'
  BY <1>7 DEF Collected, Answers, Blocks
<1>8. ASSUME NEW p \in Processes, ClaimBatch(p) PROVE PlacesOK'
  BY <1>8 DEF ClaimBatch, useVars
<1>9. ASSUME NEW p \in Processes, Break(p) PROVE PlacesOK'
  BY <1>9 DEF Break
<1>10. ASSUME NEW c \in Processes, NEW a \in Accounts, BeginCollect(c, a) PROVE PlacesOK'
  BY <1>10 DEF BeginCollect, Opens
<1>11. ASSUME NEW a \in Accounts, DayPasses(a) PROVE PlacesOK'
  BY <1>11 DEF DayPasses, useVars
<1>12. ASSUME NEW a \in Accounts, Release(a) PROVE PlacesOK'
  BY <1>12 DEF Release, useVars
<1>13. CASE UNCHANGED vars
  BY <1>13 DEF vars, useVars
<1>14. QED
  BY <1>1, <1>2, <1>3, <1>4, <1>5, <1>6, <1>7, <1>8, <1>9, <1>10, <1>11, <1>12, <1>13
     DEF Next, Step

\* Who opens an account alone finds it without a block that is not waited out.
LEMMA OpensKept ==
  ASSUME Grounds, AccountsInv, NEW p \in Processes, NEW b \in Accounts \cup {NoAccount},
         pc[p] \in {"idle", "batch"}, b = NoAccount \/ Usable(b), Opens(p, b),
         pc' = [pc EXCEPT ![p] = "using"], UNCHANGED <<accountVars, answer, noticed>>
  PROVE  AccountsInv'
<1> USE AccountsAssumption DEF Grounds, TypeOK, PlacesOK
<1> DEFINE Met(a) == \E q \in Processes \ {p} : InUse(q, a)
<1>1. \A a \in Accounts : careless'[a] <=> careless[a] \/ (a = b /\ Met(a))
  BY DEF Opens
<1>2. \A q \in Processes \ {p}, a \in Accounts : InUse(q, a)' <=> InUse(q, a)
  BY DEF Opens, InUse
<1>3. \A a \in Accounts : InUse(p, a)' <=> a = b
  BY DEF Opens, InUse
<1>4. \A a \in Accounts : ~InUse(p, a)
  BY DEF InUse
<1>5. answer[p] = "none" /\ pc'[p] = "using"
  OBVIOUS
<1>6. \A a : Usable(a)' <=> Usable(a)
  BY DEF Usable, accountVars
<1>7. UsesAreAlone'
  <2> SUFFICES ASSUME NEW a \in Accounts, ~careless'[a]
               PROVE  /\ \A x, y \in Processes : InUse(x, a)' /\ InUse(y, a)' => x = y
                      /\ \A x \in Processes : InUse(x, a)' =>
                           noticed'[a] \in {"none", answer'[x]}
                           /\ (pc'[x] = "using" => noticed'[a] = "none")
                      /\ noticed'[a] = "signedout" /\ (\A x \in Processes : ~InUse(x, a)')
                           => state'[a] = "auth_lost"
    BY DEF UsesAreAlone
  <2>1. ~careless[a]
    BY <1>1
  <2>2. CASE a = b
    <3>1. \A q \in Processes \ {p} : ~InUse(q, a)
      BY <1>1, <2>2
    <3>2. \A q \in Processes : ~InUse(q, a)
      BY <3>1, <1>4
    <3>3. Usable(a)
      BY <2>2
    <3>4. noticed[a] = "none"
      BY <2>1, <3>2, <3>3 DEF AccountsInv, ChallengesAreKept
    <3>5. QED
      BY <1>2, <1>3, <1>5, <2>2, <3>1, <3>4
  <2>3. CASE a # b
    <3>1. \A x \in Processes : InUse(x, a)' <=> InUse(x, a)
      BY <1>2, <1>3, <1>4, <2>3
    <3>2. \A x \in Processes : InUse(x, a) => pc'[x] = pc[x]
      BY <1>4
    <3>3. QED
      BY <2>1, <3>1, <3>2 DEF AccountsInv, UsesAreAlone, accountVars
  <2>4. QED
    BY <2>2, <2>3
<1>8. ChallengesAreKept'
  <2> SUFFICES ASSUME NEW a \in Accounts, noticed'[a] # "none", Usable(a)', ~careless'[a]
               PROVE  \E x \in Processes : InUse(x, a)' /\ answer'[x] \in Blocks
    BY DEF ChallengesAreKept
  <2>1. PICK x \in Processes : InUse(x, a) /\ answer[x] \in Blocks
    BY <1>1, <1>6 DEF AccountsInv, ChallengesAreKept
  <2>2. x # p
    BY <2>1, <1>4
  <2>3. QED
    BY <1>2, <2>1, <2>2
<1>9. QED
  BY <1>7, <1>8 DEF AccountsInv

\* A step that changes nothing an account is judged by.
LEMMA AccountsUntouched ==
  ASSUME AccountsInv, UNCHANGED <<accountVars, answer, noticed, careless, at>>,
         \A q \in Processes, a \in Accounts : InUse(q, a)' <=> InUse(q, a),
         \A q \in Processes, a \in Accounts : InUse(q, a) => pc'[q] = pc[q]
  PROVE  AccountsInv'
BY DEF AccountsInv, UsesAreAlone, ChallengesAreKept, Usable, accountVars

\* What the site answers is known to the process that asked.
LEMMA AnswerKept ==
  ASSUME Grounds, AccountsInv, NEW p \in Processes, NEW r \in Answers, pc[p] = "using",
         Notices(p, r), answer' = [answer EXCEPT ![p] = r],
         pc' = [pc EXCEPT ![p] = "answered"], UNCHANGED <<accountVars, at, careless>>
  PROVE  AccountsInv'
<1> USE AccountsAssumption DEF Grounds, TypeOK, PlacesOK
<1>1. \A q \in Processes, a \in Accounts : InUse(q, a)' <=> InUse(q, a)
  BY DEF InUse
<1>2. \A a \in Accounts : a # at[p] => noticed'[a] = noticed[a]
  BY DEF Notices
<1>3. \A a \in Accounts : a = at[p] => InUse(p, a) /\ noticed'[a] \in {noticed[a], r}
  BY DEF Notices, InUse
<1>4. UsesAreAlone'
  <2> SUFFICES ASSUME NEW a \in Accounts, ~careless[a]
               PROVE  /\ \A x, y \in Processes : InUse(x, a) /\ InUse(y, a) => x = y
                      /\ \A x \in Processes : InUse(x, a) =>
                           noticed'[a] \in {"none", answer'[x]}
                           /\ (pc'[x] = "using" => noticed'[a] = "none")
                      /\ noticed'[a] = "signedout" /\ (\A x \in Processes : ~InUse(x, a))
                           => state[a] = "auth_lost"
    BY <1>1 DEF UsesAreAlone, accountVars
  <2>1. \A x, y \in Processes : InUse(x, a) /\ InUse(y, a) => x = y
    BY DEF AccountsInv, UsesAreAlone
  <2>2. CASE a = at[p]
    <3>1. InUse(p, a) /\ noticed[a] = "none"
      BY <1>3, <2>2 DEF AccountsInv, UsesAreAlone
    <3>2. noticed'[a] \in {"none", r}
      BY <1>3, <2>2, <3>1
    <3>3. QED
      BY <2>1, <3>1, <3>2
  <2>3. CASE a # at[p]
    <3>1. ~InUse(p, a)
      BY <2>3 DEF InUse
    <3>2. QED
      BY <1>2, <2>1, <2>3, <3>1 DEF AccountsInv, UsesAreAlone
  <2>4. QED
    BY <2>2, <2>3
<1>5. ChallengesAreKept'
  <2> SUFFICES ASSUME NEW a \in Accounts, noticed'[a] # "none", Usable(a), ~careless[a]
               PROVE  \E x \in Processes : InUse(x, a) /\ answer'[x] \in Blocks
    BY <1>1 DEF ChallengesAreKept, Usable, accountVars
  <2>1. CASE a = at[p]
    <3>1. InUse(p, a) /\ noticed[a] = "none"
      BY <1>3, <2>1 DEF AccountsInv, UsesAreAlone
    <3>2. r \in Blocks
      BY <2>1, <3>1 DEF Notices
    <3>3. QED
      BY <3>1, <3>2
  <2>2. CASE a # at[p]
    <3>1. PICK x \in Processes : InUse(x, a) /\ answer[x] \in Blocks
      BY <1>2, <2>2 DEF AccountsInv, ChallengesAreKept
    <3>2. x # p
      BY <2>2, <3>1 DEF InUse
    <3>3. QED
      BY <3>1, <3>2
  <2>3. QED
    BY <2>1, <2>2
<1>6. QED
  BY <1>4, <1>5 DEF AccountsInv

\* With the block, the carelessness about it is over, unless uses still meet.
LEMMA ForgivenKept ==
  ASSUME Grounds, AccountsInv, NEW b \in Accounts, Forgiven(b), UNCHANGED <<pc, at, answer>>,
         \A a \in Accounts : a # b => state'[a] = state[a] /\ (Usable(a)' <=> Usable(a))
  PROVE  AccountsInv'
<1> USE DEF Grounds, TypeOK
<1>1. \A q, a : InUse(q, a)' <=> InUse(q, a)
  BY DEF InUse
<1>2. /\ noticed'[b] = "none"
      /\ \A a \in Accounts : a # b => noticed'[a] = noticed[a] /\ (careless'[a] <=> careless[a])
  BY DEF Forgiven
<1>3. ~careless'[b] => \A x, y \in Processes : InUse(x, b) /\ InUse(y, b) => x = y
  <2> DEFINE Meet == \E x, y \in Processes : x # y /\ InUse(x, b) /\ InUse(y, b)
  <2>1. careless' = [careless EXCEPT ![b] = Meet]
    BY DEF Forgiven
  <2>2. careless'[b] <=> Meet
    BY <2>1
  <2>3. QED
    BY <2>2
<1>4. UsesAreAlone'
  BY <1>1, <1>2, <1>3 DEF AccountsInv, UsesAreAlone
<1>5. ChallengesAreKept'
  BY <1>1, <1>2 DEF AccountsInv, ChallengesAreKept
<1>6. QED
  BY <1>4, <1>5 DEF AccountsInv

\* Every action keeps what is known of the accounts.
LEMMA AccountsKept == Grounds /\ AccountsInv /\ [Next]_vars => AccountsInv'
<1> SUFFICES ASSUME Grounds, AccountsInv, [Next]_vars PROVE AccountsInv'
  OBVIOUS
<1> USE ProcessesAssumption, AccountsAssumption, AccountOfAssumption DEF Grounds, TypeOK, PlacesOK
<1>1. ASSUME NEW p \in Processes, BeginJob(p) PROVE AccountsInv'
  <2> PICK j \in batch[p] :
        IF AccountOf[j] = NoAccount \/ Usable(AccountOf[j])
        THEN /\ Opens(p, AccountOf[j])
             /\ pc' = [pc EXCEPT ![p] = "using"]
        ELSE /\ pc' = [pc EXCEPT ![p] = "reporting"]
             /\ UNCHANGED <<at, careless>>
    BY <1>1 DEF BeginJob
  <2>1. /\ UNCHANGED <<accountVars, answer, noticed>>
        /\ pc[p] = "batch"
        /\ AccountOf[j] \in Accounts \cup {NoAccount}
    BY <1>1 DEF BeginJob, siteVars
  <2>2. CASE AccountOf[j] = NoAccount \/ Usable(AccountOf[j])
    BY <2>1, <2>2, OpensKept
  <2>3. CASE ~(AccountOf[j] = NoAccount \/ Usable(AccountOf[j]))
    BY <2>1, <2>3, AccountsUntouched DEF InUse
  <2>4. QED
    BY <2>2, <2>3
<1>2. ASSUME NEW p \in Processes, EndBatch(p) PROVE AccountsInv'
  BY <1>2, AccountsUntouched DEF EndBatch, useVars, siteVars, InUse
<1>3. ASSUME NEW p \in Processes, Note(p) PROVE AccountsInv'
  <2> DEFINE b == at[p]
  <2>1. /\ UNCHANGED <<noticed, careless>>
        /\ pc[p] = "answered" /\ ~(pc'[p] \in {"using", "answered"})
        /\ \A q \in Processes \ {p} : pc'[q] = pc[q] /\ at'[q] = at[q] /\ answer'[q] = answer[q]
    BY <1>3 DEF Note, siteVars
  <2>2. /\ \A a : ~InUse(p, a)'
        /\ \A q \in Processes \ {p}, a \in Accounts : InUse(q, a)' <=> InUse(q, a)
    BY <2>1 DEF InUse
  <2>3. \A a \in Accounts : a # b => state'[a] = state[a] /\ (Usable(a)' <=> Usable(a))
    BY <1>3 DEF Note, Heal, Quarantine, Usable, accountVars, AccountsTypeOK
  <2>4. UsesAreAlone'
    <3> SUFFICES ASSUME NEW a \in Accounts, ~careless[a]
                 PROVE  /\ \A x, y \in Processes : InUse(x, a)' /\ InUse(y, a)' => x = y
                        /\ \A x \in Processes : InUse(x, a)' =>
                             noticed[a] \in {"none", answer'[x]}
                             /\ (pc'[x] = "using" => noticed[a] = "none")
                        /\ noticed[a] = "signedout" /\ (\A x \in Processes : ~InUse(x, a)')
                             => state'[a] = "auth_lost"
      BY <2>1 DEF UsesAreAlone
    <3>1. /\ \A x, y \in Processes : InUse(x, a)' /\ InUse(y, a)' => x = y
          /\ \A x \in Processes : InUse(x, a)' =>
               noticed[a] \in {"none", answer'[x]} /\ (pc'[x] = "using" => noticed[a] = "none")
      BY <2>1, <2>2 DEF AccountsInv, UsesAreAlone
    <3>2. ASSUME a = b, noticed[a] = "signedout" PROVE state'[a] = "auth_lost"
      <4>1. InUse(p, a)
        BY <2>1, <3>2 DEF InUse
      <4>2. answer[p] = "signedout"
        BY <3>2, <4>1 DEF AccountsInv, UsesAreAlone
      <4>3. QED
        BY <1>3, <3>2, <4>2 DEF Note, Quarantine, AccountsTypeOK
    <3>3. ASSUME a # b, noticed[a] = "signedout", \A x \in Processes : ~InUse(x, a)'
          PROVE  state'[a] = "auth_lost"
      <4>1. ~InUse(p, a)
        BY <3>3 DEF InUse
      <4>2. \A x \in Processes : ~InUse(x, a)
        BY <2>2, <3>3, <4>1
      <4>3. QED
        BY <2>3, <3>3, <4>2 DEF AccountsInv, UsesAreAlone
    <3>4. QED
      BY <3>1, <3>2, <3>3
  <2>5. ChallengesAreKept'
    <3> SUFFICES ASSUME NEW a \in Accounts, noticed[a] # "none", Usable(a)', ~careless[a]
                 PROVE  \E x \in Processes : InUse(x, a)' /\ answer'[x] \in Blocks
      BY <2>1 DEF ChallengesAreKept
    <3>1. CASE a = b
      <4>1. InUse(p, a)
        BY <2>1, <3>1 DEF InUse
      <4>2. answer[p] = noticed[a]
        BY <4>1 DEF AccountsInv, UsesAreAlone
      <4>3. Quarantine(a, answer[p])
        BY <1>3, <3>1, <4>2 DEF Note, Blocks
      <4>4. QED
        BY <4>3 DEF Quarantine, Usable, AccountsTypeOK
    <3>2. CASE a # b
      <4>1. PICK x \in Processes : InUse(x, a) /\ answer[x] \in Blocks
        BY <2>3, <3>2 DEF AccountsInv, ChallengesAreKept
      <4>2. x # p
        BY <3>2, <4>1 DEF InUse
      <4>3. QED
        BY <2>1, <2>2, <4>1, <4>2
    <3>3. QED
      BY <3>1, <3>2
  <2>6. QED
    BY <2>4, <2>5 DEF AccountsInv
<1>4. ASSUME NEW p \in Processes, ReportArrives(p) PROVE AccountsInv'
  BY <1>4, AccountsUntouched DEF ReportArrives, useVars, siteVars, InUse
<1>5. ASSUME NEW p \in Processes, ReportHeard(p) PROVE AccountsInv'
  <2>1. /\ UNCHANGED <<accountVars, noticed, careless, at>> /\ pc[p] = "reporting"
        /\ pc'[p] = "batch"
        /\ \A q \in Processes \ {p} : pc'[q] = pc[q] /\ answer'[q] = answer[q]
    BY <1>5 DEF ReportHeard, siteVars
  <2>2. \A q \in Processes, a \in Accounts : InUse(q, a)' <=> InUse(q, a)
    BY <2>1 DEF InUse
  <2>3. \A a \in Accounts : ~InUse(p, a)
    BY <2>1 DEF InUse
  <2>4. UsesAreAlone'
    BY <2>1, <2>2, <2>3 DEF AccountsInv, UsesAreAlone, accountVars
  <2>5. ChallengesAreKept'
    BY <2>1, <2>2, <2>3 DEF AccountsInv, ChallengesAreKept, Usable, accountVars
  <2>6. QED
    BY <2>4, <2>5 DEF AccountsInv
<1>6. ASSUME NEW p \in Processes, NEW r \in Answers, Posted(p, r) PROVE AccountsInv'
  BY <1>6, AnswerKept DEF Posted
<1>7. ASSUME NEW p \in Processes, NEW r \in Answers, Collected(p, r) PROVE AccountsInv'
  BY <1>7, AnswerKept DEF Collected
<1>8. ASSUME NEW p \in Processes, ClaimBatch(p) PROVE AccountsInv'
  BY <1>8, AccountsUntouched DEF ClaimBatch, useVars, siteVars, InUse
<1>9. ASSUME NEW p \in Processes, Break(p) PROVE AccountsInv'
  <2>1. /\ UNCHANGED <<accountVars, noticed>> /\ pc'[p] = "idle"
        /\ \A q \in Processes \ {p} : pc'[q] = pc[q] /\ at'[q] = at[q] /\ answer'[q] = answer[q]
    BY <1>9 DEF Break, siteVars
  <2>2. \A a \in Accounts : careless'[a] <=> careless[a] \/ (pc[p] = "answered" /\ at[p] = a /\ answer[p] \in Blocks)
    BY <1>9 DEF Break
  <2>3. /\ \A a : ~InUse(p, a)'
        /\ \A q \in Processes \ {p}, a \in Accounts : InUse(q, a)' <=> InUse(q, a)
    BY <2>1 DEF InUse
  <2>4. UsesAreAlone'
    <3> SUFFICES ASSUME NEW a \in Accounts, ~careless'[a]
                 PROVE  /\ \A x, y \in Processes : InUse(x, a)' /\ InUse(y, a)' => x = y
                        /\ \A x \in Processes : InUse(x, a)' =>
                             noticed'[a] \in {"none", answer'[x]}
                             /\ (pc'[x] = "using" => noticed'[a] = "none")
                        /\ noticed'[a] = "signedout" /\ (\A x \in Processes : ~InUse(x, a)')
                             => state'[a] = "auth_lost"
      BY DEF UsesAreAlone
    <3>1. ~careless[a]
      BY <2>2
    <3>2. /\ \A x, y \in Processes : InUse(x, a)' /\ InUse(y, a)' => x = y
          /\ \A x \in Processes : InUse(x, a)' =>
               noticed'[a] \in {"none", answer'[x]} /\ (pc'[x] = "using" => noticed'[a] = "none")
      BY <2>1, <2>3, <3>1 DEF AccountsInv, UsesAreAlone
    <3>3. ASSUME noticed[a] = "signedout", \A x \in Processes : ~InUse(x, a)'
          PROVE  state[a] = "auth_lost"
      <4>1. CASE InUse(p, a)
        <5>1. pc[p] = "answered" /\ answer[p] = "signedout"
          BY <3>1, <3>3, <4>1 DEF AccountsInv, UsesAreAlone, InUse
        <5>2. QED
          BY <2>2, <4>1, <5>1 DEF Blocks, InUse
      <4>2. CASE ~InUse(p, a)
        BY <2>3, <3>1, <3>3, <4>2 DEF AccountsInv, UsesAreAlone
      <4>3. QED
        BY <4>1, <4>2
    <3>4. QED
      BY <2>1, <3>2, <3>3 DEF accountVars
  <2>5. ChallengesAreKept'
    <3> SUFFICES ASSUME NEW a \in Accounts, noticed[a] # "none", Usable(a), ~careless'[a]
                 PROVE  \E x \in Processes : InUse(x, a)' /\ answer'[x] \in Blocks
      BY <2>1 DEF ChallengesAreKept, Usable, accountVars
    <3>1. PICK x \in Processes : InUse(x, a) /\ answer[x] \in Blocks
      BY <2>2 DEF AccountsInv, ChallengesAreKept
    <3>2. x # p
      BY <2>2, <3>1 DEF InUse, Blocks
    <3>3. QED
      BY <2>1, <2>3, <3>1, <3>2
  <2>6. QED
    BY <2>4, <2>5 DEF AccountsInv
<1>10. ASSUME NEW c \in Processes, NEW a \in Accounts, BeginCollect(c, a) PROVE AccountsInv'
  BY <1>10, OpensKept DEF BeginCollect, siteVars
<1>11. ASSUME NEW b \in Accounts, DayPasses(b) PROVE AccountsInv'
  <2>1. /\ UNCHANGED <<pc, at, answer, state>>
        /\ \A q, a : InUse(q, a)' <=> InUse(q, a)
        /\ \A a \in Accounts : a # b =>
             noticed'[a] = noticed[a] /\ (careless'[a] <=> careless[a]) /\ (Usable(a)' <=> Usable(a))
    BY <1>11 DEF DayPasses, CooldownEnds, Forgiven, Usable, InUse, useVars, AccountsTypeOK
  <2>2. CASE noticed[b] # "signedout"
    BY <1>11, <2>1, <2>2, ForgivenKept DEF DayPasses
  <2>3. CASE noticed[b] = "signedout"
    <3>1. UNCHANGED <<noticed, careless>>
      BY <1>11, <2>3 DEF DayPasses
    <3>2. UsesAreAlone'
      BY <2>1, <3>1 DEF AccountsInv, UsesAreAlone
    <3>3. ChallengesAreKept'
      <4> SUFFICES ASSUME NEW a \in Accounts, noticed[a] # "none", Usable(a)', ~careless[a]
                   PROVE  \E x \in Processes : InUse(x, a) /\ answer[x] \in Blocks
        BY <2>1, <3>1 DEF ChallengesAreKept
      <4>1. CASE a # b
        BY <2>1, <4>1 DEF AccountsInv, ChallengesAreKept
      <4>2. CASE a = b /\ \E x \in Processes : InUse(x, a)
        <5>1. PICK x \in Processes : InUse(x, a)
          BY <4>2
        <5>2. answer[x] = "signedout"
          BY <2>3, <4>2, <5>1 DEF AccountsInv, UsesAreAlone
        <5>3. QED
          BY <5>1, <5>2 DEF Blocks
      <4>3. CASE a = b /\ \A x \in Processes : ~InUse(x, a)
        <5>1. state[a] = "auth_lost"
          BY <2>3, <4>3 DEF AccountsInv, UsesAreAlone
        <5>2. QED
          BY <2>1, <5>1 DEF Usable
      <4>4. QED
        BY <4>1, <4>2, <4>3
    <3>4. QED
      BY <3>2, <3>3 DEF AccountsInv
  <2>4. QED
    BY <2>2, <2>3
<1>12. ASSUME NEW b \in Accounts, Release(b) PROVE AccountsInv'
  <2>1. /\ UNCHANGED <<pc, at, answer>>
        /\ \A a \in Accounts : a # b => state'[a] = state[a] /\ (Usable(a)' <=> Usable(a))
    BY <1>12 DEF Release, Heal, Usable, useVars, AccountsTypeOK
  <2>2. QED
    BY <1>12, <2>1, ForgivenKept DEF Release
<1>13. CASE UNCHANGED vars
  BY <1>13, AccountsUntouched DEF vars, useVars, siteVars, InUse
<1>14. Collectors \subseteq Processes
  BY DEF Processes
<1>15. QED
  BY <1>1, <1>2, <1>3, <1>4, <1>5, <1>6, <1>7, <1>8, <1>9, <1>10, <1>11, <1>12, <1>13, <1>14
     DEF Next, Step

\* A step that leaves the jobs, who holds them and what is known of them.
LEMMA JobsUntouched ==
  ASSUME JobsInv, UNCHANGED <<platform, posts, told, batch, job>>,
         \A p \in Processes : job[p] # NoJob => pc'[p] = pc[p] /\ answer'[p] = answer[p]
  PROVE  JobsInv'
BY JobsAssumption DEF JobsInv, JobsAreOwned, ReportsAreTrue, PostedOnce, Holds, Verdict

\* Every action keeps what is known of the jobs.
LEMMA JobsKept == Grounds /\ JobsInv /\ [Next]_vars => JobsInv'
<1> SUFFICES ASSUME Grounds, JobsInv, [Next]_vars PROVE JobsInv'
  OBVIOUS
<1> USE JobsAssumption, ProcessesAssumption DEF Grounds, TypeOK, PlacesOK, Processes
<1>1. ASSUME NEW p \in Processes, BeginJob(p) PROVE JobsInv'
  <2> PICK j \in batch[p] :
        /\ batch' = [batch EXCEPT ![p] = @ \ {j}]
        /\ job' = [job EXCEPT ![p] = j]
        /\ pc' \in {[pc EXCEPT ![p] = "using"], [pc EXCEPT ![p] = "reporting"]}
    BY <1>1 DEF BeginJob
  <2>1. UNCHANGED <<platform, answer, posts, told>> /\ pc[p] = "batch"
    BY <1>1 DEF BeginJob, siteVars
  <2>2. j \in Jobs /\ job[p] = NoJob /\ answer[p] = "none"
    BY <2>1
  <2>3. /\ \A q \in Processes, i \in Jobs : Holds(q, i)' <=> Holds(q, i)
        /\ \A q \in Processes : q # p => pc'[q] = pc[q] /\ job'[q] = job[q] /\ batch'[q] = batch[q]
    BY <2>2 DEF Holds
  <2>4. JobsAreOwned'
    BY <2>1, <2>2, <2>3 DEF JobsInv, JobsAreOwned, Verdict
  <2>5. QED
    BY <2>1, <2>4 DEF JobsInv, ReportsAreTrue, PostedOnce
<1>2. ASSUME NEW p \in Processes, EndBatch(p) PROVE JobsInv'
  BY <1>2, JobsUntouched DEF EndBatch, useVars, siteVars
<1>3. ASSUME NEW p \in Processes, Note(p) PROVE JobsInv'
  <2>1. /\ UNCHANGED <<platform, posts, told, batch, job>>
        /\ \A q \in Processes \ {p} : pc'[q] = pc[q] /\ answer'[q] = answer[q]
        /\ pc[p] = "answered"
        /\ job[p] # NoJob => pc'[p] = "reporting" /\ answer'[p] = answer[p]
    BY <1>3 DEF Note, siteVars
  <2>2. JobsAreOwned'
    BY <2>1 DEF JobsInv, JobsAreOwned, Holds, Verdict
  <2>3. QED
    BY <2>1, <2>2 DEF JobsInv, ReportsAreTrue, PostedOnce
<1>4. ASSUME NEW p \in Processes, ReportArrives(p) PROVE JobsInv'
  <2> DEFINE j == job[p]
  <2>1. /\ UNCHANGED <<pc, batch, job, answer, posts, told>> /\ pc[p] = "reporting"
        /\ platform' = [platform EXCEPT ![j] = Verdict(p)]
    BY <1>4 DEF ReportArrives, useVars, siteVars
  <2>2. j \in Jobs /\ Verdict(p) \in {"done", "manual"}
    BY <2>1 DEF Verdict
  <2>3. answer[p] = told[j]
    BY <2>1, <2>2 DEF JobsInv, JobsAreOwned
  <2>4. \A q \in Processes : q # p => ~Holds(q, j)
    BY <2>2 DEF JobsInv, JobsAreOwned, Holds
  <2>5. j \notin batch[p]
    BY DEF JobsInv, JobsAreOwned
  <2>6. /\ \A i \in Jobs : i # j => platform'[i] = platform[i]
        /\ platform'[j] = Verdict(p)
    BY <2>1, <2>2
  <2>7. JobsAreOwned'
    BY <2>1, <2>2, <2>4, <2>5, <2>6 DEF JobsInv, JobsAreOwned, Holds, Verdict
  <2>8. ReportsAreTrue'
    BY <2>1, <2>2, <2>3, <2>6 DEF JobsInv, JobsAreOwned, ReportsAreTrue, Verdict
  <2>9. QED
    BY <2>1, <2>7, <2>8 DEF JobsInv, PostedOnce
<1>5. ASSUME NEW p \in Processes, ReportHeard(p) PROVE JobsInv'
  <2>1. /\ UNCHANGED <<platform, batch, posts, told>>
        /\ job' = [job EXCEPT ![p] = NoJob] /\ pc'[p] = "batch"
        /\ \A q \in Processes \ {p} : pc'[q] = pc[q] /\ answer'[q] = answer[q] /\ job'[q] = job[q]
    BY <1>5 DEF ReportHeard, siteVars
  <2>2. JobsAreOwned'
    BY <2>1 DEF JobsInv, JobsAreOwned, Holds, Verdict
  <2>3. QED
    BY <2>1, <2>2 DEF JobsInv, ReportsAreTrue, PostedOnce
<1>6. ASSUME NEW p \in Processes, NEW r \in Answers, Posted(p, r) PROVE JobsInv'
  <2> DEFINE j == job[p]
  <2>1. /\ UNCHANGED <<platform, batch, job>> /\ pc[p] = "using"
        /\ told' = [told EXCEPT ![j] = r]
        /\ answer' = [answer EXCEPT ![p] = r]
        /\ pc' = [pc EXCEPT ![p] = "answered"]
    BY <1>6 DEF Posted
  <2>2. j \in Jobs /\ r # "none"
    BY <1>6 DEF Posted, Answers, Blocks
  <2>3. platform[j] = "claimed" /\ told[j] = "none" /\ posts[j] = 0
    BY <2>1, <2>2 DEF JobsInv, JobsAreOwned
  <2>4. \A q \in Processes : q # p => ~Holds(q, j)
    BY <2>2 DEF JobsInv, JobsAreOwned, Holds
  <2>5. j \notin batch[p]
    BY DEF JobsInv, JobsAreOwned
  <2>6. /\ \A i \in Jobs : i # j => told'[i] = told[i] /\ posts'[i] = posts[i]
        /\ told'[j] = r /\ posts'[j] \in {0, 1} /\ (r = "confirmed" => posts'[j] = 1)
    BY <1>6, <2>1, <2>2, <2>3 DEF Posted
  <2>7. \A q \in Processes, i \in Jobs : Holds(q, i)' <=> Holds(q, i)
    BY <2>1 DEF Holds
  <2>8. \A q \in Processes : q # p => pc'[q] = pc[q] /\ answer'[q] = answer[q] /\ job[q] # j
    BY <2>1, <2>4 DEF Holds
  <2>9. JobsAreOwned'
    <3>1. /\ \A q, x \in Processes, i \in Jobs : Holds(q, i)' /\ Holds(x, i)' => q = x
          /\ \A q \in Processes : job'[q] \notin batch'[q]
      BY <2>1, <2>7 DEF JobsInv, JobsAreOwned
    <3>2. \A q \in Processes, i \in Jobs :
            /\ i \in batch'[q] => platform'[i] = "claimed" /\ told'[i] = "none" /\ posts'[i] = 0
            /\ job'[q] = i /\ pc'[q] \in {"using", "answered"} => platform'[i] = "claimed"
            /\ job'[q] = i /\ pc'[q] = "using" => told'[i] = "none" /\ posts'[i] = 0
            /\ job'[q] = i /\ pc'[q] \in {"answered", "reporting"} => answer'[q] = told'[i]
            /\ job'[q] = i /\ pc'[q] = "reporting" => platform'[i] \in {"claimed", Verdict(q)'}
      <4> SUFFICES ASSUME NEW q \in Processes, NEW i \in Jobs
                   PROVE  /\ i \in batch[q] => platform[i] = "claimed" /\ told'[i] = "none" /\ posts'[i] = 0
                          /\ job[q] = i /\ pc'[q] \in {"using", "answered"} => platform[i] = "claimed"
                          /\ job[q] = i /\ pc'[q] = "using" => told'[i] = "none" /\ posts'[i] = 0
                          /\ job[q] = i /\ pc'[q] \in {"answered", "reporting"} => answer'[q] = told'[i]
                          /\ job[q] = i /\ pc'[q] = "reporting" => platform[i] \in {"claimed", Verdict(q)'}
        BY <2>1
      <4>1. CASE i = j
        BY <2>1, <2>2, <2>3, <2>4, <2>5, <2>6, <2>8, <4>1 DEF Holds
      <4>2. CASE i # j /\ q = p
        BY <2>1, <2>6, <4>2 DEF JobsInv, JobsAreOwned
      <4>3. CASE i # j /\ q # p
        BY <2>6, <2>8, <4>3 DEF JobsInv, JobsAreOwned, Verdict
      <4>4. QED
        BY <4>1, <4>2, <4>3
    <3>3. \A i \in Jobs :
            /\ platform'[i] = "pending" =>
                 told'[i] = "none" /\ posts'[i] = 0 /\ \A q \in Processes : ~Holds(q, i)'
            /\ told'[i] = "none" => posts'[i] = 0
            /\ told'[i] = "confirmed" => posts'[i] = 1
      BY <2>1, <2>2, <2>3, <2>6, <2>7 DEF JobsInv, JobsAreOwned
    <3>4. QED
      BY <3>1, <3>2, <3>3 DEF JobsAreOwned
  <2>10. ReportsAreTrue' /\ PostedOnce'
    BY <2>1, <2>3, <2>6 DEF JobsInv, ReportsAreTrue, PostedOnce
  <2>11. QED
    BY <2>9, <2>10 DEF JobsInv
<1>7. ASSUME NEW p \in Processes, NEW r \in Answers, Collected(p, r) PROVE JobsInv'
  <2>1. job[p] = NoJob
    BY <1>7 DEF Collected
  <2>2. QED
    BY <1>7, <2>1, JobsUntouched DEF Collected
<1>8. ASSUME NEW p \in Processes, ClaimBatch(p) PROVE JobsInv'
  <2> PICK S \in SUBSET {j \in Jobs : platform[j] = "pending"} :
        /\ platform' = [j \in Jobs |-> IF j \in S THEN "claimed" ELSE platform[j]]
        /\ \/ batch' = [batch EXCEPT ![p] = S] /\ pc' = [pc EXCEPT ![p] = "batch"]
           \/ UNCHANGED <<batch, pc>>
    BY <1>8 DEF ClaimBatch
  <2>1. UNCHANGED <<job, answer, posts, told>> /\ pc[p] = "idle" /\ p \in Publishers
    BY <1>8 DEF ClaimBatch, useVars, siteVars
  <2>2. batch[p] = {} /\ job[p] = NoJob
    BY <2>1
  <2>3. \A j \in S : /\ j \in Jobs /\ platform[j] = "pending" /\ told[j] = "none" /\ posts[j] = 0
                     /\ \A q \in Processes : ~Holds(q, j)
    BY DEF JobsInv, JobsAreOwned
  <2>4. \A q \in Processes \ {p} : batch'[q] = batch[q] /\ pc'[q] = pc[q]
    OBVIOUS
  <2>5. batch'[p] \in {{}, S}
    BY <2>2
  <2>6. \A q \in Processes, j \in Jobs : Holds(q, j)' => Holds(q, j) \/ (q = p /\ j \in S)
    BY <2>1, <2>4, <2>5 DEF Holds
  <2>7. \A j \in Jobs : platform'[j] = IF j \in S THEN "claimed" ELSE platform[j]
    OBVIOUS
  <2>8. JobsAreOwned'
    <3>1. \A q, x \in Processes, j \in Jobs : Holds(q, j)' /\ Holds(x, j)' => q = x
      BY <2>3, <2>6 DEF JobsInv, JobsAreOwned
    <3>2. \A q \in Processes : job'[q] \notin batch'[q]
      BY <2>1, <2>2, <2>3, <2>4, <2>5 DEF JobsInv, JobsAreOwned
    <3>3. \A q \in Processes, i \in Jobs :
            /\ i \in batch'[q] => platform'[i] = "claimed" /\ told'[i] = "none" /\ posts'[i] = 0
            /\ job'[q] = i /\ pc'[q] \in {"using", "answered"} => platform'[i] = "claimed"
            /\ job'[q] = i /\ pc'[q] = "using" => told'[i] = "none" /\ posts'[i] = 0
            /\ job'[q] = i /\ pc'[q] \in {"answered", "reporting"} => answer'[q] = told'[i]
            /\ job'[q] = i /\ pc'[q] = "reporting" => platform'[i] \in {"claimed", Verdict(q)'}
      <4> SUFFICES ASSUME NEW q \in Processes, NEW i \in Jobs
                   PROVE  /\ i \in batch'[q] => platform'[i] = "claimed" /\ told[i] = "none" /\ posts[i] = 0
                          /\ job[q] = i /\ pc'[q] \in {"using", "answered"} => platform'[i] = "claimed"
                          /\ job[q] = i /\ pc'[q] = "using" => told[i] = "none" /\ posts[i] = 0
                          /\ job[q] = i /\ pc'[q] \in {"answered", "reporting"} => answer[q] = told[i]
                          /\ job[q] = i /\ pc'[q] = "reporting" => platform'[i] \in {"claimed", Verdict(q)}
        BY <2>1 DEF Verdict
      <4>1. CASE q = p
        BY <2>2, <2>3, <2>5, <2>7, <4>1
      <4>2. CASE q # p
        BY <2>4, <2>7, <4>2 DEF JobsInv, JobsAreOwned
      <4>3. QED
        BY <4>1, <4>2
    <3>4. \A i \in Jobs :
            /\ platform'[i] = "pending" =>
                 told'[i] = "none" /\ posts'[i] = 0 /\ \A q \in Processes : ~Holds(q, i)'
            /\ told'[i] = "none" => posts'[i] = 0
            /\ told'[i] = "confirmed" => posts'[i] = 1
      BY <2>1, <2>6, <2>7 DEF JobsInv, JobsAreOwned
    <3>5. QED
      BY <3>1, <3>2, <3>3, <3>4 DEF JobsAreOwned
  <2>9. ReportsAreTrue' /\ PostedOnce'
    BY <2>1, <2>7 DEF JobsInv, ReportsAreTrue, PostedOnce
  <2>10. QED
    BY <2>8, <2>9 DEF JobsInv
<1>9. ASSUME NEW p \in Processes, Break(p) PROVE JobsInv'
  <2>1. /\ UNCHANGED <<platform, posts, told>> /\ pc'[p] = "idle"
        /\ job' = [job EXCEPT ![p] = NoJob] /\ batch' = [batch EXCEPT ![p] = {}]
        /\ \A q \in Processes \ {p} : pc'[q] = pc[q] /\ answer'[q] = answer[q]
    BY <1>9 DEF Break, siteVars
  <2>2. JobsAreOwned'
    BY <2>1 DEF JobsInv, JobsAreOwned, Holds, Verdict
  <2>3. QED
    BY <2>1, <2>2 DEF JobsInv, ReportsAreTrue, PostedOnce
<1>10. ASSUME NEW c \in Processes, NEW a \in Accounts, BeginCollect(c, a) PROVE JobsInv'
  <2>1. job[c] = NoJob
    BY <1>10 DEF BeginCollect
  <2>2. QED
    BY <1>10, <2>1, JobsUntouched DEF BeginCollect, siteVars
<1>11. ASSUME NEW a \in Accounts, DayPasses(a) PROVE JobsInv'
  BY <1>11, JobsUntouched DEF DayPasses, useVars
<1>12. ASSUME NEW a \in Accounts, Release(a) PROVE JobsInv'
  BY <1>12, JobsUntouched DEF Release, useVars
<1>13. CASE UNCHANGED vars
  BY <1>13, JobsUntouched DEF vars, useVars, siteVars
<1>14. QED
  BY <1>1, <1>2, <1>3, <1>4, <1>5, <1>6, <1>7, <1>8, <1>9, <1>10, <1>11, <1>12, <1>13
     DEF Next, Step

\* The inductive invariant of publishing and collecting, for any processes,
\* accounts, jobs and limit (publish.py:121, __init__.py:810).
THEOREM PublishInvariant == Spec => []PublishInv
<1>1. PublishInv /\ [Next]_vars => PublishInv'
  BY TypeKept, PlacesKept, AccountsKept, JobsKept DEF PublishInv, Grounds, AccountsInv, JobsInv
<1>2. QED
  BY InitPublish, <1>1, PTL DEF Spec

\* A challenged or signed-out account is not used again before its rest or a
\* release, unless two uses met or a block was not written down
\* (session.py:119, session.py:130).
THEOREM BlocksAreKept == Spec => []ChallengesAreKept
<1>1. PublishInv => ChallengesAreKept
  BY DEF PublishInv
<1>2. QED
  BY PublishInvariant, <1>1, PTL

\* What the platform is told of a job is what the site answered to it
\* (publish.py:86, 116).
THEOREM ReportsTellTheTruth == Spec => []ReportsAreTrue
<1>1. PublishInv => ReportsAreTrue
  BY DEF PublishInv
<1>2. QED
  BY PublishInvariant, <1>1, PTL

\* A post goes out at most once (publish.py:91, client.py:199).
THEOREM NothingIsPostedTwice == Spec => []PostedOnce
<1>1. PublishInv => PostedOnce
  BY DEF PublishInv
<1>2. QED
  BY PublishInvariant, <1>1, PTL
-----------------------------------------------------------------------------
(* Publishing implements AtMostOnce. *)

\* Nothing is asked for before the first claim.
LEMMA InitRefines == Init => Promise!Init
BY DEF Init, Promise!Init, Outcome

\* A step that neither posts nor moves a job at the platform is not seen.
LEMMA PromiseUntouched ==
  ASSUME UNCHANGED <<platform, posts>>
  PROVE  UNCHANGED Promise!vars
<1>1. \A j \in Jobs : Outcome(j)' = Outcome(j)
  BY DEF Outcome
<1>2. QED
  BY <1>1 DEF Promise!vars

\* A claim asks for its jobs, a post that goes out is the one attempt, a first
\* report settles or gives up, and its repetitions change nothing.
LEMMA StepRefines == PublishInv /\ [Next]_vars => [Promise!Next]_Promise!vars
<1> SUFFICES ASSUME PublishInv, [Next]_vars PROVE [Promise!Next]_Promise!vars
  OBVIOUS
<1> USE JobsAssumption DEF PublishInv, TypeOK, PlacesOK, Processes
<1> DEFINE Claimed == {j \in Jobs : platform[j] # "pending"}
<1>1. ASSUME NEW p \in Processes, ClaimBatch(p) PROVE [Promise!Next]_Promise!vars
  <2> PICK S \in SUBSET {j \in Jobs : platform[j] = "pending"} :
        platform' = [j \in Jobs |-> IF j \in S THEN "claimed" ELSE platform[j]]
    BY <1>1 DEF ClaimBatch
  <2>1. posts' = posts
    BY <1>1 DEF ClaimBatch, siteVars
  <2>2. \A j \in Jobs : Outcome(j)' = Outcome(j)
    BY DEF Outcome
  <2>3. S \cap Claimed = {} /\ Claimed' = Claimed \cup S
    OBVIOUS
  <2>4. Promise!Ask(S)
    BY <2>1, <2>2, <2>3 DEF Promise!Ask
  <2>5. QED
    BY <2>4 DEF Promise!Next
<1>2. ASSUME NEW p \in Processes, NEW r \in Answers, Posted(p, r)
      PROVE  [Promise!Next]_Promise!vars
  <2> DEFINE j == job[p]
  <2>1. platform' = platform
    BY <1>2 DEF Posted
  <2>2. j \in Jobs
    BY <1>2 DEF Posted
  <2>3. platform[j] = "claimed" /\ posts[j] = 0
    BY <1>2, <2>2 DEF Posted, JobsAreOwned
  <2>4. posts' = posts \/ posts' = [posts EXCEPT ![j] = 1]
    BY <1>2, <2>2, <2>3 DEF Posted
  <2>5. CASE posts' = posts
    BY <2>1, <2>5, PromiseUntouched
  <2>6. CASE posts' = [posts EXCEPT ![j] = 1]
    <3>1. \A i \in Jobs : Outcome(i)' = Outcome(i)
      BY <2>1 DEF Outcome
    <3>2. Outcome(j) = "none" /\ j \in Claimed /\ Claimed' = Claimed
      BY <2>1, <2>2, <2>3 DEF Outcome
    <3>3. Promise!Attempt(j)
      BY <2>2, <2>3, <2>6, <3>1, <3>2 DEF Promise!Attempt
    <3>4. QED
      BY <2>2, <3>3 DEF Promise!Next
  <2>7. QED
    BY <2>4, <2>5, <2>6
<1>3. ASSUME NEW p \in Processes, ReportArrives(p) PROVE [Promise!Next]_Promise!vars
  <2> PICK j \in Jobs : j = job[p]
    BY <1>3 DEF ReportArrives
  <2>1. posts' = posts /\ platform' = [platform EXCEPT ![j] = Verdict(p)]
    BY <1>3 DEF ReportArrives, siteVars
  <2>2. Verdict(p) \in {"done", "manual"}
    BY DEF Verdict
  <2>3. platform[j] \in {"claimed", Verdict(p)} /\ answer[p] = told[j]
    BY <1>3, <2>2 DEF ReportArrives, JobsAreOwned
  <2>4. CASE platform[j] = Verdict(p)
    BY <2>1, <2>2, <2>4, PromiseUntouched
  <2>5. CASE platform[j] = "claimed"
    <3>1. Claimed' = Claimed /\ j \in Claimed
      BY <2>1, <2>2, <2>5
    <3>2. /\ Outcome(j) = "none"
          /\ \A i \in Jobs \ {j} : Outcome(i)' = Outcome(i)
      BY <2>1, <2>2, <2>5 DEF Outcome
    <3>3. CASE Verdict(p) = "done"
      <4>1. posts[j] = 1
        BY <2>2, <2>3, <3>3 DEF Verdict, JobsAreOwned
      <4>2. Outcome(j)' = "delivered"
        BY <2>1, <2>2, <3>3 DEF Outcome
      <4>3. [i \in Jobs |-> Outcome(i)]'
              = [[i \in Jobs |-> Outcome(i)] EXCEPT ![j] = "delivered"]
        BY <3>2, <4>2, Zenon
      <4>4. Promise!Settle(j, "delivered")
        BY <2>1, <2>2, <3>1, <3>2, <4>1, <4>3 DEF Promise!Settle
      <4>5. QED
        BY <2>2, <4>4 DEF Promise!Next
    <3>4. CASE Verdict(p) = "manual"
      <4>1. Outcome(j)' = "unknown"
        BY <2>1, <2>2, <3>4 DEF Outcome
      <4>2. Promise!Abandon({j})
        BY <2>1, <2>2, <3>1, <3>2, <4>1 DEF Promise!Abandon
      <4>3. {j} \in SUBSET Claimed
        BY <3>1
      <4>4. QED
        BY <4>2, <4>3 DEF Promise!Next
    <3>5. QED
      BY <2>2, <3>3, <3>4
  <2>6. QED
    BY <2>3, <2>4, <2>5
<1>4. ASSUME NEW p \in Processes,
             BeginJob(p) \/ EndBatch(p) \/ Note(p) \/ ReportHeard(p) \/ Break(p)
      PROVE  UNCHANGED <<platform, posts>>
  BY <1>4 DEF BeginJob, EndBatch, Note, ReportHeard, Break, siteVars
<1>5. ASSUME NEW c \in Processes, NEW r \in Answers, Collected(c, r)
      PROVE  UNCHANGED <<platform, posts>>
  BY <1>5 DEF Collected
<1>6. ASSUME NEW a \in Accounts,
             DayPasses(a) \/ Release(a) \/ \E c \in Collectors : BeginCollect(c, a)
      PROVE  UNCHANGED <<platform, posts>>
  BY <1>6 DEF DayPasses, Release, BeginCollect, siteVars
<1>7. CASE UNCHANGED vars
  BY <1>7, PromiseUntouched DEF vars, siteVars
<1>8. QED
  BY <1>1, <1>2, <1>3, <1>4, <1>5, <1>6, <1>7, PromiseUntouched DEF Next, Step

\* Publishing keeps AtMostOnce's promise, for any processes, accounts, jobs and
\* limit: a claimed job is posted at most once, is called done only after it was,
\* and what was said of it stands, whatever is lost, repeated or killed
\* (publish.py:33-40, 91, client.py:199).
THEOREM PublishingKeepsItsPromise == Spec => AtMostOnePost
<1> QED
  BY PublishInvariant, InitRefines, StepRefines, PTL DEF Spec, AtMostOnePost, Promise!Spec

=============================================================================
