----------------------------- MODULE RotaProofs -----------------------------
(***************************************************************************)
(* Theorems about Rota: who works a case holds it at the platform as long  *)
(* as no claim call failed and no lease was lost under its run, and hence  *)
(* no two agents work one case.                                            *)
(***************************************************************************)
EXTENDS Rota, TLAPS

\* No claim, no run: the initial states satisfy the invariant.
LEMMA InitRota == Init => RotaInv
<1> SUFFICES ASSUME Init PROVE RotaInv
  OBVIOUS
<1>1. TypeOK
  BY DEF Init, TypeOK, Places
<1>2. JobsInv /\ ClaimsHold
  BY DEF Init, JobsInv, ClaimsHold
<1>3. QED
  BY <1>1, <1>2 DEF RotaInv

\* Every action keeps the variables in their types.
LEMMA TypeKept == TypeOK /\ [Next]_vars => TypeOK'
<1> SUFFICES ASSUME TypeOK, [Next]_vars PROVE TypeOK'
  OBVIOUS
<1> USE DEF TypeOK, Places
<1>1. ASSUME NEW a \in Agents, Fetch(a) PROVE TypeOK'
  BY <1>1 DEF Fetch, platformVars
<1>2. ASSUME NEW a \in Agents, Age(a) PROVE TypeOK'
  BY <1>2 DEF Age, platformVars
<1>3. ASSUME NEW a \in Agents, NEW c \in Cases, Claim(a, c) PROVE TypeOK'
  BY <1>3 DEF Claim, Enter
<1>4. ASSUME NEW a \in Agents, NEW c \in Cases, ClaimUnavailable(a, c) PROVE TypeOK'
  <2>1. lease' = lease \/ lease' = [lease EXCEPT ![c] = a]
    BY <1>4 DEF ClaimUnavailable
  <2>2. lease' \in [Cases -> Agents \cup {Nobody}]
    BY <2>1
  <2>3. QED
    BY <1>4, <2>2 DEF ClaimUnavailable, Enter
<1>5. ASSUME NEW a \in Agents, NEW c \in Cases, QueueOnly(a, c) PROVE TypeOK'
  BY <1>5 DEF QueueOnly, Enter
<1>6. ASSUME NEW a \in Agents, WorkEnds(a) PROVE TypeOK'
  <2>1. rows' \in [Cases -> Nat]
    <3>1. CASE job[a] \in Cases
      <4>1. rows[job[a]] + 1 \in Nat
        BY <3>1
      <4>2. rows' = [rows EXCEPT ![job[a]] = rows[job[a]] + 1]
        BY <1>6 DEF WorkEnds
      <4>3. QED
        BY <4>1, <4>2
    <3>2. CASE job[a] \notin Cases
      BY <1>6, <3>2 DEF WorkEnds
    <3>3. QED
      BY <3>1, <3>2
  <2>2. pc' \in [Agents -> Places] /\ job' \in [Agents -> Cases \cup {NoCase}]
    BY <1>6 DEF WorkEnds
  <2>3. QED
    BY <1>6, <2>1, <2>2 DEF WorkEnds, platformVars
<1>7. ASSUME NEW a \in Agents, Leave(a) PROVE TypeOK'
  <2>1. lease' \in [Cases -> Agents \cup {Nobody}]
    BY <1>7 DEF Leave
  <2>2. QED
    BY <1>7, <2>1 DEF Leave
<1>8. ASSUME NEW a \in Agents, Break(a) PROVE TypeOK'
  BY <1>8 DEF Break, platformVars
<1>9. ASSUME NEW c \in Cases, Deliver(c) PROVE TypeOK'
  BY <1>9 DEF Deliver
<1>10. ASSUME NEW c \in Cases, Expire(c) PROVE TypeOK'
  <2>1. Holding(lease[c], c) \in BOOLEAN
    BY DEF Holding
  <2>2. QED
    BY <1>10, <2>1 DEF Expire, agentVars
<1>11. ASSUME Passes PROVE TypeOK'
  BY <1>11 DEF Passes, agentVars
<1>12. CASE UNCHANGED vars
  BY <1>12 DEF vars, platformVars, agentVars
<1>13. QED
  BY <1>1, <1>2, <1>3, <1>4, <1>5, <1>6, <1>7, <1>8, <1>9, <1>10, <1>11, <1>12
     DEF Next, RunStep, Scheduled, Asked

\* An agent is idle exactly when it works no case, and it holds the case it
\* works unless there was a mishap.
LEMMA ClaimsKept == RotaInv /\ [Next]_vars => JobsInv' /\ ClaimsHold'
<1> SUFFICES ASSUME RotaInv, [Next]_vars PROVE JobsInv' /\ ClaimsHold'
  OBVIOUS
<1> USE CasesAssumption, AgentsAssumption DEF RotaInv, TypeOK, JobsInv, ClaimsHold
<1>1. ASSUME NEW a \in Agents, Fetch(a) PROVE JobsInv' /\ ClaimsHold'
  BY <1>1 DEF Fetch, platformVars
<1>2. ASSUME NEW a \in Agents, Age(a) PROVE JobsInv' /\ ClaimsHold'
  BY <1>2 DEF Age, platformVars
<1>3. ASSUME NEW a \in Agents, NEW c \in Cases, Claim(a, c) PROVE JobsInv' /\ ClaimsHold'
  BY <1>3 DEF Claim, Enter, Free
<1>4. ASSUME NEW a \in Agents, NEW c \in Cases, ClaimUnavailable(a, c)
      PROVE JobsInv' /\ ClaimsHold'
  BY <1>4 DEF ClaimUnavailable, Enter
<1>5. ASSUME NEW a \in Agents, NEW c \in Cases, QueueOnly(a, c) PROVE JobsInv' /\ ClaimsHold'
  BY <1>5 DEF QueueOnly, Enter
<1>6. ASSUME NEW a \in Agents, WorkEnds(a) PROVE JobsInv' /\ ClaimsHold'
  BY <1>6 DEF WorkEnds, platformVars
<1>7. ASSUME NEW a \in Agents, Leave(a) PROVE JobsInv' /\ ClaimsHold'
  BY <1>7 DEF Leave
<1>8. ASSUME NEW a \in Agents, Break(a) PROVE JobsInv' /\ ClaimsHold'
  BY <1>8 DEF Break, platformVars
<1>9. ASSUME NEW c \in Cases, Deliver(c) PROVE JobsInv' /\ ClaimsHold'
  BY <1>9 DEF Deliver
<1>10. ASSUME NEW c \in Cases, Expire(c) PROVE JobsInv' /\ ClaimsHold'
  BY <1>10 DEF Expire, Holding, agentVars
<1>11. ASSUME Passes PROVE JobsInv' /\ ClaimsHold'
  BY <1>11 DEF Passes, agentVars
<1>12. CASE UNCHANGED vars
  BY <1>12 DEF vars, platformVars, agentVars
<1>13. QED
  BY <1>1, <1>2, <1>3, <1>4, <1>5, <1>6, <1>7, <1>8, <1>9, <1>10, <1>11, <1>12
     DEF Next, RunStep, Scheduled, Asked

\* The inductive invariant: types, and claims that hold until a mishap
\* (scan.py:507), for any agents, cases, bounds and orders.
THEOREM RotaInvariant == Spec => []RotaInv
<1>1. RotaInv /\ [Next]_vars => RotaInv'
  BY TypeKept, ClaimsKept DEF RotaInv
<1>2. QED
  BY InitRota, <1>1, PTL DEF Spec

\* Two agents work one case only after a mishap (scan.py:507, scan.py:840).
THEOREM OverlapsAreMishaps == Spec => []OverlapNeedsMishap
<1>1. RotaInv => OverlapNeedsMishap
  <2> SUFFICES ASSUME RotaInv, ~mishap, NEW a \in Agents, NEW b \in Agents,
                      pc[a] \in {"claimed", "unclaimed"}, pc[b] \in {"claimed", "unclaimed"},
                      job[a] = job[b]
               PROVE  a = b
    BY DEF OverlapNeedsMishap
  <2>1. lease[job[a]] = a /\ lease[job[b]] = b
    BY DEF RotaInv, ClaimsHold
  <2>2. QED
    BY <2>1
<1>2. QED
  BY RotaInvariant, <1>1, PTL
=============================================================================
