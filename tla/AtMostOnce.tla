----------------------------- MODULE AtMostOnce -----------------------------
(***************************************************************************)
(* What cron/delivery_queue.py promises for messages and                   *)
(* plugins/ettok/publish.py for posts, without saying how: what was asked  *)
(* for is handed out at most once, is called delivered or failed only      *)
(* after that, and whatever it is called stands for ever.  What nobody can *)
(* vouch for any more is called unknown, also while a transport is still   *)
(* busy with it.                                                           *)
(***************************************************************************)
CONSTANT Request   \* every delivery that may ever be requested

VARIABLES
  requested,      \* deliveries written down
  attempts,       \* how often each was handed to a transport
  outcome         \* what each is known to have come to, "none" so far

Outcomes == {"delivered", "failed", "unknown"}

Init ==
  /\ requested = {}
  /\ attempts = [r \in Request |-> 0]
  /\ outcome = [r \in Request |-> "none"]

\* Several may be asked for in one commit.
Ask(S) ==
  /\ S \cap requested = {}
  /\ requested' = requested \cup S
  /\ UNCHANGED <<attempts, outcome>>

Attempt(r) ==
  /\ r \in requested
  /\ attempts[r] = 0
  /\ outcome[r] \in {"none", "unknown"}
  /\ attempts' = [attempts EXCEPT ![r] = 1]
  /\ UNCHANGED <<requested, outcome>>

Settle(r, result) ==
  /\ attempts[r] = 1
  /\ outcome[r] = "none"
  /\ outcome' = [outcome EXCEPT ![r] = result]
  /\ UNCHANGED <<requested, attempts>>

Abandon(S) ==
  /\ S \subseteq requested
  /\ \A r \in S : outcome[r] = "none"
  /\ outcome' = [r \in Request |-> IF r \in S THEN "unknown" ELSE outcome[r]]
  /\ UNCHANGED <<requested, attempts>>

Next ==
  \/ \E S \in SUBSET Request : Ask(S)
  \/ \E r \in Request :
       Attempt(r) \/ \E result \in {"delivered", "failed"} : Settle(r, result)
  \/ \E S \in SUBSET requested : Abandon(S)

vars == <<requested, attempts, outcome>>

Spec == Init /\ [][Next]_vars

=============================================================================
