------------------------------ MODULE Accounts ------------------------------
(***************************************************************************)
(* plugins/ettok/collect/session.py: the table account_health, in which    *)
(* every process of a machine notes what the sites think of the accounts   *)
(* it works with.  The operators below are the functions of the module,    *)
(* one commit each; who calls them, and when, is in Publish.               *)
(***************************************************************************)

CONSTANTS
  Accounts      \* accounts the machine is signed in to

VARIABLES
  state,        \* account_health.state; an account without a row is healthy
  cooling       \* cooldown_until is set and lies in the future

accountVars == <<state, cooling>>

States == {"healthy", "quarantined", "auth_lost"}

AccountsTypeOK ==
  /\ state \in [Accounts -> States]
  /\ cooling \in [Accounts -> BOOLEAN]

AccountsInit ==
  /\ state = [a \in Accounts |-> "healthy"]
  /\ cooling = [a \in Accounts |-> FALSE]

\* Mutant of Usable: the rest ends every kind of block.
UsableRested(a) == state[a] = "healthy" \/ ~cooling[a]

\* account_state() answers healthy: a quarantine ends with its rest, a lost
\* session does not.
Usable(a) == state[a] = "healthy" \/ (state[a] = "quarantined" /\ ~cooling[a])

\* record_success() and release(): back to healthy, whatever the row said.
Heal(a) ==
  /\ state' = [state EXCEPT ![a] = "healthy"]
  /\ cooling' = [cooling EXCEPT ![a] = FALSE]

\* quarantine(): out of rotation, whatever the row said.
Quarantine(a, kind) ==
  /\ state' = [state EXCEPT ![a] = IF kind = "signedout" THEN "auth_lost" ELSE "quarantined"]
  /\ cooling' = [cooling EXCEPT ![a] = TRUE]

\* QUARANTINE_HOURS pass.
CooldownEnds(a) ==
  /\ cooling' = [cooling EXCEPT ![a] = FALSE]
  /\ UNCHANGED state
=============================================================================
