------------------------------ MODULE Delivery ------------------------------
(***************************************************************************)
(* What the delivery queue of plugins/ettok/platform/outbox.py promises,   *)
(* without saying how: a submission is written down, its work is done by   *)
(* the platform at most once, and the sender acknowledges it only after    *)
(* the work was done and never takes the acknowledgement back.             *)
(***************************************************************************)
CONSTANT Submission   \* everything that may ever be queued

VARIABLES
  submitted,      \* submissions written to disk
  done,           \* submissions whose work the platform has performed
  acknowledged    \* submissions the sender has recorded as delivered

Init ==
  /\ submitted = {}
  /\ done = {}
  /\ acknowledged = {}

Submit(s) ==
  /\ s \notin submitted
  /\ submitted' = submitted \cup {s}
  /\ UNCHANGED <<done, acknowledged>>

Perform(s) ==
  /\ s \in submitted \ done
  /\ done' = done \cup {s}
  /\ UNCHANGED <<submitted, acknowledged>>

Acknowledge(s) ==
  /\ s \in done \ acknowledged
  /\ acknowledged' = acknowledged \cup {s}
  /\ UNCHANGED <<submitted, done>>

Next == \E s \in Submission : Submit(s) \/ Perform(s) \/ Acknowledge(s)

vars == <<submitted, done, acknowledged>>

Spec == Init /\ [][Next]_vars

=============================================================================
