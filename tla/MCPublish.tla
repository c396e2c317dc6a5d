----------------------------- MODULE MCPublish ------------------------------
(* A small instance of Publish for TLC: two publishers, a collector, and two *)
(* posts for one account. *)
EXTENDS Publish

CONSTANTS here, there, tool, page, j1, j2

TwoPublishers == {here, there}
OneCollector == {tool}
OneAccount == {page}
TwoJobs == {j1, j2}
OnThePage == [j \in TwoJobs |-> page]
=============================================================================
