------------------------------ MODULE MCOutbox ------------------------------
(* Small instances of Outbox for TLC. *)
EXTENDS Outbox

CONSTANTS scan, chat, report

OneDrainer == {scan}
TwoDrainers == {scan, chat}
MixedDrainers == {scan, report}
NoRows == {}
TwoRow == {2}
=============================================================================
