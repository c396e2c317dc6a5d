------------------------------ MODULE MCEvidence ------------------------------
(* Small instances of Evidence for TLC. *)
EXTENDS Evidence

CONSTANTS scan, chat

OneDeliverer == {scan}
TwoDeliverers == {scan, chat}
NoCaptures == {}
FirstCapture == {1}
LastCapture == {MaxCaptures}
=============================================================================
