----------------------------- MODULE MCScanRun -----------------------------
(* Small instances of ScanRun for TLC. *)
EXTENDS ScanRun

CONSTANTS slur, plain, cron, chat

TwoItems == {slur, plain}
PlainItem == {plain}
SlurItem == {slur}
OneScanner == {cron}
OneReplayer == {chat}
NoProcess == {}
=============================================================================
