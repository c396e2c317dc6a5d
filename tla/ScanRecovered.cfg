SPECIFICATION Spec
CONSTANTS
  slur = slur
  plain = plain
  cron = cron
  chat = chat
  Items <- PlainItem
  Matched <- NoProcess
  Scanners <- OneScanner
  Replayers <- OneReplayer
  MaxRelease = 1
  MaxAttempts = 3
  MaxRoom = 1
  MaxMoney = 1
  ReplayLimit = 1
  MaxCrashes = 1
INVARIANT RecoveredIsQueued
