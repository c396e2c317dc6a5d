SPECIFICATION Spec
CONSTANTS
  slur = slur
  plain = plain
  cron = cron
  chat = chat
  Items <- TwoItems
  Matched <- SlurItem
  Scanners <- OneScanner
  Replayers <- NoProcess
  MaxRelease = 1
  MaxAttempts = 2
  MaxRoom = 2
  MaxMoney = 2
  ReplayLimit = 2
  MaxCrashes = 2
INVARIANTS
  SeenIsQueued
  RowsNeedCrashes
  MatchedFirst
PROPERTY CompletedIsWhole
