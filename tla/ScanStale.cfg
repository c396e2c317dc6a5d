SPECIFICATION FairSpec
CONSTANTS
  slur = slur
  plain = plain
  cron = cron
  chat = chat
  Items <- PlainItem
  Matched <- NoProcess
  Scanners <- OneScanner
  Replayers <- OneReplayer
  MaxRelease = 2
  MaxAttempts = 2
  MaxRoom = 1
  MaxMoney = 1
  ReplayLimit = 2
  MaxCrashes = 0
PROPERTY StaleIsReassessed
