SPECIFICATION FairSpec
CONSTANTS
  scan = scan
  chat = chat
  MaxCaptures = 2
  Deliverers <- TwoDeliverers
  Limit = 2
  Unwelcome <- FirstCapture
  Unreadable <- FirstCapture
  Stubborn <- FirstCapture
  MaxCrashes = 1
INVARIANTS
  EvidenceInv
  OnlyCopyKept
  ForgottenMeansGone
PROPERTIES
  EveryCaptureArrives
  RemovedUnlessKilled
CHECK_DEADLOCK FALSE
