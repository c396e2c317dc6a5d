SPECIFICATION FairSpec
CONSTANTS
  here = here
  there = there
  tool = tool
  page = page
  j1 = j1
  j2 = j2
  NoAccount = NoAccount
  NoJob = NoJob
  Accounts <- OneAccount
  Publishers <- TwoPublishers
  Collectors <- OneCollector
  Jobs <- TwoJobs
  AccountOf <- OnThePage
  Limit = 2
INVARIANTS
  PublishInv
  ChallengesAreKept
  ReportsAreTrue
PROPERTIES
  AtMostOnePost
  EveryClaimIsReported
