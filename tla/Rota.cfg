SPECIFICATION FairSpec
CONSTANTS
  here = here
  there = there
  first = first
  second = second
  Nobody = Nobody
  NoCase = NoCase
  Unread = Unread
  Agents <- TwoAgents
  Operated <- OneAgent
  MaxFaults = 1
  Cases <- TwoCases
  Rank <- EqualRanks
  MaxRows = 1
INVARIANTS
  RotaInv
  OverlapNeedsMishap
PROPERTY EveryCaseHasItsTurn
