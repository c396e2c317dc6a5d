SPECIFICATION Spec
CONSTANTS
  scan = scan
  chat = chat
  report = report
  MaxRows = 2
  Drainers <- MixedDrainers
  Reclaimers <- OneDrainer
  Limit = 2
  Malformed <- NoRows
INVARIANTS
  IndInv
  PerformedOnce
