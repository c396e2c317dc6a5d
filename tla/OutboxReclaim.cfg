SPECIFICATION Spec
CONSTANTS
  scan = scan
  chat = chat
  report = report
  MaxRows = 2
  Drainers <- TwoDrainers
  Reclaimers <- TwoDrainers
  Limit = 1
  Malformed <- NoRows
PROPERTY ReclaimsOnlyAbandoned
