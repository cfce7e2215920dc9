SPECIFICATION Spec
CONSTANTS
  cooperative = cooperative
  apex = apex
  Clients = {cooperative, apex}
  Periods <- MCPeriods
  Methods = {"upload"}
  DefaultMethod = "manual_grid"
  MaxRetries = 1
  MaxRows = 2
  MaxForeign = 1
  MaxReference = 3
INVARIANTS TypeOK ButtonExplains ProgressMirrored ReportsAgree RetriesSuffice
 
SYMMETRY Symmetry
CHECK_DEADLOCK FALSE
