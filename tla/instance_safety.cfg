CONSTANTS
  Plans = {p1, p2}
  Params = {a, NoParams, BadParams}
  NoParams = NoParams
  BadParams = BadParams
  Contexts = {c1}
  NoContext = NoContext
  NoSpec = NoSpec
  BrokerModes = {"sync", "async"}
  DisableAsync = FALSE
  ReturnsKey = TRUE
  MaxEdits = 2
  MaxFaults = 2
SPECIFICATION Spec
INVARIANTS TypeOK DeletionOpsOnlyOnDeleted IInv
PROPERTIES DeprovisionOnlyWhenDeleted FinalizerUntilDeprovisioned ProvisionLeavesEvidence Lifecycle
SYMMETRY PlanSymmetry
CHECK_DEADLOCK FALSE
