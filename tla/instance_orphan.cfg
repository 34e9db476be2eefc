CONSTANTS
  Plans = {p1}
  Params = {a}
  NoParams = NoParams
  BadParams = BadParams
  Contexts = {c1}
  NoContext = NoContext
  NoSpec = NoSpec
  BrokerModes = {"sync"}
  DisableAsync = TRUE
  ReturnsKey = TRUE
  MaxEdits = 1
  MaxFaults = 0
SPECIFICATION Spec
INVARIANT NoOrphan
CHECK_DEADLOCK FALSE
