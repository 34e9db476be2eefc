CONSTANTS
  Plans = {p1}
  Params = {a, b}
  NoParams = NoParams
  BadParams = BadParams
  Contexts = {c1}
  NoContext = NoContext
  NoSpec = NoSpec
  BrokerModes = {"async"}
  DisableAsync = FALSE
  ReturnsKey = TRUE
  MaxEdits = 2
  MaxFaults = 1
SPECIFICATION FairSpec
PROPERTIES DeletionCompletes OutcomeReported
CHECK_DEADLOCK FALSE
