CONSTANTS
  Plans = {p1}
  Params = {a, b}
  NoParams = NoParams
  BadParams = BadParams
  Contexts = {c1}
  NoContext = NoContext
  NoSpec = NoSpec
  BrokerModes = {"sync", "async"}
  DisableAsync = FALSE
  ReturnsKey = FALSE
  MaxEdits = 2
  MaxFaults = 1
SPECIFICATION FairSpec
PROPERTIES SpecReachesBroker RequestsCease
CHECK_DEADLOCK FALSE
