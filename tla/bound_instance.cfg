CONSTANTS
  Params = {a}
  NoParams = NoParams
  Name = Name
  Uuids = {u1}
  NoName = NoName
  Metadata = "none"
  RotateBindings = FALSE
  BrokerModes = {"sync"}
  DisableAsync = FALSE
  Forgets = FALSE
  MaxEdits = 1
  MaxFaults = 0
  IPlans = {p1}
  IParams = {a}
  BadParams = BadParams
  Contexts = {c1}
  NoContext = NoContext
  NoSpec = NoSpec
  IBrokerModes = {"async"}
  IDisableAsync = FALSE
  ReturnsKey = TRUE
  IMaxEdits = 1
  IMaxFaults = 0
SPECIFICATION FairSpecBoth
PROPERTIES BoundOnceProvisioned BothDeletionsComplete
CHECK_DEADLOCK FALSE
