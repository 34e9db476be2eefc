CONSTANTS
  Params = {a, NoParams}
  NoParams = NoParams
  Name = Name
  Uuids = {u1}
  NoName = NoName
  Metadata = "renew"
  RotateBindings = TRUE
  BrokerModes = {"sync", "async"}
  DisableAsync = FALSE
  Forgets = TRUE
  MaxEdits = 2
  MaxFaults = 2
SPECIFICATION Spec
INVARIANTS TypeOK
PROPERTIES BindLeavesEvidence RotateOnlyHeld
CHECK_DEADLOCK FALSE
