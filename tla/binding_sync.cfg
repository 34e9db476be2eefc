CONSTANTS
  Params = {a, b}
  NoParams = NoParams
  Name = Name
  Uuids = {u1, u2}
  NoName = NoName
  Metadata = "renew"
  RotateBindings = TRUE
  BrokerModes = {"sync"}
  DisableAsync = FALSE
  Forgets = TRUE
  MaxEdits = 2
  MaxFaults = 2
SPECIFICATION Spec
INVARIANTS NoOrphan
PROPERTIES UnbindOnlyWhenDeleted Lifecycle
SYMMETRY UuidSymmetry
CHECK_DEADLOCK FALSE
