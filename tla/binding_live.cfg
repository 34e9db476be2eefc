CONSTANTS
  Params = {a, b, NoParams}
  NoParams = NoParams
  Name = Name
  Uuids = {u1}
  NoName = NoName
  Metadata = "none"
  RotateBindings = FALSE
  BrokerModes = {"sync", "async"}
  DisableAsync = FALSE
  Forgets = FALSE
  MaxEdits = 2
  MaxFaults = 1
SPECIFICATION FairSpec
PROPERTIES CredentialsPublished MismatchReported RequestsCease UneditedDeletionCompletes
CHECK_DEADLOCK FALSE
