CONSTANTS
  Objects = {x, y}
  Configs = {c, d}
  ClusterConfigs = {d}
  NoConfig = NoConfig
  Workers = 1
  Timeouts = {1}
  MaxEdits = 1
  MaxFaults = 1
SPECIFICATION FairSpec
INVARIANTS TypeOK KeptForUsers
PROPERTIES BothDeletionsComplete ConfigDeletionCompletes EveryObjectServed
CHECK_DEADLOCK FALSE
