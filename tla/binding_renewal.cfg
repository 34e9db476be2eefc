CONSTANTS
  Poll = 1
  Latency = 1
  Life = 10
  Window = 5
  Rotations = {TRUE, FALSE}
  Formats = {"both", "badExpiry", "noRenewal"}
  AsyncRotations = {TRUE, FALSE}
  Refusals = {TRUE, FALSE}
  MaxFaults = 1
  MaxTime = 30
SPECIFICATION Spec
INVARIANTS TypeOK NeverExpired RenewalFailureReported DatesShown
CHECK_DEADLOCK FALSE
