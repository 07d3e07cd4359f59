SPECIFICATION FairSpec
CONSTANTS
  N = 5
  MaxAttempts = 1
  AirMax = 3
  Lossy = {"fragment"}
  MaxLosses = 7
  MaxCorrupted = 0
  Patient = TRUE
  Unbounded = Unbounded
PROPERTY LostFragmentsAreRecovered
CHECK_DEADLOCK FALSE
