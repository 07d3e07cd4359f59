SPECIFICATION FairSpec
CONSTANTS
  N = 2
  MaxAttempts = 2
  AirMax = 2
  Lossy = {"request", "fragment", "check", "resend", "result"}
  MaxLosses = Unbounded
  MaxCorrupted = 1
  Patient = FALSE
  Unbounded = Unbounded
INVARIANTS OkMeansThePeerHasIt
PROPERTIES ImplementsTransfer AlwaysReturns
CHECK_DEADLOCK FALSE
