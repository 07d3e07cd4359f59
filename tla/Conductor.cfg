SPECIFICATION MCSpec
CONSTANTS
  Width = 25
  CycleTime = 10
  AwakeTime = 4
  ServerMargin = 1
  Try = 1
  Tries = 4
  Patience = 1
  RetryWait = 3
  AwakeMargin = 0
  Askers = {a1, a2}
  Asks = {2}
  TakenBy = 5
  MaxWork = 1
  MaxDelay = 1
INVARIANTS ClientsMeetServer TimeboxKept GrantedTimeIsKept
PROPERTY ComesIntoStep
CHECK_DEADLOCK FALSE
