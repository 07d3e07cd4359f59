SPECIFICATION ClientFairSpec
CONSTANTS
  Kinds = {"callback", "published"}
  Tasks = {x}
  MaxPresentations = 1
  Application = Application
  x = x
INVARIANT NobodyIsForgotten
PROPERTY PublishersHeal
CHECK_DEADLOCK FALSE
