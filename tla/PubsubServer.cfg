SPECIFICATION FairSpec
CONSTANTS
  Topic = {t1}
  Slot = {s1}
  Peer = {p1}
  MaxMessages = 2
INVARIANTS MutexesGivenBack SlotsAgree DeletedAreForgotten
PROPERTIES ImplementsBoard CallsReturn
CHECK_DEADLOCK FALSE
