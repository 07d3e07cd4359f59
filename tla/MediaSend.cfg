SPECIFICATION FairSpec
CONSTANTS
  Messages = {m1, m2}
  Receipt = {m1, m2}
  Recovery = {}
  HostMedia = {"espnow", "ble"}
  PeerMedia = {"espnow", "ble"}
  Evicting = {"espnow"}
  MaxTries = 2
  MaxDepth = 2
INVARIANTS OneOwnerFreesOnce NeverBackToAMedium
PROPERTIES ImplementsDelivery EveryMessageSettles
CHECK_DEADLOCK FALSE
