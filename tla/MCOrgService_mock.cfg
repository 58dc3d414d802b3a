\* Headless chain; every fault; one node passes envelopes on; reads two epochs late.
CONSTANTS
  Nodes = {a, b, c}
  Admin = a
  Relays = {c}
  ChainMode = "mock"
  Receivers = {"verify", "self_delete"}
  MaxLag = 2
  MaxEpochs = 5
  MaxFaults = 2
SPECIFICATION Spec
INVARIANTS
  RecordsAnchored
  AdminAnchored
PROPERTIES
  DiskNeverRollsBack
  DeletedOnlyIfRevoked
CHECK_DEADLOCK FALSE
