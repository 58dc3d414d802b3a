\* Extrinsics wait in a pool; one push fails and the administrator goes on.
CONSTANTS
  Nodes = {a, b, c}
  Admin = a
  Relays = {}
  ChainMode = "subxt"
  Receivers = {"verify"}
  MaxLag = 0
  MaxEpochs = 3
  MaxFaults = 1
SPECIFICATION FairSpec
PROPERTY
  AdminRecordSettles
CHECK_DEADLOCK FALSE
