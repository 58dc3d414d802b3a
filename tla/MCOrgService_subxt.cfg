\* Extrinsics wait in a pool; a call returns before its extrinsic has run.  Envelopes
\* go from the administrator to the member concerned; reads one epoch late.
CONSTANTS
  Nodes = {a, b, c}
  Admin = a
  Relays = {}
  ChainMode = "subxt"
  Receivers = {"verify", "self_delete"}
  MaxLag = 1
  MaxEpochs = 4
  MaxFaults = 2
SPECIFICATION FairSpec
INVARIANTS
  TypeOK
  RecordsAnchored
  NumbersAreEpochs
PROPERTIES
  AnchorsAreHistory
  
  
CHECK_DEADLOCK FALSE
