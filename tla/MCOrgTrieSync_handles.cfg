\* Handles change hands between two members; one device, one key, one name.
CONSTANTS
  MemberIds = {1, 2}
  h1 = h1
  h2 = h2
  h3 = h3
  Handles <- MCHandles
  Skeletons <- MCSkeletons
  Skeleton <- MCSkeleton
  Names = {"n"}
  Keys = {"k"}
  Devices = {"d"}
  MaxDevices = 1
  MaxCommits = 2
  FreshKeys = FALSE
SPECIFICATION Spec
INVARIANTS
  IndexesMatchTree
  CachesFresh
  AcceptedUnlessHandedDown
PROPERTY
  ReplicaMovesToTrusted
