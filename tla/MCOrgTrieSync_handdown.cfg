\* A handle passes to a member with a smaller id within one commit.
CONSTANTS
  MemberIds = {1, 2}
  h1 = h1
  h2 = h2
  h3 = h3
  Handles <- MCHandles
  Skeletons <- MCSkeletons
  Skeleton <- MCSkeleton
  Names = {"n"}
  Keys = {"k"}
  Devices = {"d"}
  MaxDevices = 1
  MaxCommits = 1
  FreshKeys = FALSE
SPECIFICATION Spec
INVARIANT HonestDeltaAccepted
