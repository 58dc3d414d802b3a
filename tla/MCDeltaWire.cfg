\* Two ids (101 and 110), three handles (two confusable), with or without a device; vectors of up to 2 entries.
CONSTANTS
  MemberIds = {5, 6}
  SmtDepth = 3
  h1 = h1
  h2 = h2
  h3 = h3
  Handles <- MCHandles
  Skeletons <- MCSkeletons
  Skeleton <- MCSkeleton
  Names = {"n"}
  Keys = {"k"}
  Devices = {"d"}
  MaxDevices = 1
  MaxEntries = 2
SPECIFICATION TreeSpec
INVARIANTS
  LoopsMatchSetForm
  AcceptedTrieIsGenesis
  TreeHoldsMembers
  HashTellsMembers
  TreeDiffIsDelta
