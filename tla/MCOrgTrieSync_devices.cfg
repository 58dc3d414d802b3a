\* Devices and keys of one member; the caller always mints a new key.
CONSTANTS
  MemberIds = {1}
  h1 = h1
  h2 = h2
  h3 = h3
  Handles = {h1}
  Skeletons <- MCSkeletons
  Skeleton <- MCSkeleton
  Names = {"n"}
  Keys = {k1, k2, k3, k4}
  Devices = {d1, d2, d3}
  MaxDevices = 2
  MaxCommits = 2
  FreshKeys = TRUE
SYMMETRY KeySymmetry
SPECIFICATION Spec
INVARIANTS
  TypeOK
  RemovedDeviceLosesKey
