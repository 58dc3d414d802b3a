\* Two organisations, two roots, two keys; up to three overlapping calls, each with any epoch.
CONSTANTS
  Admins = {p1, p2}
  Roots = {r1, r2}
  PubKeys = {k1, k2}
  Zero = zero
  MaxCalls = 3
SYMMETRY Symmetry
SPECIFICATION Spec
INVARIANTS
  TypeOK
  LogsReplayToStorage
  OneCallPerEpoch
PROPERTY
  ImplementsHistory
CHECK_DEADLOCK FALSE
