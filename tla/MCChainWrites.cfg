SPECIFICATION Spec
CONSTANTS
  a1 = a1
  s1 = s1
  Admins = {a1}
  Strangers = {s1}
  Stalls = TRUE
  MaxCalls <- MCMaxCalls
  MaxFaults = 2
INVARIANTS TypeOK DrainedMeansAnchored ControlKept OnlyCreatedProxiesUsed
PROPERTY CallsReturn
