SPECIFICATION Spec
CONSTANTS
  a1 = a1
  s1 = s1
  Admins = {a1}
  Strangers = {s1}
  Stalls = FALSE
  MaxCalls <- MCMaxCalls
  MaxFaults = 0
INVARIANT EventQueryFinds
