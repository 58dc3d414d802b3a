\* Two commands at once, two personas, an organisation of up to three epochs, one crash.
SPECIFICATION Spec
CONSTANTS
  Commands = {c1, c2}
  Loops = {r1, r2}
  MaxPersonas = 2
  MaxEpoch = 3
  MaxCrashes = 1
INVARIANTS
  TypeOK
  PersonasNeverSilentlyLost
  EventsReportTheRecord
  HandedOutAddressLive
PROPERTY
  CommandsReturn
CHECK_DEADLOCK FALSE
