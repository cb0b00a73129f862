\* Two players for one chair, in a room that closes and goes.
CONSTANTS
  Requests = {q1, q2}
  NoRecord = NoRecord
  Modes = {"player"}
  Capacity = 1
  AdmissionTtl = 1
  SessionTtl = 2
  TouchInterval = 1
  Closes = TRUE
  MaxLives = 1
  CallIds = {i1, i2}
  MaxNow = 2
SPECIFICATION Spec
INVARIANTS TypeOK AdmittedIsMember RefusedHoldsNothing HandedOutStays
PROPERTY EndedStaysEnded
SYMMETRY Alike
