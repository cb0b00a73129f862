\* One session, authorized twice at once: checks a claim that does not hold.
CONSTANTS
  Requests = {q1}
  NoRecord = NoRecord
  Modes = {"player"}
  Capacity = 1
  AdmissionTtl = 1
  SessionTtl = 2
  TouchInterval = 1
  Closes = FALSE
  MaxLives = 1
  CallIds = {i1, i2}
  MaxNow = 2
SPECIFICATION Spec
INVARIANT LiveIsAuthorized
