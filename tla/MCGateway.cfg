\* Three sockets from two addresses that may hold two; two sessions of one room.
CONSTANTS
  Sockets = {a1, a2, a3}
  NoSocket = NoSocket
  Sessions = {s1, s2}
  NoSession = NoSession
  Ips = {i1, i2}
  MaxPerIp = 2
  MaxCalls = 2
  MaxRevision = 1
SPECIFICATION Spec
INVARIANTS OneWriter SubscribedOnce QuotaIsExact EndedSeesNoMore
SYMMETRY Alike
