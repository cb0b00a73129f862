\* Two accounts, the room they may be paired in, and one that players found; either may be there
\* from an earlier process.
CONSTANTS
  Users = {u1, u2}
  PublicRooms = {m1}
  Tables = {t1}
  NoRoom = NoRoom
  MaxRuntimes = 3
  MaxMatches = 1
  MaxCalls = 2
SPECIFICATION Spec
INVARIANTS OneLive 
 
SYMMETRY Alike
CHECK_DEADLOCK FALSE
